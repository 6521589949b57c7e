--------------------------- MODULE VisitasProofs ---------------------------
(* Theorems about Visitas, for any vehicles, visits, requests and items.   *)
EXTENDS Visitas, SumTheorems

-----------------------------------------------------------------------------
(* What a row and a request in progress are, whoever writes them.          *)
RowOK(row) ==
    /\ row \in VisitaRow
    /\ row.legacy => row.estado = "BORRADOR"
    /\ row.cerradoAt > 0 <=> row.estado = "CERRADO"
    /\ row.estado \in {"BORRADOR", "CERRADO"} => row.unidad \in Unidades

OnVisit == {"UPDATE_KM", "UPDATE_SAVE", "UPDATE_DELETE", "UPDATE_INSERT",
            "REMOVE_REQUISITOS", "REMOVE_PIEZAS", "REMOVE_ROW", "CLOSE"}

PetOK(q) ==
    /\ q \in Peticion
    /\ RowOK(q.row)
    /\ IsFiniteSet(q.piezas)
    /\ q.op \in OnVisit => q.visita \in Visitas
    /\ q.op \in {"CREATE", "ORDER"} => q.row.unidad \in Unidades
    /\ q.op \in {"CREATE", "ORDER", "UPDATE_KM"} => q.km \in Kms
    /\ q.op \in {"UPDATE_KM", "UPDATE_SAVE"} => q.row.estado = "BORRADOR"

TInv ==
    /\ TypeOK
    /\ \A v \in Visitas : RowOK(visita[v]) /\ IsFiniteSet(piezas[v])
    /\ \A p \in Peticiones : PetOK(pet[p])

LEMMA NoRowOK == RowOK(NoRow)
BY VisitasAssumption DEF RowOK, NoRow, VisitaRow

LEMMA NewRowOK ==
  ASSUME NEW u \in Unidades, NEW km \in Kms, NEW legacy \in BOOLEAN,
         NEW clave \in Claves \cup {NULL}
  PROVE  /\ RowOK(NewRow(u, km, legacy, clave))
         /\ NewRow(u, km, legacy, clave).estado = "BORRADOR"
<1> DEFINE row == NewRow(u, km, legacy, clave)
<1>1. km \in Nat BY VisitasAssumption
<1>2. row \in VisitaRow BY <1>1 DEF NewRow, NoRow, VisitaRow
<1>3. row.estado = "BORRADOR" /\ row.cerradoAt = 0 /\ row.unidad = u
  BY DEF NewRow, NoRow
<1> QED BY <1>2, <1>3 DEF RowOK

LEMMA IdleOK == PetOK(Idle) /\ PetOK(Done)
<1>1. IsFiniteSet({}) BY FS_EmptySet
<1>2. RowOK(NoRow) BY NoRowOK
<1>3. Idle \in Peticion /\ Done \in Peticion
  BY <1>2 DEF Idle, Done, Peticion, Ops, Tablas, RowOK
<1>4. /\ Idle.row = NoRow /\ Idle.piezas = {} /\ Idle.op = "IDLE"
      /\ Done.row = NoRow /\ Done.piezas = {} /\ Done.op = "DONE"
  BY DEF Idle, Done
<1> QED BY <1>1, <1>2, <1>3, <1>4 DEF PetOK, OnVisit

(* One request moves.                                                      *)
LEMMA PetStep ==
  ASSUME TInv, NEW p \in Peticiones, NEW q, PetOK(q), pet' = [pet EXCEPT ![p] = q]
  PROVE  /\ pet' \in [Peticiones -> Peticion]
         /\ \A x \in Peticiones : PetOK(pet'[x])
<1>1. pet \in [Peticiones -> Peticion] BY DEF TInv, TypeOK
<1>2. q \in Peticion BY DEF PetOK
<1>3. \A x \in Peticiones : pet'[x] = IF x = p THEN q ELSE pet[x] BY <1>1
<1> QED BY <1>1, <1>2, <1>3 DEF TInv

(* A request that begins, goes on or ends stays well-formed.               *)
LEMMA StartOK ==
  ASSUME TInv, NEW p \in Peticiones, Start(p)
  PROVE  /\ UNCHANGED <<visita, requisitos, piezas, closing, enServicio, modo>>
         /\ \E q : PetOK(q) /\ pet' = [pet EXCEPT ![p] = q]
<1>0. /\ RowOK(NoRow) /\ IsFiniteSet({}) /\ {} \in SUBSET Fila /\ "NADA" \in Tablas
      /\ \A op \in {"CREATE", "ORDER", "UPDATE_KM", "UPDATE_SAVE", "REMOVE_REQUISITOS",
                    "CLOSE"} : op \in Ops
  BY NoRowOK, FS_EmptySet DEF Tablas, Ops
<1>1. ASSUME NEW u \in Unidades, NEW km \in Kms, CreateRead(p, u, km)
      PROVE  \E q : PetOK(q) /\ pet' = [pet EXCEPT ![p] = q]
  <2> DEFINE row == [NoRow EXCEPT !.unidad = u]
             q == [Idle EXCEPT !.op = "CREATE", !.km = km, !.row = row]
  <2>1. RowOK(row) /\ row.unidad = u
    BY <1>0 DEF RowOK, NoRow, VisitaRow
  <2>2. pet' = [pet EXCEPT ![p] = q] BY <1>1 DEF CreateRead, Begin
  <2> HIDE DEF row
  <2>3. /\ q \in Peticion
        /\ q.op = "CREATE" /\ q.row = row /\ q.piezas = {} /\ q.km = km
    BY <1>0, <2>1 DEF Idle, Peticion, RowOK
  <2> HIDE DEF q
  <2>4. PetOK(q) BY <1>0, <2>1, <2>3 DEF PetOK, OnVisit
  <2> QED BY <2>2, <2>4
<1>2. ASSUME NEW u \in Unidades, NEW km \in Kms, NEW k \in Claves, OrderRead(p, u, km, k)
      PROVE  \E q : PetOK(q) /\ pet' = [pet EXCEPT ![p] = q]
  <2> DEFINE row == [NoRow EXCEPT !.unidad = u, !.clave = k]
             q == [Idle EXCEPT !.op = "ORDER", !.km = km, !.row = row]
  <2>1. RowOK(row) /\ row.unidad = u
    BY <1>0 DEF RowOK, NoRow, VisitaRow
  <2>2. pet' = [pet EXCEPT ![p] = q] BY <1>2 DEF OrderRead, Begin
  <2> HIDE DEF row
  <2>3. /\ q \in Peticion
        /\ q.op = "ORDER" /\ q.row = row /\ q.piezas = {} /\ q.km = km
    BY <1>0, <2>1 DEF Idle, Peticion, RowOK
  <2> HIDE DEF q
  <2>4. PetOK(q) BY <1>0, <2>1, <2>3 DEF PetOK, OnVisit
  <2> QED BY <2>2, <2>4
<1>3. ASSUME NEW v \in Visitas, NEW km \in Kms \cup {NULL}, NEW tabla \in Tablas,
             NEW lineas \in Consumos \cup {{}}, UpdateRead(p, v, km, tabla, lineas)
      PROVE  \E q : PetOK(q) /\ pet' = [pet EXCEPT ![p] = q]
  <2> DEFINE op == IF km = NULL THEN "UPDATE_SAVE" ELSE "UPDATE_KM"
             q == [Idle EXCEPT !.op = op, !.visita = v, !.row = visita[v], !.km = km,
                               !.tabla = tabla, !.lineas = lineas]
  <2>1. /\ pet' = [pet EXCEPT ![p] = q] /\ visita[v].estado = "BORRADOR"
        /\ RowOK(visita[v])
    BY <1>3 DEF UpdateRead, Begin, TInv
  <2>2. /\ op \in {"UPDATE_SAVE", "UPDATE_KM"} /\ op \in Ops
        /\ op = "UPDATE_KM" => km \in Kms
    BY <1>0
  <2> HIDE DEF op
  <2>3. /\ q \in Peticion
        /\ q.op = op /\ q.row = visita[v] /\ q.piezas = {} /\ q.km = km /\ q.visita = v
    BY <1>0, <2>1, <2>2 DEF Idle, Peticion, RowOK
  <2> HIDE DEF q
  <2>4. PetOK(q) BY <1>0, <2>1, <2>2, <2>3 DEF PetOK
  <2> QED BY <2>1, <2>4
<1>4. ASSUME NEW v \in Visitas, RemoveRead(p, v)
      PROVE  \E q : PetOK(q) /\ pet' = [pet EXCEPT ![p] = q]
  <2> DEFINE q == [Idle EXCEPT !.op = "REMOVE_REQUISITOS", !.visita = v]
  <2>1. pet' = [pet EXCEPT ![p] = q] BY <1>4 DEF RemoveRead, Begin
  <2>2. /\ q \in Peticion
        /\ q.op = "REMOVE_REQUISITOS" /\ q.row = NoRow /\ q.piezas = {} /\ q.visita = v
    BY <1>0 DEF Idle, Peticion, RowOK
  <2> HIDE DEF q
  <2>3. PetOK(q) BY <1>0, <2>2 DEF PetOK
  <2> QED BY <2>1, <2>3
<1>5. ASSUME NEW v \in Visitas, CloseRead(p, v)
      PROVE  \E q : PetOK(q) /\ pet' = [pet EXCEPT ![p] = q]
  <2> DEFINE q == [Idle EXCEPT !.op = "CLOSE", !.visita = v, !.row = visita[v],
                               !.requisitos = requisitos[v], !.piezas = piezas[v],
                               !.activa = enServicio[visita[v].unidad]]
  <2>1. pet' = [pet EXCEPT ![p] = q] BY <1>5 DEF CloseRead, Begin
  <2>2. /\ RowOK(visita[v]) /\ IsFiniteSet(piezas[v]) /\ piezas[v] \in SUBSET Fila
        /\ requisitos[v] \in Peticiones \cup {Anterior, NULL}
    BY DEF TInv, TypeOK
  <2>3. enServicio[visita[v].unidad] \in BOOLEAN
    BY <1>5, <2>2 DEF CloseRead, Exists, RowOK, TInv, TypeOK
  <2>4. /\ q \in Peticion
        /\ q.op = "CLOSE" /\ q.row = visita[v] /\ q.piezas = piezas[v] /\ q.visita = v
    BY <1>0, <2>2, <2>3 DEF Idle, Peticion, RowOK
  <2> HIDE DEF q
  <2>5. PetOK(q) BY <1>0, <2>2, <2>4 DEF PetOK
  <2> QED BY <2>1, <2>5
<1>6. UNCHANGED <<visita, requisitos, piezas, closing, enServicio, modo>>
  BY DEF Start, CreateRead, OrderRead, UpdateRead, RemoveRead, CloseRead
<1>7. {} \in Consumos \cup {{}} /\ {"NADA", "REQUISITOS", "PIEZAS"} \subseteq Tablas
  BY DEF Tablas
<1> QED BY <1>1, <1>2, <1>3, <1>4, <1>5, <1>6, <1>7 DEF Start

LEMMA StepOK ==
  ASSUME TInv, NEW p \in Peticiones, Step(p)
  PROVE  \E q : PetOK(q) /\ pet' = [pet EXCEPT ![p] = q]
<1>0. PetOK(pet[p]) /\ PetOK(Done) /\ RowOK(NoRow) BY IdleOK, NoRowOK DEF TInv
<1>1. CASE Finish(p) BY <1>0, <1>1 DEF Finish
<1>2. ASSUME NEW op \in {"UPDATE_DELETE", "UPDATE_INSERT", "REMOVE_PIEZAS", "REMOVE_ROW"},
             Goto(p, op), pet[p].op \in OnVisit
      PROVE  \E q : PetOK(q) /\ pet' = [pet EXCEPT ![p] = q]
  <2> DEFINE q == [pet[p] EXCEPT !.op = op, !.row = NoRow]
  <2>1. pet' = [pet EXCEPT ![p] = q] BY <1>2 DEF Goto
  <2>2. pet[p] \in Peticion /\ pet[p].visita \in Visitas /\ IsFiniteSet(pet[p].piezas)
    BY <1>0, <1>2 DEF PetOK
  <2>3. /\ q \in Peticion
        /\ q.op = op /\ q.row = NoRow /\ q.piezas = pet[p].piezas /\ q.visita = pet[p].visita
    BY <1>0, <2>2 DEF Peticion, RowOK, Ops
  <2> HIDE DEF q
  <2>4. PetOK(q) BY <1>0, <2>2, <2>3 DEF PetOK
  <2> QED BY <2>1, <2>4
<1>3. ASSUME UpdateKm(p)
      PROVE  \E q : PetOK(q) /\ pet' = [pet EXCEPT ![p] = q]
  <2> DEFINE row == [pet[p].row EXCEPT !.km = pet[p].km]
             q == [pet[p] EXCEPT !.op = "UPDATE_SAVE", !.row.km = pet[p].km, !.km = NULL]
  <2>1. pet' = [pet EXCEPT ![p] = q] /\ pet[p].op = "UPDATE_KM" BY <1>3 DEF UpdateKm, At
  <2>2. /\ pet[p] \in Peticion /\ pet[p].visita \in Visitas /\ IsFiniteSet(pet[p].piezas)
        /\ RowOK(pet[p].row) /\ pet[p].row.estado = "BORRADOR" /\ pet[p].km \in Nat
    BY <1>0, <2>1, VisitasAssumption DEF PetOK, OnVisit
  <2>3. RowOK(row) /\ row.estado = "BORRADOR" BY <2>2 DEF RowOK, VisitaRow
  <2>4. /\ q \in Peticion
        /\ q.op = "UPDATE_SAVE" /\ q.row = row /\ q.piezas = pet[p].piezas
        /\ q.visita = pet[p].visita
    BY <2>2, <2>3 DEF Peticion, RowOK, Ops
  <2> HIDE DEF q, row
  <2>5. PetOK(q) BY <2>2, <2>3, <2>4 DEF PetOK
  <2> QED BY <2>1, <2>5
<1>4. CASE UpdateSave(p)
  BY <1>1, <1>2, <1>4 DEF UpdateSave, At, OnVisit
<1>5. CASE UpdateDelete(p)
  BY <1>2, <1>5 DEF UpdateDelete, At, OnVisit
<1>6. CASE RemoveRequisitos(p)
  BY <1>2, <1>6 DEF RemoveRequisitos, At, OnVisit
<1>7. CASE RemovePiezas(p)
  BY <1>2, <1>7 DEF RemovePiezas, At, OnVisit
<1>8. ASSUME NEW v \in Visitas, CreateInsert(p, v) \/ OrderInsert(p, v) PROVE Finish(p)
  BY <1>8 DEF CreateInsert, OrderInsert, Insert
<1>9. CASE UpdateInsert(p) \/ RemoveRow(p) \/ CloseCommit(p)
  BY <1>1, <1>9 DEF UpdateInsert, RemoveRow, CloseCommit
<1>10. CASE CreateExisting(p) \/ OrderRefused(p) \/ UpdateKmRefused(p) \/ UpdateSaveRefused(p)
            \/ UpdateInsertRefused(p) \/ CloseRefused(p)
  BY <1>1, <1>10 DEF CreateExisting, OrderRefused, UpdateKmRefused, UpdateSaveRefused,
                     UpdateInsertRefused, CloseRefused, Refuse
<1> QED BY <1>1, <1>3, <1>4, <1>5, <1>6, <1>7, <1>8, <1>9, <1>10 DEF Step

-----------------------------------------------------------------------------
(* What a step may do to the tables.  A row of visitas is written alone,   *)
(* and only a close gives a row the state CERRADO.                         *)
WritesRow ==
    \E v \in Visitas : \E row :
        /\ RowOK(row) /\ row.estado # "CERRADO"
        /\ visita' = [visita EXCEPT ![v] = row]
        /\ UNCHANGED closing

LEMMA RowStep ==
  ASSUME TInv, Next
  PROVE  \/ UNCHANGED <<visita, closing>>
         \/ WritesRow
         \/ \E p \in Peticiones : CloseCommit(p)
<1>0. \A v \in Visitas : RowOK(visita[v]) BY DEF TInv
<1>1. ASSUME NEW p \in Peticiones, Start(p) PROVE UNCHANGED <<visita, closing>>
  BY <1>1 DEF Start, CreateRead, OrderRead, UpdateRead, RemoveRead, CloseRead
<1>2. ASSUME NEW p \in Peticiones, NEW v \in Visitas,
             CreateInsert(p, v) \/ OrderInsert(p, v)
      PROVE  WritesRow
  <2>1. PICK legacy \in BOOLEAN, clave \in Claves \cup {NULL} : Insert(p, v, legacy, clave)
    <3>1. pet[p].row.clave \in Claves \cup {NULL} BY DEF TInv, PetOK, RowOK, VisitaRow
    <3> QED BY <1>2, <3>1 DEF CreateInsert, OrderInsert
  <2>2. pet[p].row.unidad \in Unidades /\ pet[p].km \in Kms
    BY <1>2 DEF CreateInsert, OrderInsert, At, TInv, PetOK
  <2> QED BY <2>1, <2>2, NewRowOK DEF Insert, WritesRow
<1>3. ASSUME NEW v \in Visitas, OpenMaintenance(v) PROVE WritesRow
  <2> DEFINE row == [visita[v] EXCEPT !.opened = TRUE, !.legacy = FALSE]
  <2>1. RowOK(row) /\ row.estado # "CERRADO"
    BY <1>0, <1>3 DEF OpenMaintenance, RowOK, VisitaRow
  <2> QED BY <1>3, <2>1 DEF OpenMaintenance, WritesRow
<1>4. ASSUME NEW p \in Peticiones, UpdateSave(p) PROVE WritesRow
  <2>1. /\ RowOK(pet[p].row) /\ pet[p].row.estado = "BORRADOR" /\ pet[p].visita \in Visitas
    BY <1>4 DEF UpdateSave, At, TInv, PetOK, OnVisit
  <2> QED BY <1>4, <2>1 DEF UpdateSave, WritesRow
<1>5. ASSUME NEW p \in Peticiones, RemoveRow(p) PROVE WritesRow
  <2> DEFINE row == [NoRow EXCEPT !.estado = "REMOVED"]
  <2>1. RowOK(row) /\ row.estado # "CERRADO"
    BY NoRowOK DEF RowOK, NoRow, VisitaRow
  <2>2. pet[p].visita \in Visitas BY <1>5 DEF RemoveRow, At, TInv, PetOK, OnVisit
  <2> QED BY <1>5, <2>1, <2>2 DEF RemoveRow, WritesRow
<1>6. ASSUME NEW p \in Peticiones,
             CreateExisting(p) \/ OrderRefused(p) \/ UpdateKm(p) \/ UpdateKmRefused(p)
             \/ UpdateSaveRefused(p) \/ UpdateDelete(p) \/ UpdateInsert(p)
             \/ UpdateInsertRefused(p) \/ RemoveRequisitos(p) \/ RemovePiezas(p)
             \/ CloseRefused(p)
      PROVE  UNCHANGED <<visita, closing>>
  BY <1>6 DEF CreateExisting, OrderRefused, UpdateKm, UpdateKmRefused, UpdateSaveRefused,
              UpdateDelete, UpdateInsert, UpdateInsertRefused, RemoveRequisitos,
              RemovePiezas, CloseRefused, Refuse
<1>7. ASSUME NEW u \in Unidades, CambiaServicio(u) PROVE UNCHANGED <<visita, closing>>
  BY <1>7 DEF CambiaServicio
<1>8. ASSUME NEW p \in Peticiones, Step(p)
      PROVE  \/ UNCHANGED <<visita, closing>> \/ WritesRow \/ CloseCommit(p)
  BY <1>2, <1>4, <1>5, <1>6, <1>8 DEF Step
<1> QED BY <1>1, <1>3, <1>7, <1>8 DEF Next

-----------------------------------------------------------------------------
(* The children of a visit and what a close makes of them.                 *)
LEMMA LineasOK ==
  ASSUME NEW lineas \in Consumos \cup {{}}
  PROVE  lineas \in SUBSET Linea /\ IsFiniteSet(lineas)
BY VisitasAssumption, FS_EmptySet

LEMMA SavedOK ==
  ASSUME NEW p \in Peticiones \cup {Anterior}, NEW lineas \in SUBSET Linea, IsFiniteSet(lineas)
  PROVE  SavedBy(p, lineas) \in SUBSET Fila /\ IsFiniteSet(SavedBy(p, lineas))
<1> DEFINE f == [l \in lineas |-> [by |-> p, linea |-> l]]
<1>1. f \in Surjection(lineas, SavedBy(p, lineas)) BY DEF SavedBy, Surjection
<1>2. IsFiniteSet(SavedBy(p, lineas)) BY <1>1, FS_Surjection
<1> QED BY <1>2 DEF SavedBy, Fila

LEMMA ConsumoOK ==
  ASSUME TInv, NEW p \in Peticiones
  PROVE  Consumo(p) \in SUBSET Linea /\ IsFiniteSet(Consumo(p))
<1> DEFINE filas == pet[p].piezas
           f == [x \in filas |-> x.linea]
<1>1. filas \in SUBSET Fila /\ IsFiniteSet(filas) BY DEF TInv, PetOK, Peticion
<1>2. f \in Surjection(filas, Consumo(p)) BY DEF Consumo, Surjection
<1>3. IsFiniteSet(Consumo(p)) BY <1>1, <1>2, FS_Surjection
<1> QED BY <1>1, <1>3 DEF Consumo, Fila

LEMMA ChildrenStep ==
  ASSUME TInv, Next
  PROVE  /\ requisitos' \in [Visitas -> Peticiones \cup {Anterior, NULL}]
         /\ piezas' \in [Visitas -> SUBSET Fila]
         /\ \A v \in Visitas : IsFiniteSet(piezas'[v])
<1> DEFINE Good == /\ requisitos' \in [Visitas -> Peticiones \cup {Anterior, NULL}]
                   /\ piezas' \in [Visitas -> SUBSET Fila]
                   /\ \A v \in Visitas : IsFiniteSet(piezas'[v])
<1>0. /\ requisitos \in [Visitas -> Peticiones \cup {Anterior, NULL}]
      /\ piezas \in [Visitas -> SUBSET Fila]
      /\ \A v \in Visitas : IsFiniteSet(piezas[v])
      /\ IsFiniteSet({})
  BY FS_EmptySet DEF TInv, TypeOK
<1>1. CASE UNCHANGED <<requisitos, piezas>> BY <1>0, <1>1
<1>2. ASSUME NEW p \in Peticiones, UpdateDelete(p) \/ RemoveRequisitos(p) \/ RemovePiezas(p)
                                  \/ RemoveRow(p)
      PROVE  Good
  BY <1>0, <1>2 DEF UpdateDelete, RemoveRequisitos, RemovePiezas, RemoveRow
<1>3. ASSUME NEW p \in Peticiones, UpdateInsert(p) PROVE Good
  <2> DEFINE v == pet[p].visita
             filas == SavedBy(p, pet[p].lineas)
  <2>1. pet[p].lineas \in Consumos \cup {{}}
    BY DEF TInv, PetOK, Peticion
  <2>2. filas \in SUBSET Fila /\ IsFiniteSet(filas) BY <2>1, LineasOK, SavedOK
  <2>3. v \in Visitas BY <1>3 DEF UpdateInsert, At, TInv, PetOK, OnVisit
  <2>4. piezas[v] \cup filas \in SUBSET Fila /\ IsFiniteSet(piezas[v] \cup filas)
    BY <1>0, <2>2, <2>3, FS_Union
  <2>5. CASE pet[p].tabla = "REQUISITOS" BY <1>0, <1>3, <2>3, <2>5 DEF UpdateInsert
  <2>6. CASE pet[p].tabla # "REQUISITOS"
    <3>1. piezas' = [piezas EXCEPT ![v] = piezas[v] \cup filas] /\ requisitos' = requisitos
      BY <1>3, <2>6 DEF UpdateInsert
    <3> HIDE DEF filas, v
    <3> QED BY <1>0, <2>3, <2>4, <3>1
  <2> QED BY <2>5, <2>6
<1>4. ASSUME NEW p \in Peticiones, CloseCommit(p) PROVE Good
  <2>1. /\ pet[p].visita \in Visitas /\ pet[p].piezas \in SUBSET Fila
        /\ IsFiniteSet(pet[p].piezas)
        /\ pet[p].requisitos \in Peticiones \cup {Anterior, NULL}
    BY <1>4 DEF CloseCommit, At, TInv, PetOK, OnVisit, Peticion
  <2> QED BY <1>0, <1>4, <2>1 DEF CloseCommit
<1>5. ASSUME NEW p \in Peticiones, Start(p) PROVE UNCHANGED <<requisitos, piezas>>
  BY <1>5 DEF Start, CreateRead, OrderRead, UpdateRead, RemoveRead, CloseRead
<1>6. ASSUME NEW p \in Peticiones,
             \/ \E v \in Visitas : CreateInsert(p, v) \/ OrderInsert(p, v)
             \/ CreateExisting(p) \/ OrderRefused(p) \/ UpdateKm(p) \/ UpdateKmRefused(p)
             \/ UpdateSave(p) \/ UpdateSaveRefused(p) \/ UpdateInsertRefused(p)
             \/ CloseRefused(p)
      PROVE  UNCHANGED <<requisitos, piezas>>
  BY <1>6 DEF CreateInsert, OrderInsert, Insert, CreateExisting, OrderRefused, UpdateKm,
              UpdateKmRefused, UpdateSave, UpdateSaveRefused, UpdateInsertRefused,
              CloseRefused, Refuse
<1>7. ASSUME NEW p \in Peticiones, Step(p) PROVE Good
  BY <1>1, <1>2, <1>3, <1>4, <1>6, <1>7 DEF Step
<1>8. CASE \E v \in Visitas : OpenMaintenance(v) BY <1>1, <1>8 DEF OpenMaintenance
<1>9. CASE \E u \in Unidades : CambiaServicio(u) BY <1>1, <1>9 DEF CambiaServicio
<1> QED BY <1>1, <1>5, <1>7, <1>8, <1>9 DEF Next

LEMMA QtyNat ==
  ASSUME NEW lineas \in SUBSET Linea, IsFiniteSet(lineas), NEW i
  PROVE  Qty(lineas, i) \in Nat
<1> DEFINE S == {x \in lineas : x.item = i /\ x.origen = "DESDE_STOCK"}
           f == [l \in S |-> l.qty]
<1>1. IsFiniteSet(S) BY FS_Subset
<1>2. \A l \in S : f[l] \in Nat BY DEF Linea
<1>3. DOMAIN f = S OBVIOUS
<1>4. Qty(lineas, i) = SumFunctionOnSet(f, S) BY <1>3 DEF Qty, SumFunction
<1> HIDE DEF f, S
<1> QED BY <1>1, <1>2, <1>4, SumNat

(* A close that commits: one row becomes CERRADO, dated after every other, *)
(* with kilometres that are not below the last; and the pieces leave the   *)
(* stock, all of them, or none because they had left it before.            *)
LEMMA CloseStep ==
  ASSUME TInv, NEW p \in Peticiones, CloseCommit(p)
  PROVE  LET v == pet[p].visita
             row == Closed(pet[p].row)
         IN  /\ v \in Visitas /\ pet[p].row.estado = "BORRADOR"
             /\ RowOK(row) /\ row.estado = "CERRADO" /\ row.cerradoAt = reloj + 1
             /\ row.km = pet[p].row.km /\ row.unidad = pet[p].row.unidad
             /\ row.km >= UltimoKm(row.unidad)
             /\ visita' = [visita EXCEPT ![v] = row]
             /\ reloj' = reloj + 1
             /\ outbox' = [outbox EXCEPT ![v] = @ + 1]
             /\ \/ YaCosted(v) /\ UNCHANGED <<stock, aplicados>>
                \/ /\ ~YaCosted(v)
                   /\ \A i \in Items : Qty(Consumo(p), i) <= stock[i]
                   /\ stock' = [i \in Items |-> stock[i] - Qty(Consumo(p), i)]
                   /\ aplicados' = [aplicados EXCEPT ![v] = Append(@, Consumo(p))]
<1> DEFINE v == pet[p].visita
           row == Closed(pet[p].row)
<1>1. /\ v \in Visitas /\ pet[p].row.estado = "BORRADOR" /\ RowOK(pet[p].row)
      /\ pet[p].row.km >= UltimoKm(pet[p].row.unidad)
      /\ reloj \in Nat
  BY DEF CloseCommit, At, TInv, TypeOK, PetOK, OnVisit, Closes, Cerrable, KmValido
<1>2. /\ row \in VisitaRow /\ row.estado = "CERRADO" /\ row.cerradoAt = reloj + 1
      /\ row.km = pet[p].row.km /\ row.unidad = pet[p].row.unidad /\ row.legacy = FALSE
  <2> DEFINE old == pet[p].row
  <2>1. old \in VisitaRow BY <1>1 DEF RowOK
  <2>2. row = [old EXCEPT !.estado = "CERRADO", !.legacy = FALSE, !.cerradoAt = reloj + 1]
    BY DEF Closed
  <2> HIDE DEF old, row
  <2>3. row \in VisitaRow
    <3>1. reloj + 1 \in Nat BY <1>1
    <3> QED BY <2>1, <2>2, <3>1 DEF VisitaRow
  <2>4. /\ row.estado = "CERRADO" /\ row.cerradoAt = reloj + 1
        /\ row.km = old.km /\ row.unidad = old.unidad /\ row.legacy = FALSE
    BY <2>1, <2>2 DEF VisitaRow
  <2> QED BY <2>3, <2>4 DEF old
<1>3. RowOK(row)
  <2> HIDE DEF row
  <2> QED BY <1>1, <1>2 DEF RowOK
<1>4. /\ visita' = [visita EXCEPT ![v] = row]
      /\ reloj' = reloj + 1
      /\ outbox' = [outbox EXCEPT ![v] = @ + 1]
  BY DEF CloseCommit
<1>5. YaCosted(v) => UNCHANGED <<stock, aplicados>> BY DEF CloseCommit
<1>6. ~YaCosted(v) =>
         /\ \A i \in Items : Qty(Consumo(p), i) <= stock[i]
         /\ stock' = [i \in Items |-> stock[i] - Qty(Consumo(p), i)]
         /\ aplicados' = [aplicados EXCEPT ![v] = Append(@, Consumo(p))]
  BY DEF CloseCommit, Closes, Alcanza
<1> HIDE DEF v, row
<1> QED BY <1>1, <1>2, <1>3, <1>4, <1>5, <1>6 DEF v, row

LEMMA TypeInit == Init => TInv
<1> SUFFICES ASSUME Init PROVE TInv OBVIOUS
<1>1. PICK u \in Unidades, km \in [Preparadas -> Kms] :
        /\ visita = [v \in Visitas |-> IF v \in Preparadas
                        THEN NewRow(u, km[v], v \in EnSlot, NULL) ELSE NoRow]
        /\ piezas = [v \in Visitas |-> IF v \in Preparadas
                        THEN SavedBy(Anterior, Capturadas[v]) ELSE {}]
  BY DEF Init
<1>2. ASSUME NEW v \in Visitas PROVE RowOK(visita[v]) /\ visita[v] \in VisitaRow
  <2>1. CASE v \in Preparadas
    <3>1. km[v] \in Kms /\ (v \in EnSlot) \in BOOLEAN BY <2>1
    <3>2. visita[v] = NewRow(u, km[v], v \in EnSlot, NULL) BY <1>1, <2>1
    <3>3. RowOK(NewRow(u, km[v], v \in EnSlot, NULL)) BY <3>1, NewRowOK
    <3> QED BY <3>2, <3>3 DEF RowOK
  <2>2. CASE v \notin Preparadas BY <1>1, <2>2, NoRowOK DEF RowOK
  <2> QED BY <2>1, <2>2
<1>3. ASSUME NEW v \in Visitas PROVE piezas[v] \in SUBSET Fila /\ IsFiniteSet(piezas[v])
  <2>1. CASE v \in Preparadas
    <3>1. Capturadas[v] \in SUBSET Linea /\ IsFiniteSet(Capturadas[v])
      BY <2>1, VisitasAssumption
    <3> QED BY <1>1, <2>1, <3>1, SavedOK
  <2>2. CASE v \notin Preparadas BY <1>1, <2>2, FS_EmptySet
  <2> QED BY <2>1, <2>2
<1>4. visita \in [Visitas -> VisitaRow] /\ piezas \in [Visitas -> SUBSET Fila]
  BY <1>1, <1>2, <1>3
<1>5. PetOK(Idle) /\ Idle \in Peticion BY IdleOK DEF PetOK
<1>6. pet \in [Peticiones -> Peticion] /\ \A p \in Peticiones : PetOK(pet[p])
  BY <1>5 DEF Init
<1>7. requisitos \in [Visitas -> Peticiones \cup {Anterior, NULL}] BY DEF Init
<1>8. /\ outbox \in [Visitas -> Nat] /\ stock \in [Items -> Nat] /\ reloj \in Nat
      /\ aplicados \in [Visitas -> Seq(SUBSET Linea)]
      /\ enServicio \in [Unidades -> BOOLEAN]
  BY VisitasAssumption DEF Init
<1>9. \A v \in Visitas : /\ visita[v].legacy => visita[v].estado = "BORRADOR"
                         /\ visita[v].cerradoAt > 0 <=> visita[v].estado = "CERRADO"
  BY <1>2 DEF RowOK
<1> QED BY <1>2, <1>3, <1>4, <1>6, <1>7, <1>8, <1>9 DEF TInv, TypeOK

LEMMA TypeStep == TInv /\ [Next]_vars => TInv'
<1> SUFFICES ASSUME TInv, [Next]_vars PROVE TInv' OBVIOUS
<1>1. CASE UNCHANGED vars BY <1>1 DEF TInv, TypeOK, vars, closing
<1>2. CASE Next
  <2>1. /\ pet' \in [Peticiones -> Peticion] /\ \A p \in Peticiones : PetOK(pet'[p])
    <3>1. ASSUME NEW p \in Peticiones, Start(p) \/ Step(p)
          PROVE  \E q : PetOK(q) /\ pet' = [pet EXCEPT ![p] = q]
      BY <3>1, StartOK, StepOK
    <3>2. CASE UNCHANGED pet BY <3>2 DEF TInv, TypeOK
    <3>3. ASSUME NEW p \in Peticiones, NEW q, PetOK(q), pet' = [pet EXCEPT ![p] = q]
          PROVE  pet' \in [Peticiones -> Peticion] /\ \A x \in Peticiones : PetOK(pet'[x])
      BY <3>3, PetStep
    <3> QED BY <1>2, <3>1, <3>2, <3>3 DEF Next, OpenMaintenance, CambiaServicio
  <2>2. enServicio' \in [Unidades -> BOOLEAN]
    <3>1. enServicio \in [Unidades -> BOOLEAN] BY DEF TInv, TypeOK
    <3>2. ASSUME NEW p \in Peticiones, Start(p) PROVE UNCHANGED enServicio
      BY <3>2, StartOK
    <3>3. ASSUME NEW p \in Peticiones, Step(p) PROVE UNCHANGED enServicio
      BY <3>3 DEF Step, CreateInsert, OrderInsert, Insert, CreateExisting, OrderRefused,
         UpdateKm, UpdateKmRefused, UpdateSave, UpdateSaveRefused, UpdateDelete,
         UpdateInsert, UpdateInsertRefused, RemoveRequisitos, RemovePiezas, RemoveRow,
         CloseCommit, CloseRefused, Refuse
    <3> QED BY <1>2, <3>1, <3>2, <3>3 DEF Next, OpenMaintenance, CambiaServicio
  <2>3. /\ requisitos' \in [Visitas -> Peticiones \cup {Anterior, NULL}]
        /\ piezas' \in [Visitas -> SUBSET Fila]
        /\ \A v \in Visitas : IsFiniteSet(piezas'[v])
    BY <1>2, ChildrenStep
  <2>4. /\ visita \in [Visitas -> VisitaRow] /\ \A v \in Visitas : RowOK(visita[v])
        /\ outbox \in [Visitas -> Nat] /\ stock \in [Items -> Nat] /\ reloj \in Nat
        /\ aplicados \in [Visitas -> Seq(SUBSET Linea)]
    BY DEF TInv, TypeOK
  <2>5. /\ visita' \in [Visitas -> VisitaRow] /\ \A v \in Visitas : RowOK(visita'[v])
    <3>1. ASSUME NEW v \in Visitas, NEW row, RowOK(row), visita' = [visita EXCEPT ![v] = row]
          PROVE  /\ visita' \in [Visitas -> VisitaRow]
                 /\ \A w \in Visitas : RowOK(visita'[w])
      <4>1. row \in VisitaRow BY <3>1 DEF RowOK
      <4>2. \A w \in Visitas : visita'[w] = IF w = v THEN row ELSE visita[w]
        BY <2>4, <3>1
      <4> QED BY <2>4, <3>1, <4>1, <4>2
    <3>2. CASE UNCHANGED visita BY <2>4, <3>2
    <3>3. CASE WritesRow BY <3>1, <3>3 DEF WritesRow
    <3>4. ASSUME NEW p \in Peticiones, CloseCommit(p)
          PROVE  \E v \in Visitas : \E row :
                    RowOK(row) /\ visita' = [visita EXCEPT ![v] = row]
      BY <3>4, CloseStep
    <3> QED BY <1>2, <3>1, <3>2, <3>3, <3>4, RowStep
  <2>6. /\ outbox' \in [Visitas -> Nat] /\ stock' \in [Items -> Nat] /\ reloj' \in Nat
        /\ aplicados' \in [Visitas -> Seq(SUBSET Linea)]
    <3>1. CASE UNCHANGED closing BY <2>4, <3>1 DEF closing
    <3>2. ASSUME NEW p \in Peticiones, CloseCommit(p)
          PROVE  /\ outbox' \in [Visitas -> Nat] /\ stock' \in [Items -> Nat]
                 /\ reloj' \in Nat /\ aplicados' \in [Visitas -> Seq(SUBSET Linea)]
      <4> DEFINE v == pet[p].visita
      <4>1. v \in Visitas /\ reloj' = reloj + 1 /\ outbox' = [outbox EXCEPT ![v] = @ + 1]
        BY <3>2, CloseStep
      <4>2. Consumo(p) \in SUBSET Linea /\ IsFiniteSet(Consumo(p)) BY ConsumoOK
      <4>3. \A i \in Items : Qty(Consumo(p), i) \in Nat BY <4>2, QtyNat
      <4>4. \/ UNCHANGED <<stock, aplicados>>
            \/ /\ \A i \in Items : Qty(Consumo(p), i) <= stock[i]
               /\ stock' = [i \in Items |-> stock[i] - Qty(Consumo(p), i)]
               /\ aplicados' = [aplicados EXCEPT ![v] = Append(@, Consumo(p))]
        BY <3>2, CloseStep
      <4>5. Append(aplicados[v], Consumo(p)) \in Seq(SUBSET Linea) BY <2>4, <4>1, <4>2
      <4> HIDE DEF v
      <4>6. stock' \in [Items -> Nat] BY <2>4, <4>3, <4>4
      <4>7. aplicados' \in [Visitas -> Seq(SUBSET Linea)]
        BY <2>4, <4>1, <4>4, <4>5
      <4>8. outbox' \in [Visitas -> Nat] BY <2>4, <4>1
      <4>9. reloj' \in Nat BY <2>4, <4>1
      <4> QED BY <4>6, <4>7, <4>8, <4>9
    <3> QED BY <1>2, <3>1, <3>2, RowStep DEF WritesRow
  <2>7. \A v \in Visitas : /\ visita'[v].legacy => visita'[v].estado = "BORRADOR"
                           /\ visita'[v].cerradoAt > 0 <=> visita'[v].estado = "CERRADO"
    BY <2>5 DEF RowOK
  <2> QED BY <2>1, <2>2, <2>3, <2>5, <2>6, <2>7 DEF TInv, TypeOK
<1> QED BY <1>1, <1>2

(* Every reachable row, request and event has the type its column has; the *)
(* legacy mirror and the date of the close follow the state of the visit.  *)
THEOREM TypeCorrect == Spec => []TypeOK
<1>1. TInv => TypeOK BY DEF TInv
<1> QED BY <1>1, TypeInit, TypeStep, PTL DEF Spec

-----------------------------------------------------------------------------
(* Kilometres.  The closed visits have dates of their own, none after the  *)
(* last, so the last close of a unit is the one UltimoKm reads.            *)
KmInv ==
    /\ KmMonotone
    /\ \A v \in Visitas : visita[v].estado = "CERRADO" => visita[v].cerradoAt <= reloj
    /\ \A v, w \in Visitas :
         /\ visita[v].estado = "CERRADO" /\ visita[w].estado = "CERRADO"
         /\ visita[v].cerradoAt = visita[w].cerradoAt
         => v = w

LEMMA UltimoKmBounds ==
  ASSUME TInv, KmInv, NEW u, NEW w \in Cerradas(u)
  PROVE  visita[w].km <= UltimoKm(u) /\ UltimoKm(u) \in Nat
<1> DEFINE C == Cerradas(u)
           last == CHOOSE v \in C : \A x \in C : visita[x].cerradoAt <= visita[v].cerradoAt
           Ages == {reloj - visita[v].cerradoAt : v \in C}
<1>1. \A v \in C : /\ v \in Visitas /\ visita[v].estado = "CERRADO" /\ visita[v].unidad = u
                   /\ visita[v].cerradoAt \in Nat /\ visita[v].km \in Nat
                   /\ visita[v].cerradoAt <= reloj
  BY DEF Cerradas, TInv, RowOK, VisitaRow, KmInv
<1>2. reloj \in Nat BY DEF TInv, TypeOK
<1>3. \E v \in C : \A x \in C : visita[x].cerradoAt <= visita[v].cerradoAt
  <2>1. \A v \in C : reloj - visita[v].cerradoAt \in Nat BY <1>1, <1>2
  <2>2. Ages \subseteq Nat /\ Ages # {} BY <2>1
  <2>3. PICK a \in Ages : \A b \in Ages : a <= b
    <3> HIDE DEF Ages
    <3> QED BY <2>2, Least
  <2>4. PICK v \in C : a = reloj - visita[v].cerradoAt OBVIOUS
  <2>5. \A x \in C : reloj - visita[v].cerradoAt <= reloj - visita[x].cerradoAt
    BY <2>3, <2>4
  <2> QED BY <1>1, <1>2, <2>5
<1>4. last \in C /\ visita[w].cerradoAt <= visita[last].cerradoAt BY <1>3
<1>5. UltimoKm(u) = visita[last].km /\ visita[last].km \in Nat
  <2>1. UltimoKm(u) = visita[last].km BY DEF UltimoKm
  <2> HIDE DEF last
  <2> QED BY <1>1, <1>4, <2>1
<1> HIDE DEF C, last
<1>6. w \in C BY DEF C
<1>7. CASE visita[w].cerradoAt = visita[last].cerradoAt
  <2>1. w = last BY <1>1, <1>4, <1>6, <1>7 DEF KmInv
  <2> QED BY <1>1, <1>5, <1>6, <2>1
<1>8. CASE visita[w].cerradoAt < visita[last].cerradoAt
  BY <1>1, <1>4, <1>5, <1>6, <1>8 DEF KmInv, KmMonotone
<1> QED BY <1>1, <1>4, <1>6, <1>7, <1>8

(* No visit is closed at the beginning.                                    *)
LEMMA InitOpen == Init => \A v \in Visitas : visita[v].estado # "CERRADO"
<1> SUFFICES ASSUME Init, NEW v \in Visitas PROVE visita[v].estado # "CERRADO" OBVIOUS
<1>1. PICK u \in Unidades, km \in [Preparadas -> Kms] :
        visita = [x \in Visitas |-> IF x \in Preparadas
                     THEN NewRow(u, km[x], x \in EnSlot, NULL) ELSE NoRow]
  BY DEF Init
<1>2. CASE v \in Preparadas
  <2>1. visita[v] = NewRow(u, km[v], v \in EnSlot, NULL) BY <1>1, <1>2
  <2>2. km[v] \in Kms /\ (v \in EnSlot) \in BOOLEAN BY <1>2
  <2> QED BY <2>1, <2>2, NewRowOK
<1>3. CASE v \notin Preparadas BY <1>1, <1>3 DEF NoRow
<1> QED BY <1>2, <1>3

LEMMA KmInit == Init => KmInv
BY InitOpen DEF KmInv, KmMonotone

LEMMA KmStep == TInv /\ KmInv /\ [Next]_vars => KmInv'
<1> SUFFICES ASSUME TInv, KmInv, [Next]_vars PROVE KmInv' OBVIOUS
<1>0. /\ visita \in [Visitas -> VisitaRow] /\ reloj \in Nat
      /\ \A v \in Visitas : visita[v].cerradoAt \in Nat /\ visita[v].km \in Nat
  BY DEF TInv, TypeOK, VisitaRow
<1>1. CASE UNCHANGED <<visita, closing>>
  BY <1>1 DEF KmInv, KmMonotone, closing
<1>2. CASE WritesRow
  <2>0. PICK v \in Visitas :
          \E row : row.estado # "CERRADO" /\ visita' = [visita EXCEPT ![v] = row]
    BY <1>2 DEF WritesRow
  <2>1. PICK row : /\ row.estado # "CERRADO"
                   /\ visita' = [visita EXCEPT ![v] = row]
                   /\ reloj' = reloj
    BY <1>2, <2>0 DEF WritesRow, closing
  <2>2. visita'[v].estado # "CERRADO" /\ \A w \in Visitas : w # v => visita'[w] = visita[w]
    BY <1>0, <2>1
  <2> QED BY <2>1, <2>2 DEF KmInv, KmMonotone
<1>3. ASSUME NEW p \in Peticiones, CloseCommit(p) PROVE KmInv'
  <2> DEFINE v == pet[p].visita
             row == Closed(pet[p].row)
  <2>1. /\ v \in Visitas /\ row.cerradoAt = reloj + 1 /\ row.km >= UltimoKm(row.unidad)
        /\ RowOK(row)
        /\ visita' = [visita EXCEPT ![v] = row] /\ reloj' = reloj + 1
    BY <1>3, CloseStep
  <2> HIDE DEF v, row
  <2>2. visita'[v] = row /\ \A w \in Visitas : w # v => visita'[w] = visita[w]
    BY <1>0, <2>1
  <2>3. row.km \in Nat BY <2>1 DEF RowOK, VisitaRow
  <2>4. ASSUME NEW w \in Visitas, w # v, visita[w].estado = "CERRADO"
        PROVE  /\ visita[w].cerradoAt < row.cerradoAt
               /\ visita[w].unidad = row.unidad => visita[w].km <= row.km
    <3>1. visita[w].cerradoAt <= reloj BY <2>4 DEF KmInv
    <3>2. ASSUME visita[w].unidad = row.unidad PROVE visita[w].km <= row.km
      <4>1. w \in Cerradas(row.unidad) BY <2>4, <3>2 DEF Cerradas
      <4>2. visita[w].km <= UltimoKm(row.unidad) /\ UltimoKm(row.unidad) \in Nat
        BY <4>1, UltimoKmBounds
      <4> QED BY <1>0, <2>1, <2>3, <4>2
    <3> QED BY <1>0, <2>1, <3>1, <3>2
  <2>5. KmMonotone'
    <3>1. ASSUME NEW x \in Visitas, NEW w \in Visitas,
                 visita'[x].estado = "CERRADO", visita'[w].estado = "CERRADO",
                 visita'[x].unidad = visita'[w].unidad,
                 visita'[x].cerradoAt < visita'[w].cerradoAt
          PROVE  visita'[x].km <= visita'[w].km
      <4>1. CASE x = v /\ w = v BY <2>2, <2>3, <4>1
      <4>2. CASE x # v /\ w = v BY <2>2, <2>4, <3>1, <4>2
      <4>3. CASE x = v /\ w # v
        <5>1. visita[w].cerradoAt < row.cerradoAt BY <2>2, <2>4, <3>1, <4>3
        <5>2. row.cerradoAt < visita[w].cerradoAt BY <2>2, <3>1, <4>3
        <5> QED BY <1>0, <2>1, <5>1, <5>2
      <4>4. CASE x # v /\ w # v BY <2>2, <3>1, <4>4 DEF KmInv, KmMonotone
      <4> QED BY <4>1, <4>2, <4>3, <4>4
    <3> QED BY <3>1 DEF KmMonotone
  <2>6. \A w \in Visitas : visita'[w].estado = "CERRADO" => visita'[w].cerradoAt <= reloj'
    BY <1>0, <2>1, <2>2 DEF KmInv
  <2>7. \A x, w \in Visitas :
          /\ visita'[x].estado = "CERRADO" /\ visita'[w].estado = "CERRADO"
          /\ visita'[x].cerradoAt = visita'[w].cerradoAt
          => x = w
    <3>1. ASSUME NEW w \in Visitas, w # v, visita'[w].estado = "CERRADO"
          PROVE  visita'[w].cerradoAt < visita'[v].cerradoAt /\ visita[w].estado = "CERRADO"
      BY <2>2, <2>4, <3>1
    <3> QED BY <1>0, <2>1, <2>2, <3>1 DEF KmInv
  <2> QED BY <2>5, <2>6, <2>7 DEF KmInv
<1> QED BY <1>1, <1>2, <1>3, RowStep DEF vars

(* The odometer of a unit does not go back from a close to a later one,    *)
(* because each close judges its km against the last one under the lock.   *)
THEOREM KmNeverGoesBack == Spec => []KmMonotone
<1>1. KmInv => KmMonotone BY DEF KmInv
<1> QED BY <1>1, TypeInit, TypeStep, KmInit, KmStep, PTL DEF Spec

-----------------------------------------------------------------------------
(* Pieces are consumed once.                                               *)
Applied(s) == {k \in DOMAIN s : s[k] # {}}

LEMMA ModeStep == [Next]_vars => UNCHANGED modo
BY ZenonT(60) DEF vars, Next, Start, CreateRead, OrderRead, UpdateRead, RemoveRead, CloseRead, Step,
       CreateInsert, OrderInsert, Insert, CreateExisting, OrderRefused, UpdateKm,
       UpdateKmRefused, UpdateSave, UpdateSaveRefused, UpdateDelete, UpdateInsert,
       UpdateInsertRefused, RemoveRequisitos, RemovePiezas, RemoveRow, CloseCommit,
       CloseRefused, Refuse, OpenMaintenance, CambiaServicio

LEMMA OnceInit == Init => ConsumedOnce
<1> SUFFICES ASSUME Init PROVE ConsumedOnce OBVIOUS
<1>1. ASSUME NEW v \in Visitas PROVE Applied(aplicados[v]) = {}
  BY DEF Init, Applied
<1> QED BY <1>1, FS_EmptySet DEF ConsumedOnce, Applied

LEMMA OnceStep == TInv /\ ConsumedOnce /\ [Next]_vars => ConsumedOnce'
<1> SUFFICES ASSUME TInv, ConsumedOnce, [Next]_vars PROVE ConsumedOnce' OBVIOUS
<1>0. UNCHANGED modo BY ModeStep
<1>1. CASE UNCHANGED closing BY <1>0, <1>1 DEF ConsumedOnce, closing
<1>2. ASSUME NEW p \in Peticiones, CloseCommit(p) PROVE ConsumedOnce'
  <2> DEFINE v == pet[p].visita
             s == aplicados[v]
             lineas == Consumo(p)
  <2>1. v \in Visitas /\ aplicados \in [Visitas -> Seq(SUBSET Linea)]
    BY <1>2, CloseStep DEF TInv, TypeOK
  <2>2. s \in Seq(SUBSET Linea) /\ lineas \in SUBSET Linea BY <2>1, ConsumoOK
  <2>3. \/ UNCHANGED aplicados
        \/ ~YaCosted(v) /\ aplicados' = [aplicados EXCEPT ![v] = Append(@, lineas)]
    BY <1>2, CloseStep
  <2>4. CASE UNCHANGED aplicados BY <1>0, <2>4 DEF ConsumedOnce
  <2>5. ASSUME ~YaCosted(v), modo.costos, NEW w \in Visitas,
               aplicados' = [aplicados EXCEPT ![v] = Append(@, lineas)]
        PROVE  Cardinality(Applied(aplicados'[w])) <= 1
    <3>1. CASE w # v
      <4>1. aplicados'[w] = aplicados[w] BY <2>1, <2>5, <3>1
      <4> QED BY <2>5, <4>1 DEF ConsumedOnce, Applied
    <3>2. CASE w = v
      <4>1. aplicados'[w] = Append(s, lineas) BY <2>1, <2>5, <3>2
      <4>2. \A k \in DOMAIN s : s[k] = {} BY <2>5 DEF YaCosted
      <4>3. Applied(Append(s, lineas)) \subseteq {Len(s) + 1}
        <5> HIDE DEF s, lineas
        <5>1. \A k \in DOMAIN Append(s, lineas) :
                \/ k \in DOMAIN s /\ Append(s, lineas)[k] = s[k]
                \/ k = Len(s) + 1
          BY <2>2
        <5> QED BY <4>2, <5>1 DEF Applied
      <4>4. IsFiniteSet({Len(s) + 1}) /\ Cardinality({Len(s) + 1}) = 1 BY FS_Singleton
      <4>5. Cardinality(Applied(Append(s, lineas))) <= 1 BY <4>3, <4>4, FS_Subset
      <4> QED BY <4>1, <4>5
    <3> QED BY <3>1, <3>2
  <2>6. CASE ~modo.costos BY <1>0, <2>6 DEF ConsumedOnce
  <2> QED BY <1>0, <2>3, <2>4, <2>5, <2>6 DEF ConsumedOnce, Applied
<1> QED BY <1>1, <1>2, RowStep DEF WritesRow, vars, closing

(* With the cost ledger on, whatever closes a visit a second time finds    *)
(* its first consumption and takes nothing more.                           *)
THEOREM VisitConsumesOnce == Spec => []ConsumedOnce
BY TypeInit, TypeStep, OnceInit, OnceStep, PTL DEF Spec

-----------------------------------------------------------------------------
(* Requests that take turns: at most one is being served, and what it read *)
(* of its visit still holds when it writes.                                *)
Captures == {"UPDATE_KM", "UPDATE_SAVE", "UPDATE_DELETE", "UPDATE_INSERT",
             "REMOVE_REQUISITOS", "REMOVE_PIEZAS", "REMOVE_ROW"}

SeesVisit(q) ==
    LET v == q.visita IN
    /\ q.op \in Captures => visita[v].estado = "BORRADOR"
    /\ q.op = "CLOSE" => /\ q.row.estado = visita[v].estado
                         /\ q.piezas = piezas[v] /\ q.requisitos = requisitos[v]

Resting(p) == pet[p] \in {Idle, Done}

TurnInv ==
    ~modo.solapan =>
        /\ \A p, q \in Peticiones : Resting(p) \/ Resting(q) \/ p = q
        /\ \A p \in Peticiones : SeesVisit(pet[p])
        /\ \A v \in Visitas : visita[v].estado # "CERRADO" => aplicados[v] = << >>
        /\ ConsumedAsShown

(* A request that begins has seen its visit as it is.                      *)
LEMMA StartSees ==
  ASSUME TInv, NEW p \in Peticiones, Start(p)
  PROVE  SeesVisit(pet'[p]) /\ Turn /\ \A q \in Peticiones : q # p => pet'[q] = pet[q]
<1>0. pet \in [Peticiones -> Peticion] BY DEF TInv, TypeOK
<1>1. ASSUME NEW q, Begin(p, q)
      PROVE  pet'[p] = q /\ Turn /\ \A x \in Peticiones : x # p => pet'[x] = pet[x]
  BY <1>0, <1>1 DEF Begin
<1>2. ASSUME NEW u \in Unidades, NEW km \in Kms, CreateRead(p, u, km)
      PROVE  SeesVisit(pet'[p]) /\ Turn /\ \A q \in Peticiones : q # p => pet'[q] = pet[q]
  <2> DEFINE q == [Idle EXCEPT !.op = "CREATE", !.km = km, !.row = [NoRow EXCEPT !.unidad = u]]
  <2>1. Begin(p, q) BY <1>2 DEF CreateRead
  <2>2. q.op = "CREATE" BY DEF Idle
  <2> HIDE DEF q
  <2> QED BY <1>1, <2>1, <2>2 DEF SeesVisit, Captures
<1>3. ASSUME NEW u \in Unidades, NEW km \in Kms, NEW k \in Claves, OrderRead(p, u, km, k)
      PROVE  SeesVisit(pet'[p]) /\ Turn /\ \A q \in Peticiones : q # p => pet'[q] = pet[q]
  <2> DEFINE q == [Idle EXCEPT !.op = "ORDER", !.km = km,
                               !.row = [NoRow EXCEPT !.unidad = u, !.clave = k]]
  <2>1. Begin(p, q) BY <1>3 DEF OrderRead
  <2>2. q.op = "ORDER" BY DEF Idle
  <2> HIDE DEF q
  <2> QED BY <1>1, <2>1, <2>2 DEF SeesVisit, Captures
<1>4. ASSUME NEW v \in Visitas, NEW km, NEW tabla, NEW lineas,
             UpdateRead(p, v, km, tabla, lineas)
      PROVE  SeesVisit(pet'[p]) /\ Turn /\ \A q \in Peticiones : q # p => pet'[q] = pet[q]
  <2>1. PICK q : /\ Begin(p, q) /\ q.op \in {"UPDATE_SAVE", "UPDATE_KM"}
                 /\ q.visita = v /\ visita[v].estado = "BORRADOR"
    BY <1>4 DEF UpdateRead, Idle
  <2> QED BY <1>1, <2>1 DEF SeesVisit
<1>5. ASSUME NEW v \in Visitas, RemoveRead(p, v)
      PROVE  SeesVisit(pet'[p]) /\ Turn /\ \A q \in Peticiones : q # p => pet'[q] = pet[q]
  <2>1. PICK q : /\ Begin(p, q) /\ q.op = "REMOVE_REQUISITOS"
                 /\ q.visita = v /\ visita[v].estado = "BORRADOR"
    BY <1>5 DEF RemoveRead, Idle
  <2> QED BY <1>1, <2>1 DEF SeesVisit
<1>6. ASSUME NEW v \in Visitas, CloseRead(p, v)
      PROVE  SeesVisit(pet'[p]) /\ Turn /\ \A q \in Peticiones : q # p => pet'[q] = pet[q]
  <2> DEFINE q == [Idle EXCEPT !.op = "CLOSE", !.visita = v, !.row = visita[v],
                               !.requisitos = requisitos[v], !.piezas = piezas[v],
                               !.activa = enServicio[visita[v].unidad]]
  <2>1. Begin(p, q) BY <1>6 DEF CloseRead
  <2>2. /\ q.op = "CLOSE" /\ q.visita = v /\ q.row = visita[v]
        /\ q.piezas = piezas[v] /\ q.requisitos = requisitos[v]
    BY DEF Idle
  <2> HIDE DEF q
  <2> QED BY <1>1, <2>1, <2>2 DEF SeesVisit, Captures
<1> QED BY <1>2, <1>3, <1>4, <1>5, <1>6 DEF Start

(* A request that goes on still sees its visit as it left it.              *)
LEMMA StepSees ==
  ASSUME TInv, NEW p \in Peticiones, SeesVisit(pet[p]), Step(p)
  PROVE  /\ ~Resting(p) /\ \A q \in Peticiones : q # p => pet'[q] = pet[q]
         /\ SeesVisit(pet[p])'
<1>0. /\ pet \in [Peticiones -> Peticion] /\ visita \in [Visitas -> VisitaRow]
      /\ PetOK(pet[p])
  BY DEF TInv, TypeOK
<1>1. ASSUME Finish(p) PROVE SeesVisit(pet[p])'
  <2>1. pet'[p] = Done BY <1>0, <1>1 DEF Finish
  <2>2. Done.op = "DONE" BY DEF Done, Idle
  <2> QED BY <2>1, <2>2 DEF SeesVisit, Captures
<1>2. ASSUME UpdateKm(p) PROVE SeesVisit(pet[p])'
  <2>1. /\ pet'[p].op = "UPDATE_SAVE" /\ pet'[p].visita = pet[p].visita
        /\ pet[p].op = "UPDATE_KM" /\ visita' = visita
    BY <1>0, <1>2 DEF UpdateKm, At, Peticion
  <2> QED BY <2>1 DEF SeesVisit, Captures
<1>3. ASSUME NEW op, Goto(p, op)
      PROVE  pet'[p].op = op /\ pet'[p].visita = pet[p].visita
  BY <1>0, <1>3 DEF Goto, Peticion
<1>4. ASSUME UpdateSave(p) PROVE SeesVisit(pet[p])'
  <2>1. CASE pet[p].tabla = "NADA" BY <1>1, <1>4, <2>1 DEF UpdateSave
  <2>2. CASE pet[p].tabla # "NADA"
    <3>1. /\ pet'[p].op = "UPDATE_DELETE" /\ pet'[p].visita = pet[p].visita
          /\ pet[p].visita \in Visitas /\ pet[p].row.estado = "BORRADOR"
          /\ visita' = [visita EXCEPT ![pet[p].visita] = pet[p].row]
      BY <1>0, <1>3, <1>4, <2>2 DEF UpdateSave, At, PetOK, OnVisit
    <3>2. visita'[pet[p].visita] = pet[p].row BY <1>0, <3>1
    <3> QED BY <3>1, <3>2 DEF SeesVisit, Captures
  <2> QED BY <2>1, <2>2
<1>5. ASSUME UpdateDelete(p) \/ RemoveRequisitos(p) \/ RemovePiezas(p)
      PROVE  SeesVisit(pet[p])'
  <2>1. /\ pet'[p].op \in Captures /\ pet'[p].visita = pet[p].visita
        /\ pet[p].op \in Captures /\ visita' = visita
    BY <1>3, <1>5 DEF UpdateDelete, RemoveRequisitos, RemovePiezas, At, Captures
  <2> QED BY <2>1 DEF SeesVisit, Captures
<1>6. ASSUME \/ \E v \in Visitas : CreateInsert(p, v) \/ OrderInsert(p, v)
             \/ CreateExisting(p) \/ OrderRefused(p) \/ UpdateKmRefused(p)
             \/ UpdateSaveRefused(p) \/ UpdateInsert(p) \/ UpdateInsertRefused(p)
             \/ RemoveRow(p) \/ CloseCommit(p) \/ CloseRefused(p)
      PROVE  Finish(p)
  BY <1>6 DEF CreateInsert, OrderInsert, Insert, CreateExisting, OrderRefused,
              UpdateKmRefused, UpdateSaveRefused, UpdateInsert, UpdateInsertRefused,
              RemoveRow, CloseCommit, CloseRefused, Refuse
<1>7. SeesVisit(pet[p])' BY <1>1, <1>2, <1>4, <1>5, <1>6 DEF Step
<1>8. \A q \in Peticiones : q # p => pet'[q] = pet[q] BY <1>0, StepOK
<1>9. pet[p].op \notin {"IDLE", "DONE"}
  BY DEF Step, CreateInsert, CreateExisting, OrderInsert, OrderRefused, UpdateKm,
         UpdateKmRefused, UpdateSave, UpdateSaveRefused, UpdateDelete, UpdateInsert,
         UpdateInsertRefused, RemoveRequisitos, RemovePiezas, RemoveRow, CloseCommit,
         CloseRefused, At
<1>10. Idle.op = "IDLE" /\ Done.op = "DONE" BY DEF Idle, Done
<1> QED BY <1>7, <1>8, <1>9, <1>10 DEF Resting

-----------------------------------------------------------------------------
(* Among requests that take turns a step touches one visit at most, and    *)
(* one that is not closed.                                                 *)
Untouched(v) ==
    /\ visita'[v] = visita[v] /\ requisitos'[v] = requisitos[v]
    /\ piezas'[v] = piezas[v] /\ aplicados'[v] = aplicados[v]

TouchesOne ==
    \E v \in Visitas :
        /\ visita[v].estado # "CERRADO"
        /\ \A w \in Visitas : w # v => Untouched(w)
        /\ \/ visita'[v].estado # "CERRADO" /\ aplicados'[v] = aplicados[v]
           \/ /\ visita'[v].estado = "CERRADO"
              /\ aplicados'[v] = << {f.linea : f \in piezas'[v]} >>

LEMMA TurnStep ==
  ASSUME TInv, TurnInv, ~modo.solapan, Next
  PROVE  (\A v \in Visitas : Untouched(v)) \/ TouchesOne
<1>0. /\ visita \in [Visitas -> VisitaRow]
      /\ requisitos \in [Visitas -> Peticiones \cup {Anterior, NULL}]
      /\ piezas \in [Visitas -> SUBSET Fila]
      /\ aplicados \in [Visitas -> Seq(SUBSET Linea)]
      /\ \A p \in Peticiones : PetOK(pet[p]) /\ SeesVisit(pet[p])
  BY DEF TInv, TypeOK, TurnInv
<1>1. CASE UNCHANGED <<visita, requisitos, piezas, aplicados>> BY <1>1 DEF Untouched
<1>2. ASSUME NEW p \in Peticiones, NEW v \in Visitas, CreateInsert(p, v) \/ OrderInsert(p, v)
      PROVE  TouchesOne
  <2>1. PICK legacy \in BOOLEAN, clave \in Claves \cup {NULL} : Insert(p, v, legacy, clave)
    <3>1. pet[p].row.clave \in Claves \cup {NULL} BY <1>0 DEF PetOK, RowOK, VisitaRow
    <3> QED BY <1>2, <3>1 DEF CreateInsert, OrderInsert
  <2> DEFINE row == NewRow(pet[p].row.unidad, pet[p].km, legacy, clave)
  <2>2. pet[p].row.unidad \in Unidades /\ pet[p].km \in Kms
    BY <1>0, <1>2 DEF CreateInsert, OrderInsert, At, PetOK
  <2>3. row.estado = "BORRADOR" BY <2>2, NewRowOK
  <2>4. /\ visita' = [visita EXCEPT ![v] = row] /\ visita[v].estado = "FREE"
        /\ UNCHANGED <<requisitos, piezas, aplicados>>
    BY <2>1 DEF Insert, closing
  <2> HIDE DEF row
  <2> QED BY <1>0, <2>3, <2>4 DEF TouchesOne, Untouched
<1>3. ASSUME NEW v \in Visitas, OpenMaintenance(v) PROVE TouchesOne
  <2> DEFINE row == [visita[v] EXCEPT !.opened = TRUE, !.legacy = FALSE]
  <2>1. row.estado = "BORRADOR" BY <1>0, <1>3 DEF OpenMaintenance, VisitaRow
  <2>2. /\ visita' = [visita EXCEPT ![v] = row] /\ visita[v].estado = "BORRADOR"
        /\ UNCHANGED <<requisitos, piezas, aplicados>>
    BY <1>3 DEF OpenMaintenance, closing
  <2> HIDE DEF row
  <2> QED BY <1>0, <2>1, <2>2 DEF TouchesOne, Untouched
<1>4. ASSUME NEW p \in Peticiones, UpdateSave(p) PROVE TouchesOne
  <2> DEFINE v == pet[p].visita
  <2>1. /\ pet[p].row.estado = "BORRADOR" /\ v \in Visitas /\ visita[v].estado = "BORRADOR"
        /\ visita' = [visita EXCEPT ![v] = pet[p].row]
        /\ UNCHANGED <<requisitos, piezas, aplicados>>
    BY <1>0, <1>4 DEF UpdateSave, At, PetOK, OnVisit, SeesVisit, Captures, closing
  <2> HIDE DEF v
  <2> QED BY <1>0, <2>1 DEF TouchesOne, Untouched
<1>5. ASSUME NEW p \in Peticiones, RemoveRow(p) PROVE TouchesOne
  <2> DEFINE v == pet[p].visita
             row == [NoRow EXCEPT !.estado = "REMOVED"]
  <2>1. /\ v \in Visitas /\ visita[v].estado = "BORRADOR"
        /\ visita' = [visita EXCEPT ![v] = row]
        /\ requisitos' = [requisitos EXCEPT ![v] = NULL]
        /\ piezas' = [piezas EXCEPT ![v] = {}]
        /\ UNCHANGED aplicados
    BY <1>0, <1>5 DEF RemoveRow, At, PetOK, OnVisit, SeesVisit, Captures, closing
  <2>2. row.estado # "CERRADO" BY DEF NoRow
  <2> HIDE DEF v, row
  <2> QED BY <1>0, <2>1, <2>2 DEF TouchesOne, Untouched
<1>6. ASSUME NEW p \in Peticiones,
             UpdateDelete(p) \/ UpdateInsert(p) \/ RemoveRequisitos(p) \/ RemovePiezas(p)
      PROVE  TouchesOne
  <2> DEFINE v == pet[p].visita
  <2>1. /\ v \in Visitas /\ visita[v].estado = "BORRADOR" /\ UNCHANGED <<visita, aplicados>>
    BY <1>0, <1>6 DEF UpdateDelete, UpdateInsert, RemoveRequisitos, RemovePiezas, At,
       PetOK, OnVisit, SeesVisit, Captures, closing
  <2>2. ASSUME NEW w \in Visitas, w # v
        PROVE  requisitos'[w] = requisitos[w] /\ piezas'[w] = piezas[w]
    BY <1>0, <1>6, <2>2 DEF UpdateDelete, UpdateInsert, RemoveRequisitos, RemovePiezas
  <2> HIDE DEF v
  <2> QED BY <2>1, <2>2 DEF TouchesOne, Untouched
<1>7. ASSUME NEW p \in Peticiones, CloseCommit(p) PROVE TouchesOne
  <2> DEFINE v == pet[p].visita
             row == Closed(pet[p].row)
  <2>1. /\ v \in Visitas /\ pet[p].row.estado = "BORRADOR" /\ row.estado = "CERRADO"
        /\ visita' = [visita EXCEPT ![v] = row]
        /\ \/ YaCosted(v) /\ UNCHANGED aplicados
           \/ aplicados' = [aplicados EXCEPT ![v] = Append(@, Consumo(p))]
    BY <1>7, CloseStep
  <2>2. visita[v].estado = "BORRADOR"
    BY <1>0, <1>7, <2>1 DEF CloseCommit, At, SeesVisit
  <2>3. aplicados[v] = << >> BY <2>1, <2>2 DEF TurnInv
  <2>4. ~YaCosted(v) BY <2>3 DEF YaCosted
  <2>5. /\ requisitos' = [requisitos EXCEPT ![v] = pet[p].requisitos]
        /\ piezas' = [piezas EXCEPT ![v] = pet[p].piezas]
    BY <1>7 DEF CloseCommit
  <2> HIDE DEF v, row
  <2>6. piezas'[v] = pet[p].piezas BY <1>0, <2>1, <2>5
  <2>7. aplicados'[v] = << Consumo(p) >>
    <3>1. aplicados'[v] = Append(aplicados[v], Consumo(p)) BY <1>0, <2>1, <2>4
    <3> QED BY <2>3, <3>1
  <2>8. aplicados'[v] = << {f.linea : f \in piezas'[v]} >> BY <2>6, <2>7 DEF Consumo
  <2>9. visita'[v].estado = "CERRADO" BY <1>0, <2>1
  <2>10. ASSUME NEW w \in Visitas, w # v PROVE Untouched(w)
    BY <1>0, <2>1, <2>5, <2>10 DEF Untouched
  <2> QED BY <2>1, <2>2, <2>8, <2>9, <2>10 DEF TouchesOne
<1>8. ASSUME NEW p \in Peticiones,
             \/ CreateExisting(p) \/ OrderRefused(p) \/ UpdateKm(p) \/ UpdateKmRefused(p)
             \/ UpdateSaveRefused(p) \/ UpdateInsertRefused(p) \/ CloseRefused(p)
      PROVE  UNCHANGED <<visita, requisitos, piezas, aplicados>>
  BY <1>8 DEF CreateExisting, OrderRefused, UpdateKm, UpdateKmRefused, UpdateSaveRefused,
              UpdateInsertRefused, CloseRefused, Refuse, closing
<1>9. ASSUME NEW p \in Peticiones, Start(p)
      PROVE  UNCHANGED <<visita, requisitos, piezas, aplicados>>
  BY <1>9, StartOK DEF closing
<1>10. ASSUME NEW u \in Unidades, CambiaServicio(u)
       PROVE  UNCHANGED <<visita, requisitos, piezas, aplicados>>
  BY <1>10 DEF CambiaServicio, closing
<1> QED BY <1>1, <1>2, <1>3, <1>4, <1>5, <1>6, <1>7, <1>8, <1>9, <1>10 DEF Next, Step

LEMMA TurnInit == Init => TurnInv
<1> SUFFICES ASSUME Init PROVE TurnInv OBVIOUS
<1>1. \A p \in Peticiones : pet[p] = Idle BY DEF Init
<1>2. Idle.op = "IDLE" BY DEF Idle
<1>3. \A v \in Visitas : aplicados[v] = << >> BY DEF Init
<1>4. \A v \in Visitas : visita[v].estado # "CERRADO" BY InitOpen
<1>5. \A p \in Peticiones : SeesVisit(pet[p]) /\ Resting(p)
  BY <1>1, <1>2 DEF SeesVisit, Captures, Resting
<1> QED BY <1>3, <1>4, <1>5 DEF TurnInv, ConsumedAsShown

LEMMA TurnInvStep == TInv /\ TurnInv /\ [Next]_vars => TurnInv'
<1> SUFFICES ASSUME TInv, TurnInv, [Next]_vars, ~modo.solapan PROVE TurnInv'
  BY ModeStep DEF TurnInv
<1>0. /\ \A p, q \in Peticiones : Resting(p) \/ Resting(q) \/ p = q
      /\ \A p \in Peticiones : SeesVisit(pet[p])
      /\ \A v \in Visitas : visita[v].estado # "CERRADO" => aplicados[v] = << >>
      /\ ConsumedAsShown
  BY DEF TurnInv
<1>3. ASSUME NEW q \in Peticiones, Resting(q)
      PROVE  SeesVisit(pet[q]) /\ (pet'[q] = pet[q] => SeesVisit(pet[q])')
  <2>1. Idle.op = "IDLE" /\ Done.op = "DONE" BY DEF Idle, Done
  <2> QED BY <1>3, <2>1 DEF Resting, SeesVisit, Captures
<1>1. CASE UNCHANGED vars
  BY <1>0, <1>1 DEF TurnInv, Resting, SeesVisit, ConsumedAsShown, vars, closing
<1>2. CASE Next
  <2>1. /\ \A p, q \in Peticiones : Resting(p)' \/ Resting(q)' \/ p = q
        /\ \A p \in Peticiones : SeesVisit(pet[p])'
    <3>1. ASSUME NEW p \in Peticiones, Start(p)
          PROVE  /\ \A q \in Peticiones : q # p => Resting(q)'
                 /\ \A q \in Peticiones : SeesVisit(pet[q])'
      <4>1. SeesVisit(pet'[p]) /\ Turn /\ \A q \in Peticiones : q # p => pet'[q] = pet[q]
        BY <3>1, StartSees
      <4>2. \A q \in Peticiones : Resting(q) BY <4>1 DEF Turn, Resting
      <4>3. UNCHANGED <<visita, requisitos, piezas>> BY <3>1, StartOK
      <4>4. SeesVisit(pet[p])' BY <4>1, <4>3 DEF SeesVisit
      <4> QED BY <1>3, <4>1, <4>2, <4>4 DEF Resting
    <3>2. ASSUME NEW p \in Peticiones, Step(p)
          PROVE  /\ \A q \in Peticiones : q # p => Resting(q)'
                 /\ \A q \in Peticiones : SeesVisit(pet[q])'
      <4>1. /\ ~Resting(p) /\ \A q \in Peticiones : q # p => pet'[q] = pet[q]
            /\ SeesVisit(pet[p])'
        BY <1>0, <3>2, StepSees
      <4>2. \A q \in Peticiones : q # p => Resting(q) BY <1>0, <4>1
      <4> QED BY <1>3, <4>1, <4>2 DEF Resting
    <3>3. ASSUME NEW v \in Visitas, OpenMaintenance(v)
          PROVE  /\ \A q \in Peticiones : Resting(q)'
                 /\ \A q \in Peticiones : SeesVisit(pet[q])'
      BY <1>3, <3>3 DEF OpenMaintenance, Turn, Resting
    <3>4. ASSUME NEW u \in Unidades, CambiaServicio(u)
          PROVE  UNCHANGED <<pet, visita, requisitos, piezas>>
      BY <3>4 DEF CambiaServicio
    <3>5. CASE UNCHANGED <<pet, visita, requisitos, piezas>>
      BY <1>0, <3>5 DEF Resting, SeesVisit
    <3> QED BY <1>2, <3>1, <3>2, <3>3, <3>4, <3>5 DEF Next
  <2>2. /\ \A v \in Visitas : visita'[v].estado # "CERRADO" => aplicados'[v] = << >>
        /\ \A v \in Visitas : visita'[v].estado = "CERRADO" =>
             aplicados'[v] = << {f.linea : f \in piezas'[v]} >>
    <3>1. (\A v \in Visitas : Untouched(v)) \/ TouchesOne BY <1>2, TurnStep
    <3>2. \A v \in Visitas : visita[v].estado = "CERRADO" =>
            aplicados[v] = << {f.linea : f \in piezas[v]} >>
      BY <1>0 DEF ConsumedAsShown
    <3> QED BY <1>0, <3>1, <3>2 DEF Untouched, TouchesOne
  <2> QED BY <2>1, <2>2 DEF TurnInv, ConsumedAsShown
<1> QED BY <1>1, <1>2

(* As long as requests take turns, what a closed visit shows as used is    *)
(* what its one event took.                                                *)
THEOREM ClosedShowsWhatItTook == Spec => []ConsumedAsShown
<1>1. TurnInv => ConsumedAsShown BY DEF TurnInv, ConsumedAsShown
<1> QED BY <1>1, TypeInit, TypeStep, TurnInit, TurnInvStep, PTL DEF Spec
=============================================================================
