--------------------------- MODULE JourneysProofs ---------------------------
(* Proofs about Journeys, for every value of its constants; the last of    *)
(* them, that it implements JourneyContract.                               *)
EXTENDS JourneysRefinement, SequenceTheorems, TLAPS

LEMMA ContextType ==
    ASSUME TypeOK, NEW u \in Unidades
    PROVE  Context(u) \in Contexts
<1>1. unidad[u] \in UnidadRow
  BY DEF TypeOK
<1>2. HistoryState(u) \in {"AVAILABLE", "KNOWN_OPEN", "MISSING_POINTER", "MISSING_ROW"}
  BY <1>1 DEF HistoryState, UnidadRow
<1> QED
  BY <1>1, <1>2 DEF Context, Contexts, UnidadRow

LEMMA InitTypeOK == Init => TypeOK
<1> SUFFICES ASSUME Init PROVE TypeOK
  OBVIOUS
<1>1. PICK legacy \in [Unidades -> Legacy], j \in [Unidades -> Viajes] :
        /\ unidad = [u \in Unidades |->
              [ops |-> IF legacy[u] = "AVAILABLE" THEN "DISPONIBLE" ELSE "EN_RUTA",
               chofer |-> NULL,
               viaje |-> IF legacy[u] \in {"KNOWN_OPEN", "MISSING_ROW"}
                         THEN j[u] ELSE NULL,
               rev |-> 0]]
        /\ viaje = [v \in Viajes |->
              IF \E u \in Unidades : j[u] = v /\ legacy[u] = "KNOWN_OPEN"
              THEN LegacyOpen(CHOOSE u \in Unidades : j[u] = v)
              ELSE NoViaje]
  BY DEF Init
<1>2. unidad \in [Unidades -> UnidadRow]
  BY <1>1 DEF UnidadRow
<1>3. viaje \in [Viajes -> ViajeRow]
  <2>1. NoViaje \in ViajeRow
    BY DEF NoViaje, ViajeRow
  <2>2. \A u \in Unidades : LegacyOpen(u) \in ViajeRow
    BY DEF LegacyOpen, ViajeRow
  <2>3. \A v \in Viajes : (\E u \in Unidades : j[u] = v /\ legacy[u] = "KNOWN_OPEN")
            => (CHOOSE u \in Unidades : j[u] = v) \in Unidades
    OBVIOUS
  <2> QED
    BY <1>1, <2>1, <2>2, <2>3
<1>4. pet \in [Peticiones -> Peticion]
  BY DEF Init, Idle, Peticion
<1> QED
  BY <1>2, <1>3, <1>4 DEF Init, TypeOK

(* The rows of requests. *)
LEMMA RequestType ==
    /\ Idle \in Peticion
    /\ \A cmd \in Comandos :
         [op |-> "EXECUTE", unidad |-> cmd.unidad, cmd |-> cmd,
          chofer |-> NULL, estado |-> NULL] \in Peticion
    /\ \A u \in Unidades, c \in Choferes :
         [op |-> "ASSIGN", unidad |-> u, cmd |-> NULL,
          chofer |-> c, estado |-> NULL] \in Peticion
    /\ \A c \in Choferes, e \in {"ACTIVO", "INACTIVO"} :
         [op |-> "CHOFER", unidad |-> NULL, cmd |-> NULL,
          chofer |-> c, estado |-> e] \in Peticion
BY DEF Peticion, Idle, Comandos

(* What a request that executes, assigns or updates a driver carries. *)
LEMMA RequestRow ==
    ASSUME TypeOK, NEW p \in Peticiones
    PROVE  /\ Executing(p) => pet[p].cmd \in Comandos /\ pet[p].unidad \in Unidades
           /\ pet[p].op = "ASSIGN" =>
                pet[p].chofer \in Choferes /\ pet[p].unidad \in Unidades
           /\ pet[p].op = "CHOFER" =>
                pet[p].chofer \in Choferes /\ pet[p].estado \in {"ACTIVO", "INACTIVO"}
           /\ pet[p] # Idle <=> pet[p].op # "IDLE"
<1>1. pet[p] \in Peticion
  BY DEF TypeOK
<1> QED
  BY <1>1 DEF Peticion, Executing, Idle

LEMMA NextTypeOK == TypeOK /\ [Next]_vars => TypeOK'
<1> SUFFICES ASSUME TypeOK, [Next]_vars PROVE TypeOK'
  OBVIOUS
<1>a. \A p \in Peticiones : Finish(p) => pet' \in [Peticiones -> Peticion]
  BY RequestType DEF Finish, TypeOK
<1>b. ASSUME NEW p \in Peticiones, Executing(p), NEW v \in Viajes,
             Receipt(pet[p].cmd, v)
      PROVE  recibo' \in [Llaves -> Recibo \cup {NULL}] /\ acked' \subseteq Comandos
  <2>1. pet[p].cmd \in Comandos /\ pet[p].cmd.key \in Llaves
    BY <1>b, RequestRow DEF Comandos
  <2>2. [cmd |-> pet[p].cmd, viaje |-> v] \in Recibo
    BY <2>1 DEF Recibo
  <2> QED
    BY <1>b, <2>1, <2>2 DEF Receipt, TypeOK
<1>1. ASSUME NEW k \in Llaves, NEW kind \in {"DEPARTURE", "RETURN"},
             NEW u \in Unidades, NEW c \in Choferes \cup {NULL}, Freeze(k, kind, u, c)
      PROVE  TypeOK'
  <2>1. [key |-> k, kind |-> kind, unidad |-> u, chofer |-> c, ctx |-> Context(u)]
          \in Comandos
    BY ContextType DEF Comandos
  <2> QED
    BY <1>1, <2>1 DEF Freeze, TypeOK
<1>2. ASSUME NEW p \in Peticiones, NEW cmd \in comandos, Execute(p, cmd)
      PROVE  TypeOK'
  <2>1. cmd \in Comandos
    BY DEF TypeOK
  <2>2. pet' \in [Peticiones -> Peticion]
    BY <1>2, <2>1, RequestType DEF Execute, Begin, TypeOK
  <2> QED
    BY <1>2, <2>2 DEF Execute, TypeOK
<1>3. ASSUME NEW cmd \in comandos, Replay(cmd)
      PROVE  TypeOK'
  BY <1>3 DEF Replay, TypeOK
<1>4. ASSUME NEW p \in Peticiones, NEW v \in Viajes, CommitDeparture(p, v)
      PROVE  TypeOK'
  <2> DEFINE cmd == pet[p].cmd
             u == cmd.unidad
             c == IF cmd.chofer = NULL THEN unidad[u].chofer ELSE cmd.chofer
  <2>1. cmd \in Comandos
    BY <1>4, RequestRow DEF CommitDeparture
  <2>2. u \in Unidades /\ cmd.chofer \in Choferes \cup {NULL}
    BY <2>1 DEF Comandos
  <2>3. unidad[u] \in UnidadRow
    BY <2>2 DEF TypeOK
  <2>4. c \in Choferes \cup {NULL} /\ unidad[u].rev + 1 \in Nat
    BY <2>2, <2>3 DEF UnidadRow
  <2>5. [ops |-> "EN_RUTA", chofer |-> c, viaje |-> v, rev |-> unidad[u].rev + 1] \in UnidadRow
    BY <2>4 DEF UnidadRow
  <2>6. [estado |-> "OPEN", unidad |-> u, origin |-> "CAPTURED", chofer |-> c,
         cierre |-> NULL] \in ViajeRow
    BY <2>2, <2>4 DEF ViajeRow
  <2>7. unidad' \in [Unidades -> UnidadRow]
    BY <1>4, <2>2, <2>5 DEF CommitDeparture, TypeOK
  <2>8. viaje' \in [Viajes -> ViajeRow]
    BY <1>4, <2>6 DEF CommitDeparture, TypeOK
  <2> QED
    BY <1>4, <1>a, <1>b, <2>7, <2>8 DEF CommitDeparture, TypeOK
<1>5. ASSUME NEW p \in Peticiones, NEW v \in Viajes, CommitReturn(p, v)
      PROVE  TypeOK'
  <2> DEFINE cmd == pet[p].cmd
             u == cmd.unidad
  <2>1. cmd \in Comandos
    BY <1>5, RequestRow DEF CommitReturn
  <2>2. u \in Unidades /\ cmd.key \in Llaves
    BY <2>1 DEF Comandos
  <2>3. unidad[u] \in UnidadRow /\ viaje[v] \in ViajeRow
    BY <2>2 DEF TypeOK
  <2>4. Home(u) \in UnidadRow
    BY <2>3 DEF Home, UnidadRow
  <2>5. /\ [viaje[v] EXCEPT !.estado = "CLOSED", !.cierre = cmd.key] \in ViajeRow
        /\ [estado |-> "CLOSED", unidad |-> u, chofer |-> NULL,
            origin |-> "LEGACY_RECOVERED", cierre |-> cmd.key] \in ViajeRow
    BY <2>2, <2>3 DEF ViajeRow
  <2>6. unidad' \in [Unidades -> UnidadRow]
    BY <1>5, <2>2, <2>4 DEF CommitReturn, TypeOK
  <2>7. viaje' \in [Viajes -> ViajeRow]
    BY <1>5, <2>5 DEF CommitReturn, TypeOK
  <2> QED
    BY <1>5, <1>a, <1>b, <2>6, <2>7 DEF CommitReturn, TypeOK
<1>6. ASSUME NEW p \in Peticiones, KeyTaken(p)
      PROVE  TypeOK'
  BY <1>6, <1>a, RequestRow DEF KeyTaken, TypeOK
<1>7. ASSUME NEW p \in Peticiones, Rollback(p)
      PROVE  TypeOK'
  BY <1>7, <1>a DEF Rollback, TypeOK
<1>8. ASSUME NEW p \in Peticiones, NEW u \in Unidades, NEW c \in Choferes, Assign(p, u, c)
      PROVE  TypeOK'
  BY <1>8, RequestType DEF Assign, Begin, TypeOK
<1>c. ASSUME NEW u \in Unidades, NEW c \in Choferes \cup {NULL}
      PROVE  [unidad[u] EXCEPT !.chofer = c] \in UnidadRow
  BY DEF UnidadRow, TypeOK
<1>9. ASSUME NEW p \in Peticiones, CommitAssign(p)
      PROVE  TypeOK'
  <2>1. unidad' \in [Unidades -> UnidadRow]
    BY <1>9, <1>c, RequestRow DEF CommitAssign, TypeOK
  <2> QED
    BY <1>9, <1>a, <2>1 DEF CommitAssign, TypeOK
<1>10. ASSUME NEW u \in Unidades, Unassign(u)
       PROVE  TypeOK'
  BY <1>10, <1>c DEF Unassign, TypeOK
<1>11. ASSUME NEW p \in Peticiones, NEW c \in Choferes,
              NEW e \in {"ACTIVO", "INACTIVO", NULL}, UpdateChofer(p, c, e)
       PROVE  TypeOK'
  <2>1. (IF e = NULL THEN chofer[c] ELSE e) \in {"ACTIVO", "INACTIVO"}
    BY DEF TypeOK
  <2>2. pet' \in [Peticiones -> Peticion]
    BY <1>11, <2>1, RequestType DEF UpdateChofer, Begin, TypeOK
  <2> QED
    BY <1>11, <2>2 DEF UpdateChofer, TypeOK
<1>12. ASSUME NEW p \in Peticiones, SaveChofer(p)
       PROVE  TypeOK'
  BY <1>12, <1>a, RequestRow DEF SaveChofer, TypeOK
<1>13. ASSUME NEW u \in Unidades, NEW r \in Requisitos, Requisito(u, r)
       PROVE  TypeOK'
  BY <1>13 DEF Requisito, TypeOK
<1>14. ASSUME NEW u \in Unidades, LateSave(u)
       PROVE  TypeOK'
  BY <1>14 DEF LateSave, TypeOK
<1>15. CASE UNCHANGED vars
  BY <1>15 DEF vars, TypeOK
<1> QED
  BY <1>1, <1>2, <1>3, <1>4, <1>5, <1>6, <1>7, <1>8, <1>9, <1>10, <1>11, <1>12,
     <1>13, <1>14, <1>15 DEF Next

(* Every row the service writes has its type. *)
THEOREM TypeCorrect == Spec => []TypeOK
BY InitTypeOK, NextTypeOK, PTL DEF Spec

-----------------------------------------------------------------------------
(* What holds besides the types: a request in progress has read what is    *)
(* still there, requests hold the locks of different units, and no two     *)
(* units point to one journey.                                             *)
Reading ==
    \A p \in Peticiones : Executing(p) =>
        LET cmd == pet[p].cmd IN
        /\ pet[p].unidad = cmd.unidad
        /\ cmd.ctx = Context(cmd.unidad)
        /\ cmd.kind = "DEPARTURE" => unidad[cmd.unidad].ops = "DISPONIBLE"
        /\ cmd.kind = "RETURN" => unidad[cmd.unidad].ops = "EN_RUTA"

Locks ==
    \A p, q \in Peticiones :
        pet[p].unidad # NULL /\ pet[p].unidad = pet[q].unidad => p = q

Pointers ==
    \A u, w \in Unidades :
        unidad[u].viaje # NULL /\ unidad[u].viaje = unidad[w].viaje => u = w

IInv ==
    /\ TypeOK
    /\ Reading
    /\ Locks
    /\ Pointers
    /\ Consistent

(* Of the rows of units and journeys, a step other than the two commits    *)
(* changes at most the drivers.                                            *)
Quiet ==
    /\ viaje' = viaje
    /\ recibo' = recibo
    /\ \A u \in Unidades : /\ unidad'[u].ops = unidad[u].ops
                            /\ unidad'[u].viaje = unidad[u].viaje
                            /\ unidad'[u].rev = unidad[u].rev

LEMMA Steps ==
    ASSUME TypeOK, [Next]_vars
    PROVE  \/ Quiet
           \/ \E p \in Peticiones, v \in Viajes : CommitDeparture(p, v)
           \/ \E p \in Peticiones, v \in Viajes : CommitReturn(p, v)
<1>1. unidad' = unidad /\ viaje' = viaje /\ recibo' = recibo => Quiet
  BY DEF Quiet
<1>2. ASSUME NEW u \in Unidades, NEW c,
             unidad' = [unidad EXCEPT ![u] = [@ EXCEPT !.chofer = c]],
             viaje' = viaje, recibo' = recibo
      PROVE  Quiet
  BY <1>2 DEF Quiet, TypeOK, UnidadRow
<1>3. ASSUME NEW p \in Peticiones, CommitAssign(p)
      PROVE  Quiet
  BY <1>3, <1>2, RequestRow DEF CommitAssign
<1>4. ASSUME NEW u \in Unidades, Unassign(u)
      PROVE  Quiet
  BY <1>4, <1>2 DEF Unassign
<1> QED
  BY <1>1, <1>3, <1>4
  DEF Next, vars, Freeze, Execute, Replay, KeyTaken, Rollback, Assign,
      UpdateChofer, SaveChofer, Requisito, LateSave

(* A unit whose row and journeys a step leaves alone.                      *)
LEMMA Frame ==
    ASSUME NEW w \in Unidades,
           unidad'[w].ops = unidad[w].ops, unidad'[w].viaje = unidad[w].viaje,
           unidad'[w].rev = unidad[w].rev,
           Abierto(w)' = Abierto(w),
           unidad[w].viaje # NULL => viaje'[unidad[w].viaje] = viaje[unidad[w].viaje]
    PROVE  /\ Context(w)' = Context(w)
           /\ Contradictory(w)' = Contradictory(w)
<1>1. HistoryState(w)' = HistoryState(w)
  BY DEF HistoryState
<1> QED
  BY <1>1 DEF Context, Contradictory

LEMMA QuietFrame ==
    ASSUME Quiet, NEW w \in Unidades
    PROVE  /\ Context(w)' = Context(w)
           /\ Contradictory(w)' = Contradictory(w)
<1>1. Abierto(w)' = Abierto(w)
  BY DEF Quiet, Abierto
<1> QED
  BY <1>1, Frame DEF Quiet

(* What the commit of cmd writes on unit u and journey v: no other unit     *)
(* points to v, and v is new or the open journey of u.                     *)
Commit(cmd, u, v) ==
    /\ cmd.unidad = u /\ cmd.key \in Llaves /\ cmd.ctx.rev = unidad[u].rev
    /\ \E p \in Peticiones : pet[p].unidad = u /\ Finish(p)
    /\ viaje[v].estado = "FREE" \/ (viaje[v].estado = "OPEN" /\ viaje[v].unidad = u)
    /\ viaje'[v].unidad = u
    /\ \A x \in Viajes \ {v} : viaje'[x] = viaje[x]
    /\ unidad'[u].rev = unidad[u].rev + 1
    /\ \A w \in Unidades \ {u} : unidad'[w] = unidad[w] /\ unidad[w].viaje # v
    /\ recibo[cmd.key] = NULL
    /\ recibo' = [recibo EXCEPT ![cmd.key] = [cmd |-> cmd, viaje |-> v]]
    /\ acked' = acked \cup {cmd}

Departed(cmd, u, v) ==
    /\ Commit(cmd, u, v)
    /\ cmd.kind = "DEPARTURE"
    /\ unidad[u].ops = "DISPONIBLE" /\ unidad[u].viaje = NULL /\ Abierto(u) = {}
    /\ viaje[v].estado = "FREE" /\ viaje'[v].estado = "OPEN"
    /\ unidad'[u].ops = "EN_RUTA" /\ unidad'[u].viaje = v

Returned(cmd, u, v) ==
    /\ Commit(cmd, u, v)
    /\ cmd.kind = "RETURN"
    /\ unidad[u].ops = "EN_RUTA" /\ Abierto(u) \subseteq {v}
    /\ unidad[u].viaje \in {NULL, v}
    /\ unidad[u].viaje = NULL => viaje[v].estado = "FREE"
    /\ viaje'[v].estado = "CLOSED" /\ viaje'[v].cierre = cmd.key
    /\ viaje[v].estado = "OPEN" =>
         viaje'[v] = [viaje[v] EXCEPT !.estado = "CLOSED", !.cierre = cmd.key]
    /\ unidad'[u].ops = "DISPONIBLE" /\ unidad'[u].viaje = NULL
    /\ unidad'[u].chofer = unidad[u].chofer

LEMMA DepartureWrites ==
    ASSUME IInv, NEW p \in Peticiones, NEW v \in Viajes, CommitDeparture(p, v)
    PROVE  /\ pet[p].cmd \in Comandos /\ pet[p].cmd.unidad \in Unidades
           /\ Departed(pet[p].cmd, pet[p].cmd.unidad, v)
<1> DEFINE cmd == pet[p].cmd
           u == cmd.unidad
<1>1. cmd \in Comandos /\ u \in Unidades /\ cmd.key \in Llaves
  BY RequestRow DEF IInv, CommitDeparture, Comandos
<1>2. pet[p].unidad = u /\ cmd.ctx = Context(u) /\ unidad[u].ops = "DISPONIBLE"
  BY DEF IInv, Reading, CommitDeparture
<1>3. unidad[u].viaje = NULL /\ Abierto(u) = {}
  BY <1>1, <1>2 DEF IInv, Consistent, Contradictory
<1>4. cmd.ctx.rev = unidad[u].rev
  BY <1>2 DEF Context
<1>5. viaje[v].estado = "FREE" /\ \A w \in Unidades : unidad[w].viaje # v
  BY DEF CommitDeparture, Fresh
<1>6. /\ viaje'[v].estado = "OPEN" /\ viaje'[v].unidad = u
      /\ \A x \in Viajes \ {v} : viaje'[x] = viaje[x]
  BY DEF CommitDeparture, IInv, TypeOK
<1>7. /\ unidad'[u].ops = "EN_RUTA" /\ unidad'[u].viaje = v
      /\ unidad'[u].rev = unidad[u].rev + 1
      /\ \A w \in Unidades \ {u} : unidad'[w] = unidad[w]
  BY <1>1 DEF CommitDeparture, IInv, TypeOK
<1>8. /\ recibo[cmd.key] = NULL
      /\ recibo' = [recibo EXCEPT ![cmd.key] = [cmd |-> cmd, viaje |-> v]]
      /\ acked' = acked \cup {cmd}
      /\ cmd.kind = "DEPARTURE" /\ Finish(p)
  BY DEF CommitDeparture, Committable, Receipt
<1>9. Commit(cmd, u, v)
  BY <1>1, <1>2, <1>4, <1>5, <1>6, <1>7, <1>8 DEF Commit
<1> QED
  BY <1>1, <1>2, <1>3, <1>5, <1>6, <1>7, <1>8, <1>9 DEF Departed

LEMMA ReturnWrites ==
    ASSUME IInv, NEW p \in Peticiones, NEW v \in Viajes, CommitReturn(p, v)
    PROVE  /\ pet[p].cmd \in Comandos /\ pet[p].cmd.unidad \in Unidades
           /\ Returned(pet[p].cmd, pet[p].cmd.unidad, v)
<1> DEFINE cmd == pet[p].cmd
           u == cmd.unidad
<1>1. cmd \in Comandos /\ u \in Unidades /\ cmd.key \in Llaves
  BY RequestRow DEF IInv, CommitReturn, Comandos
<1>2. pet[p].unidad = u /\ cmd.ctx = Context(u) /\ unidad[u].ops = "EN_RUTA"
  BY DEF IInv, Reading, CommitReturn
<1>3. ~Contradictory(u)
  BY <1>1 DEF IInv, Consistent
<1>4. cmd.ctx.rev = unidad[u].rev
  BY <1>2 DEF Context
<1>5. IF unidad[u].viaje # NULL THEN v = unidad[u].viaje ELSE Fresh(v)
  BY DEF CommitReturn
<1>6. viaje[v] \in ViajeRow
  BY DEF IInv, TypeOK
<1>7. /\ Abierto(u) \subseteq {v}
      /\ unidad[u].viaje \in {NULL, v}
      /\ unidad[u].viaje = NULL => viaje[v].estado = "FREE"
      /\ viaje[v].estado = "FREE" \/ (viaje[v].estado = "OPEN" /\ viaje[v].unidad = u)
  <2>1. CASE unidad[u].viaje # NULL
    BY <2>1, <1>2, <1>3, <1>5, <1>6 DEF Contradictory, ViajeRow
  <2>2. CASE unidad[u].viaje = NULL
    <3>1. Abierto(u) = {}
      BY <2>2, <1>2, <1>3, JourneysAssumption DEF Contradictory, Abierto
    <3> QED
      BY <2>2, <3>1, <1>5 DEF Fresh
  <2> QED
    BY <2>1, <2>2
<1>8. \A w \in Unidades \ {u} : unidad[w].viaje # v
  BY <1>1, <1>5 DEF Fresh, IInv, Pointers
<1>9. /\ viaje[v].estado = "OPEN" =>
            viaje'[v] = [viaje[v] EXCEPT !.estado = "CLOSED", !.cierre = cmd.key]
      /\ viaje'[v].estado = "CLOSED" /\ viaje'[v].unidad = u
      /\ viaje'[v].cierre = cmd.key
      /\ \A x \in Viajes \ {v} : viaje'[x] = viaje[x]
  BY <1>6, <1>7 DEF CommitReturn, IInv, TypeOK, ViajeRow
<1>10. /\ unidad'[u].ops = "DISPONIBLE" /\ unidad'[u].viaje = NULL
       /\ unidad'[u].rev = unidad[u].rev + 1
       /\ unidad'[u].chofer = unidad[u].chofer
       /\ \A w \in Unidades \ {u} : unidad'[w] = unidad[w]
  BY <1>1 DEF CommitReturn, Home, IInv, TypeOK
<1>11. /\ recibo[cmd.key] = NULL
       /\ recibo' = [recibo EXCEPT ![cmd.key] = [cmd |-> cmd, viaje |-> v]]
       /\ acked' = acked \cup {cmd}
       /\ cmd.kind = "RETURN" /\ Finish(p)
  BY DEF CommitReturn, Committable, Receipt
<1>12. Commit(cmd, u, v)
  BY <1>1, <1>2, <1>4, <1>7, <1>8, <1>9, <1>10, <1>11 DEF Commit
<1> QED
  BY <1>1, <1>2, <1>7, <1>9, <1>10, <1>11, <1>12 DEF Returned

(* Every step is quiet, a departure or a return. *)
LEMMA ThreeCases ==
    ASSUME IInv, [Next]_vars
    PROVE  \/ Quiet
           \/ \E cmd \in Comandos, u \in Unidades, v \in Viajes : Departed(cmd, u, v)
           \/ \E cmd \in Comandos, u \in Unidades, v \in Viajes : Returned(cmd, u, v)
BY Steps, DepartureWrites, ReturnWrites DEF IInv

(* On the other units a commit changes nothing.                            *)
LEMMA CommitFrame ==
    ASSUME IInv, NEW cmd, NEW u \in Unidades, NEW v \in Viajes, Commit(cmd, u, v),
           NEW w \in Unidades \ {u}
    PROVE  /\ Context(w)' = Context(w)
           /\ Contradictory(w)' = Contradictory(w)
<1>1. Abierto(w)' = Abierto(w)
  <2>1. v \notin Abierto(w) /\ v \notin Abierto(w)'
    BY DEF Abierto, Commit
  <2>2. \A x \in Viajes \ {v} : x \in Abierto(w)' <=> x \in Abierto(w)
    BY DEF Abierto, Commit
  <2>3. Abierto(w) \subseteq Viajes /\ Abierto(w)' \subseteq Viajes
    BY DEF Abierto
  <2> QED
    BY <2>1, <2>2, <2>3
<1>2. unidad[w].viaje # NULL => viaje'[unidad[w].viaje] = viaje[unidad[w].viaje]
  BY DEF IInv, TypeOK, UnidadRow, Commit
<1> QED
  BY <1>1, <1>2, Frame DEF Commit

LEMMA InitIInv == Init => IInv
<1> SUFFICES ASSUME Init PROVE IInv
  OBVIOUS
<1>1. PICK legacy \in [Unidades -> Legacy], j \in [Unidades -> Viajes] :
        /\ \A u, w \in Unidades : j[u] = j[w] => u = w
        /\ unidad = [u \in Unidades |->
              [ops |-> IF legacy[u] = "AVAILABLE" THEN "DISPONIBLE" ELSE "EN_RUTA",
               chofer |-> NULL,
               viaje |-> IF legacy[u] \in {"KNOWN_OPEN", "MISSING_ROW"}
                         THEN j[u] ELSE NULL,
               rev |-> 0]]
        /\ viaje = [v \in Viajes |->
              IF \E u \in Unidades : j[u] = v /\ legacy[u] = "KNOWN_OPEN"
              THEN LegacyOpen(CHOOSE u \in Unidades : j[u] = v)
              ELSE NoViaje]
  BY DEF Init
<1>2. TypeOK
  BY InitTypeOK
<1>3. Reading /\ Locks
  BY DEF Init, Idle, Reading, Locks, Executing
<1>4. Pointers
  BY <1>1 DEF Pointers
<1>5. Consistent
  <2>1. \A v \in Viajes : viaje[v].estado \in {"FREE", "OPEN"}
    BY <1>1 DEF NoViaje, LegacyOpen
  <2>2. ASSUME NEW v \in Viajes, NEW u \in Unidades, j[u] = v
        PROVE  viaje[v].estado = "OPEN" =>
                 viaje[v].unidad = u /\ legacy[u] = "KNOWN_OPEN"
    <3>1. (CHOOSE w \in Unidades : j[w] = v) = u
      BY <1>1, <2>2
    <3>2. viaje[v] = IF \E w \in Unidades : j[w] = v /\ legacy[w] = "KNOWN_OPEN"
                     THEN LegacyOpen(u) ELSE NoViaje
      BY <1>1, <3>1
    <3> QED
      BY <1>1, <2>2, <3>2 DEF NoViaje, LegacyOpen
  <2>3. \A v \in Viajes : viaje[v].estado = "OPEN" => \E u \in Unidades : j[u] = v
    BY <1>1 DEF NoViaje
  <2>4. \A u \in Unidades : \A v \in Abierto(u) : v = j[u] /\ legacy[u] = "KNOWN_OPEN"
    BY <2>2, <2>3 DEF Abierto
  <2>5. ASSUME NEW u \in Unidades PROVE ~Contradictory(u)
    <3>1. CASE legacy[u] = "AVAILABLE"
      BY <1>1, <2>4, <3>1 DEF Contradictory
    <3>2. CASE legacy[u] # "AVAILABLE"
      BY <1>1, <2>1, <2>2, <2>4, <3>2, SMTT(30) DEF Contradictory, Legacy
    <3> QED
      BY <3>1, <3>2
  <2> QED
    BY <2>5 DEF Consistent
<1> QED
  BY <1>2, <1>3, <1>4, <1>5 DEF IInv

LEMMA NextPointers == IInv /\ [Next]_vars => Pointers'
<1> SUFFICES ASSUME IInv, [Next]_vars PROVE Pointers'
  OBVIOUS
<1>1. CASE Quiet
  BY <1>1 DEF Quiet, IInv, Pointers
<1>2. ASSUME NEW cmd \in Comandos, NEW u \in Unidades, NEW v \in Viajes, Departed(cmd, u, v)
      PROVE  Pointers'
  BY <1>2 DEF Departed, Commit, IInv, Pointers
<1>3. ASSUME NEW cmd \in Comandos, NEW u \in Unidades, NEW v \in Viajes, Returned(cmd, u, v)
      PROVE  Pointers'
  BY <1>3 DEF Returned, Commit, IInv, Pointers
<1> QED
  BY <1>1, <1>2, <1>3, ThreeCases

LEMMA NextConsistent == IInv /\ [Next]_vars => Consistent'
<1> SUFFICES ASSUME IInv, [Next]_vars, NEW w \in Unidades PROVE ~Contradictory(w)'
  BY DEF Consistent
<1>1. CASE Quiet
  BY <1>1, QuietFrame DEF IInv, Consistent
<1>a. ASSUME NEW cmd, NEW u \in Unidades, NEW v \in Viajes, Commit(cmd, u, v), w # u
      PROVE  ~Contradictory(w)'
  BY <1>a, CommitFrame DEF IInv, Consistent
<1>2. ASSUME NEW cmd \in Comandos, NEW u \in Unidades, NEW v \in Viajes, Departed(cmd, u, v)
      PROVE  ~Contradictory(w)'
  <2>1. Abierto(u)' \subseteq {v}
    BY <1>2 DEF Departed, Commit, Abierto
  <2>2. ~Contradictory(u)'
    BY <1>2, <2>1 DEF Departed, Commit, Contradictory
  <2> QED
    BY <1>2, <1>a, <2>2 DEF Departed
<1>3. ASSUME NEW cmd \in Comandos, NEW u \in Unidades, NEW v \in Viajes, Returned(cmd, u, v)
      PROVE  ~Contradictory(w)'
  <2>1. Abierto(u)' = {}
    BY <1>3 DEF Returned, Commit, Abierto
  <2>2. ~Contradictory(u)'
    BY <1>3, <2>1 DEF Returned, Commit, Contradictory
  <2> QED
    BY <1>3, <1>a, <2>2 DEF Returned
<1> QED
  BY <1>1, <1>2, <1>3, ThreeCases

LEMMA NextLocks == IInv /\ [Next]_vars => Locks'
<1> SUFFICES ASSUME IInv, [Next]_vars PROVE Locks'
  OBVIOUS
<1>a. pet' = pet => Locks'
  BY DEF IInv, Locks
<1>b. \A p \in Peticiones : Finish(p) => Locks'
  BY DEF Finish, Idle, IInv, Locks, TypeOK
<1>c. ASSUME NEW p \in Peticiones, NEW row, Begin(p, row),
             row.unidad = NULL \/ ~Locked(row.unidad)
      PROVE  Locks'
  BY <1>c DEF Begin, Locked, IInv, Locks, TypeOK
<1>1. ASSUME NEW p \in Peticiones, NEW cmd \in comandos, Execute(p, cmd)
      PROVE  Locks'
  BY <1>1, <1>c DEF Execute
<1>2. ASSUME NEW p \in Peticiones, NEW u \in Unidades, NEW c \in Choferes, Assign(p, u, c)
      PROVE  Locks'
  BY <1>2, <1>c DEF Assign
<1>3. ASSUME NEW p \in Peticiones, NEW c \in Choferes,
             NEW e \in {"ACTIVO", "INACTIVO", NULL}, UpdateChofer(p, c, e)
      PROVE  Locks'
  BY <1>3, <1>c DEF UpdateChofer
<1> QED
  BY <1>a, <1>b, <1>1, <1>2, <1>3
  DEF Next, vars, Freeze, Replay, CommitDeparture, CommitReturn, KeyTaken, Rollback,
      CommitAssign, Unassign, SaveChofer, Requisito, LateSave

(* Only Execute makes a request execute. *)
LEMMA OnlyExecute ==
    ASSUME IInv, [Next]_vars
    PROVE  \/ \E p \in Peticiones, cmd \in comandos : Execute(p, cmd)
           \/ \A q \in Peticiones : pet'[q].op = "EXECUTE" => pet'[q] = pet[q]
<1> DEFINE Kept == \A q \in Peticiones : pet'[q].op = "EXECUTE" => pet'[q] = pet[q]
<1>1. pet' = pet => Kept
  OBVIOUS
<1>2. \A p \in Peticiones : Finish(p) => Kept
  BY DEF Finish, Idle, IInv, TypeOK
<1>3. \A p \in Peticiones : \A row : Begin(p, row) /\ row.op # "EXECUTE" => Kept
  BY DEF Begin, IInv, TypeOK
<1>4. ASSUME NEW p \in Peticiones, NEW u \in Unidades, NEW c \in Choferes, Assign(p, u, c)
      PROVE  Kept
  BY <1>3, <1>4 DEF Assign
<1>5. ASSUME NEW p \in Peticiones, NEW c \in Choferes,
             NEW e \in {"ACTIVO", "INACTIVO", NULL}, UpdateChofer(p, c, e)
      PROVE  Kept
  BY <1>3, <1>5 DEF UpdateChofer
<1> HIDE DEF Kept
<1>6. Kept \/ \E p \in Peticiones, cmd \in comandos : Execute(p, cmd)
  BY <1>1, <1>2, <1>4, <1>5
  DEF Next, vars, Freeze, Replay, CommitDeparture, CommitReturn, KeyTaken, Rollback,
      CommitAssign, Unassign, SaveChofer, Requisito, LateSave
<1> QED
  BY <1>6 DEF Kept

(* What Execute has read of the unit of its command. *)
LEMMA ReadKept ==
    ASSUME NEW u \in Unidades, Context(u)' = Context(u), unidad[u] \in UnidadRow,
           NEW cmd, cmd.unidad = u, cmd.ctx = Context(u),
           cmd.kind = "DEPARTURE" => unidad[u].ops = "DISPONIBLE",
           cmd.kind = "RETURN" => unidad[u].ops = "EN_RUTA",
           unidad'[u].ops = unidad[u].ops,
           NEW q \in Peticiones, pet'[q].unidad = u, pet'[q].cmd = cmd
    PROVE  LET now == pet[q].cmd IN
           (/\ pet[q].unidad = now.unidad
            /\ now.ctx = Context(now.unidad)
            /\ now.kind = "DEPARTURE" => unidad[now.unidad].ops = "DISPONIBLE"
            /\ now.kind = "RETURN" => unidad[now.unidad].ops = "EN_RUTA")'
BY DEF Context, HistoryState

LEMMA NextReading == IInv /\ [Next]_vars => Reading'
<1> SUFFICES ASSUME IInv, [Next]_vars, NEW q \in Peticiones, pet'[q].op = "EXECUTE"
             PROVE  LET cmd == pet[q].cmd IN
                    (/\ pet[q].unidad = cmd.unidad
                     /\ cmd.ctx = Context(cmd.unidad)
                     /\ cmd.kind = "DEPARTURE" => unidad[cmd.unidad].ops = "DISPONIBLE"
                     /\ cmd.kind = "RETURN" => unidad[cmd.unidad].ops = "EN_RUTA")'
  BY DEF Reading, Executing
<1>1. ASSUME NEW p \in Peticiones, NEW cmd \in comandos, Execute(p, cmd), q = p
      PROVE  /\ pet'[q].unidad = cmd.unidad /\ pet'[q].cmd = cmd
             /\ cmd.unidad \in Unidades
             /\ cmd.ctx = Context(cmd.unidad)
             /\ cmd.kind = "DEPARTURE" => unidad[cmd.unidad].ops = "DISPONIBLE"
             /\ cmd.kind = "RETURN" => unidad[cmd.unidad].ops = "EN_RUTA"
             /\ unidad' = unidad
  <2>1. cmd.unidad \in Unidades
    BY DEF IInv, TypeOK, Comandos
  <2>2. pet'[q].unidad = cmd.unidad /\ pet'[q].cmd = cmd
    BY <1>1 DEF Execute, Begin, IInv, TypeOK
  <2>3. /\ cmd.kind = "DEPARTURE" => unidad[cmd.unidad].ops = "DISPONIBLE"
        /\ cmd.kind = "RETURN" => unidad[cmd.unidad].ops = "EN_RUTA"
    BY <1>1 DEF Execute, Departs, Returns, HistoryState
  <2> QED
    BY <1>1, <2>1, <2>2, <2>3 DEF Execute, Current
<1>2. ASSUME pet'[q] = pet[q]
      PROVE  /\ pet'[q].unidad = pet[q].cmd.unidad /\ pet'[q].cmd = pet[q].cmd
             /\ pet[q].cmd.unidad \in Unidades
             /\ pet[q].cmd.ctx = Context(pet[q].cmd.unidad)
             /\ pet[q].cmd.kind = "DEPARTURE" =>
                  unidad[pet[q].cmd.unidad].ops = "DISPONIBLE"
             /\ pet[q].cmd.kind = "RETURN" => unidad[pet[q].cmd.unidad].ops = "EN_RUTA"
  BY <1>2, RequestRow DEF Executing, IInv, Reading, Comandos
<1>3. ASSUME pet'[q] = pet[q], NEW u \in Unidades, u = pet[q].cmd.unidad
      PROVE  Context(u)' = Context(u) /\ unidad'[u].ops = unidad[u].ops
  <2>1. CASE Quiet
    BY <2>1, QuietFrame DEF Quiet
  <2>2. ASSUME NEW cmd \in Comandos, NEW w \in Unidades, NEW v \in Viajes, Commit(cmd, w, v)
        PROVE  Context(u)' = Context(u) /\ unidad'[u].ops = unidad[u].ops
    <3>1. PICK p \in Peticiones : pet[p].unidad = w /\ Finish(p)
      BY <2>2 DEF Commit
    <3>2. pet'[p].op = "IDLE"
      BY <3>1 DEF Finish, Idle, IInv, TypeOK
    <3>3. p # q /\ w # NULL
      BY <3>2, JourneysAssumption
    <3>4. u # w
      BY <1>2, <1>3, <3>1, <3>3 DEF IInv, Locks
    <3> QED
      BY <2>2, <3>4, CommitFrame DEF Commit
  <2> QED
    BY <2>1, <2>2, ThreeCases DEF Departed, Returned
<1>4. CASE pet'[q] = pet[q]
  <2>0. PICK cmd : cmd = pet[q].cmd
    OBVIOUS
  <2>1. PICK u \in Unidades : u = cmd.unidad
    BY <1>2, <1>4, <2>0
  <2>2. Context(u)' = Context(u) /\ unidad'[u].ops = unidad[u].ops
    BY <1>3, <1>4, <2>0, <2>1
  <2>3. unidad[u] \in UnidadRow
    BY DEF IInv, TypeOK
  <2> QED
    BY <1>2, <1>4, <2>0, <2>1, <2>2, <2>3, ReadKept
<1>5. ASSUME NEW p \in Peticiones, NEW cmd \in comandos, Execute(p, cmd), q = p
      PROVE  LET now == pet[q].cmd IN
             (/\ pet[q].unidad = now.unidad
              /\ now.ctx = Context(now.unidad)
              /\ now.kind = "DEPARTURE" => unidad[now.unidad].ops = "DISPONIBLE"
              /\ now.kind = "RETURN" => unidad[now.unidad].ops = "EN_RUTA")'
  <2>1. PICK u \in Unidades : u = cmd.unidad
    BY <1>1, <1>5
  <2>2. unidad[u] \in UnidadRow
    BY DEF IInv, TypeOK
  <2>3. Context(u)' = Context(u)
    BY <1>5, <2>1 DEF Execute, Context, HistoryState
  <2> QED
    BY <1>1, <1>5, <2>1, <2>2, <2>3, ReadKept
<1>6. ASSUME NEW p \in Peticiones, NEW cmd \in comandos, Execute(p, cmd), q # p
      PROVE  pet'[q] = pet[q]
  BY <1>6 DEF Execute, Begin, IInv, TypeOK
<1> QED
  BY <1>4, <1>5, <1>6, OnlyExecute

LEMMA NextIInv == IInv /\ [Next]_vars => IInv'
BY NextTypeOK, NextReading, NextLocks, NextPointers, NextConsistent DEF IInv

LEMMA Invariance == Spec => []IInv
BY InitIInv, NextIInv, PTL DEF Spec

(* The conflict of describe is never met: a unit and its journeys agree.   *)
THEOREM NeverContradictory == Spec => []Consistent
<1>1. IInv => Consistent
  BY DEF IInv
<1> QED
  BY <1>1, Invariance, PTL

-----------------------------------------------------------------------------
LEMMA NextDriverOnce ==
    ASSUME IInv, DriverOnce, [Next]_vars
    PROVE  DriverOnce'
<1>a. unidad' = unidad => DriverOnce'
  BY DEF DriverOnce
<1>b. ASSUME NEW u \in Unidades,
             \A w \in Unidades \ {u} : unidad'[w].chofer = unidad[w].chofer,
             unidad'[u].chofer \in {NULL, unidad[u].chofer} \/ DriverFree(unidad'[u].chofer, u)
      PROVE  DriverOnce'
  BY <1>b DEF DriverOnce, DriverFree
<1>1. ASSUME NEW p \in Peticiones, NEW v \in Viajes, CommitDeparture(p, v)
      PROVE  DriverOnce'
  <2> DEFINE cmd == pet[p].cmd
             u == cmd.unidad
             c == IF cmd.chofer = NULL THEN unidad[u].chofer ELSE cmd.chofer
  <2>1. unidad' = [unidad EXCEPT ![u] = [ops |-> "EN_RUTA", chofer |-> c,
                                         viaje |-> v, rev |-> @.rev + 1]]
    BY <1>1 DEF CommitDeparture
  <2>2. u \in Unidades
    BY <1>1, DepartureWrites
  <2> HIDE DEF u, c
  <2>3. unidad'[u].chofer = c
    BY <2>1, <2>2 DEF IInv, TypeOK
  <2>4. \A w \in Unidades \ {u} : unidad'[w].chofer = unidad[w].chofer
    BY <2>1, <2>2 DEF IInv, TypeOK
  <2>5. c = unidad[u].chofer \/ DriverFree(c, u)
    BY <1>1 DEF c, u, CommitDeparture, Committable
  <2> QED
    BY <1>b, <2>2, <2>3, <2>4, <2>5
<1>2. ASSUME NEW p \in Peticiones, NEW v \in Viajes, CommitReturn(p, v)
      PROVE  DriverOnce'
  <2>1. PICK u \in Unidades : u = pet[p].cmd.unidad
    BY <1>2, ReturnWrites
  <2>2. Returned(pet[p].cmd, u, v)
    BY <1>2, <2>1, ReturnWrites
  <2>3. unidad'[u].chofer = unidad[u].chofer
    BY <2>2 DEF Returned
  <2>4. \A w \in Unidades \ {u} : unidad'[w] = unidad[w]
    BY <2>2 DEF Returned, Commit
  <2> QED
    BY <2>3, <2>4 DEF DriverOnce
<1>3. ASSUME NEW p \in Peticiones, CommitAssign(p)
      PROVE  DriverOnce'
  <2>1. PICK u \in Unidades : u = pet[p].unidad
    BY <1>3, RequestRow DEF CommitAssign, IInv
  <2>2. /\ \A w \in Unidades \ {u} : unidad'[w].chofer = unidad[w].chofer
        /\ unidad'[u].chofer = pet[p].chofer
    BY <1>3, <2>1 DEF CommitAssign, IInv, TypeOK, UnidadRow
  <2> QED
    BY <1>3, <1>b, <2>1, <2>2 DEF CommitAssign
<1>4. ASSUME NEW u \in Unidades, Unassign(u)
      PROVE  DriverOnce'
  <2>1. /\ \A w \in Unidades \ {u} : unidad'[w].chofer = unidad[w].chofer
        /\ unidad'[u].chofer = NULL
    BY <1>4 DEF Unassign, IInv, TypeOK, UnidadRow
  <2> QED
    BY <1>b, <2>1
<1> QED
  BY <1>a, <1>1, <1>2, <1>3, <1>4
  DEF Next, vars, Freeze, Execute, Replay, KeyTaken, Rollback, Assign,
      UpdateChofer, SaveChofer, Requisito, LateSave

(* No two units have one driver: both writers of chofer_id check the       *)
(* index at their commit, and a departure without a driver keeps its own.  *)
THEOREM DriversExclusive == Spec => []DriverOnce
<1>1. Init => DriverOnce
  BY DEF Init, DriverOnce
<1> QED
  BY <1>1, NextDriverOnce, Invariance, PTL DEF Spec

LEMMA NextHistory ==
    ASSUME IInv, [Next]_vars
    PROVE  HistoryStep
<1>1. CASE Quiet
  BY <1>1 DEF Quiet, HistoryStep
<1>2. ASSUME NEW cmd \in Comandos, NEW w \in Unidades, NEW x \in Viajes, Departed(cmd, w, x)
      PROVE  HistoryStep
  <2>1. \A v \in Viajes : viaje[v].estado # "FREE" => viaje'[v] = viaje[v]
    BY <1>2 DEF Departed, Commit
  <2>2. \A u \in Unidades : unidad'[u].ops # unidad[u].ops =>
          unidad'[u].rev = unidad[u].rev + 1 /\ unidad[u].viaje = NULL
    BY <1>2 DEF Departed, Commit
  <2> QED
    BY <2>1, <2>2 DEF HistoryStep
<1>3. ASSUME NEW cmd \in Comandos, NEW w \in Unidades, NEW x \in Viajes, Returned(cmd, w, x)
      PROVE  HistoryStep
  <2>1. \A v \in Viajes : viaje[v].estado # "FREE" =>
          \/ viaje'[v] = viaje[v]
          \/ /\ viaje[v].estado = "OPEN"
             /\ viaje'[v] = [viaje[v] EXCEPT !.estado = "CLOSED", !.cierre = cmd.key]
    BY <1>3 DEF Returned, Commit
  <2>2. \A u \in Unidades : unidad'[u].ops # unidad[u].ops =>
          /\ unidad'[u].rev = unidad[u].rev + 1
          /\ unidad[u].viaje # NULL => viaje'[unidad[u].viaje].estado = "CLOSED"
    <3>1. \A u \in Unidades \ {w} : unidad'[u].ops = unidad[u].ops
      BY <1>3 DEF Returned, Commit
    <3>2. unidad'[w].rev = unidad[w].rev + 1
      BY <1>3 DEF Returned, Commit
    <3>3. unidad[w].viaje # NULL => viaje'[unidad[w].viaje].estado = "CLOSED"
      BY <1>3 DEF Returned
    <3> QED
      BY <3>1, <3>2, <3>3
  <2>3. \A v \in Viajes : viaje[v] \in ViajeRow
    BY DEF IInv, TypeOK
  <2>4. ASSUME NEW v \in Viajes, viaje[v].estado # "FREE"
        PROVE  /\ viaje'[v].unidad = viaje[v].unidad
               /\ viaje'[v].origin = viaje[v].origin
               /\ viaje'[v].chofer = viaje[v].chofer
               /\ viaje[v].estado = "CLOSED" => viaje'[v] = viaje[v]
    BY <2>1, <2>3, <2>4, ZenonT(60) DEF ViajeRow
  <2> QED
    BY <2>2, <2>4 DEF HistoryStep
<1> QED
  BY <1>1, <1>2, <1>3, ThreeCases

(* History is only added to: execute writes a new journey or closes the    *)
(* open one, and advances the revision of the unit with its state.         *)
THEOREM HistoryKept == Spec => HistoryAppendOnly
BY NextHistory, Invariance, PTL DEF Spec, HistoryAppendOnly

-----------------------------------------------------------------------------
(* The receipts: what was received was frozen against an earlier revision, *)
(* every revision was left by one command, the last one says where the     *)
(* unit is, and the journey of each is of its unit and, for a return,      *)
(* closed by it.                                                           *)
Revisions ==
    \A u \in Unidades :
        /\ \A n \in Nat :
             (n < unidad[u].rev)
                 <=> \E k \in Llaves : Received(k, u) /\ recibo[k].cmd.ctx.rev = n
        /\ \A k, l \in Llaves :
             /\ Received(k, u)
             /\ Received(l, u)
             /\ recibo[k].cmd.ctx.rev = recibo[l].cmd.ctx.rev
             => k = l

Last ==
    \A u \in Unidades, k \in Llaves :
        Received(k, u) /\ unidad[u].rev = recibo[k].cmd.ctx.rev + 1 =>
            /\ recibo[k].cmd.kind = "DEPARTURE" =>
                 unidad[u].ops = "EN_RUTA" /\ unidad[u].viaje = recibo[k].viaje
            /\ recibo[k].cmd.kind = "RETURN" => unidad[u].ops = "DISPONIBLE"

Effect ==
    \A k \in Llaves : recibo[k] # NULL =>
        /\ recibo[k].cmd.key = k
        /\ viaje[recibo[k].viaje].estado # "FREE"
        /\ viaje[recibo[k].viaje].unidad = recibo[k].cmd.unidad
        /\ recibo[k].cmd.kind = "RETURN" =>
             /\ viaje[recibo[k].viaje].estado = "CLOSED"
             /\ viaje[recibo[k].viaje].cierre = k

RInv == IInv /\ Revisions /\ Last /\ Effect /\ ReturnsItsDeparture

LEMMA ReceiptRow ==
    ASSUME TypeOK, NEW k \in Llaves, recibo[k] # NULL
    PROVE  /\ recibo[k] \in Recibo /\ recibo[k].viaje \in Viajes
           /\ recibo[k].cmd \in Comandos /\ recibo[k].cmd.unidad \in Unidades
           /\ recibo[k].cmd.kind \in {"DEPARTURE", "RETURN"}
           /\ recibo[k].cmd.ctx.rev \in Nat
<1>1. recibo[k] \in Recibo
  BY DEF TypeOK
<1> QED
  BY <1>1 DEF Recibo, Comandos, Contexts

(* A commit adds one receipt and keeps the others. *)
LEMMA ReceiptAdded ==
    ASSUME IInv, NEW cmd \in Comandos, NEW u \in Unidades, NEW v \in Viajes, Commit(cmd, u, v)
    PROVE  /\ recibo'[cmd.key] # NULL
           /\ recibo'[cmd.key].cmd = cmd /\ recibo'[cmd.key].viaje = v
           /\ \A k \in Llaves \ {cmd.key} : recibo'[k] = recibo[k]
           /\ \A w \in Unidades : Received(cmd.key, w)' <=> w = u
           /\ \A w \in Unidades, k \in Llaves \ {cmd.key} : Received(k, w)' <=> Received(k, w)
           /\ \A w \in Unidades : ~Received(cmd.key, w)
<1>1. /\ recibo'[cmd.key] = [cmd |-> cmd, viaje |-> v]
      /\ \A k \in Llaves \ {cmd.key} : recibo'[k] = recibo[k]
  BY DEF Commit, IInv, TypeOK
<1>2. [cmd |-> cmd, viaje |-> v] \in Recibo
  BY DEF Recibo
<1>3. recibo'[cmd.key] # NULL
  BY <1>1, <1>2, JourneysAssumption
<1> QED
  BY <1>1, <1>3 DEF Received, Commit

LEMMA NextRevisions ==
    ASSUME RInv, [Next]_vars
    PROVE  Revisions'
<1>1. CASE Quiet
  BY <1>1 DEF Quiet, RInv, Revisions, Received
<1>2. ASSUME NEW cmd \in Comandos, NEW u \in Unidades, NEW v \in Viajes, Commit(cmd, u, v)
      PROVE  Revisions'
  <2> DEFINE key == cmd.key
             at(k) == recibo[k].cmd.ctx.rev
  <2>1. key \in Llaves /\ cmd.ctx.rev = unidad[u].rev /\ unidad'[u].rev = unidad[u].rev + 1
    BY <1>2 DEF Commit
  <2>2. unidad[u].rev \in Nat
    BY DEF RInv, IInv, TypeOK, UnidadRow
  <2>3. recibo'[key].cmd.ctx.rev = unidad[u].rev
    BY <1>2, <2>1, ReceiptAdded DEF RInv
  <2>4. \A k \in Llaves : Received(k, u) => at(k) < unidad[u].rev /\ at(k) \in Nat
    BY ReceiptRow DEF RInv, IInv, Revisions, Received
  <2>5. ASSUME NEW w \in Unidades, w # u
        PROVE  /\ \A n \in Nat :
                    (n < unidad'[w].rev)
                      <=> \E k \in Llaves : Received(k, w)' /\ recibo'[k].cmd.ctx.rev = n
               /\ \A k, l \in Llaves :
                    /\ Received(k, w)' /\ Received(l, w)'
                    /\ recibo'[k].cmd.ctx.rev = recibo'[l].cmd.ctx.rev
                    => k = l
    <3>1. unidad'[w] = unidad[w]
      BY <1>2, <2>5 DEF Commit
    <3>2. \A k \in Llaves : /\ Received(k, w)' <=> Received(k, w)
                            /\ Received(k, w) => recibo'[k] = recibo[k]
      BY <1>2, <2>5, ReceiptAdded DEF RInv
    <3> QED
      BY <3>1, <3>2 DEF RInv, Revisions
  <2>6. \A n \in Nat :
          (n < unidad'[u].rev)
            <=> \E k \in Llaves : Received(k, u)' /\ recibo'[k].cmd.ctx.rev = n
    <3>1. TAKE n \in Nat
    <3>2. ASSUME n < unidad[u].rev
          PROVE  \E k \in Llaves : Received(k, u)' /\ recibo'[k].cmd.ctx.rev = n
      <4>1. PICK k \in Llaves : Received(k, u) /\ at(k) = n
        BY <3>2 DEF RInv, Revisions
      <4> QED
        BY <1>2, <4>1, ReceiptAdded DEF RInv
    <3>3. ASSUME n = unidad[u].rev
          PROVE  \E k \in Llaves : Received(k, u)' /\ recibo'[k].cmd.ctx.rev = n
      BY <1>2, <2>1, <2>3, <3>3, ReceiptAdded DEF RInv
    <3>4. ASSUME NEW k \in Llaves, Received(k, u)', recibo'[k].cmd.ctx.rev = n
          PROVE  n < unidad[u].rev + 1
      <4>1. CASE k = key
        BY <2>2, <2>3, <3>4, <4>1
      <4>2. CASE k # key
        <5>1. Received(k, u) /\ at(k) = n
          BY <1>2, <3>4, <4>2, ReceiptAdded DEF RInv
        <5> QED
          BY <2>2, <2>4, <5>1
      <4> QED
        BY <4>1, <4>2
    <3> QED
      BY <2>1, <2>2, <3>2, <3>3, <3>4
  <2>7. \A k, l \in Llaves :
          /\ Received(k, u)' /\ Received(l, u)'
          /\ recibo'[k].cmd.ctx.rev = recibo'[l].cmd.ctx.rev
          => k = l
    <3>1. ASSUME NEW k \in Llaves, Received(k, u)', k # key
          PROVE  Received(k, u) /\ recibo'[k].cmd.ctx.rev = at(k) /\ at(k) # unidad[u].rev
      <4>1. Received(k, u) /\ recibo'[k] = recibo[k]
        BY <1>2, <3>1, ReceiptAdded DEF RInv
      <4> QED
        BY <2>2, <2>4, <4>1
    <3> QED
      BY <2>3, <3>1 DEF RInv, Revisions
  <2> QED
    BY <2>5, <2>6, <2>7 DEF Revisions
<1> QED
  BY <1>1, <1>2, ThreeCases DEF RInv, Departed, Returned

LEMMA NextEffect ==
    ASSUME RInv, [Next]_vars
    PROVE  Effect'
<1>1. CASE Quiet
  BY <1>1 DEF Quiet, RInv, Effect
<1>2. ASSUME NEW cmd \in Comandos, NEW u \in Unidades, NEW v \in Viajes, Commit(cmd, u, v),
             viaje'[v].estado # "FREE",
             cmd.kind = "RETURN" => viaje'[v].estado = "CLOSED" /\ viaje'[v].cierre = cmd.key,
             viaje[v].estado # "CLOSED"
      PROVE  Effect'
  <2> SUFFICES ASSUME NEW k \in Llaves, recibo'[k] # NULL
               PROVE  /\ recibo'[k].cmd.key = k
                      /\ viaje'[recibo'[k].viaje].estado # "FREE"
                      /\ viaje'[recibo'[k].viaje].unidad = recibo'[k].cmd.unidad
                      /\ recibo'[k].cmd.kind = "RETURN" =>
                           /\ viaje'[recibo'[k].viaje].estado = "CLOSED"
                           /\ viaje'[recibo'[k].viaje].cierre = k
    BY DEF Effect
  <2>1. CASE k = cmd.key
    <3>1. recibo'[k].cmd = cmd /\ recibo'[k].viaje = v
      BY <1>2, <2>1, ReceiptAdded DEF RInv
    <3> QED
      BY <1>2, <2>1, <3>1 DEF Commit
  <2>2. CASE k # cmd.key
    <3>1. recibo'[k] = recibo[k] /\ recibo[k] # NULL
      BY <1>2, <2>2, ReceiptAdded DEF RInv
    <3>2. /\ recibo[k].cmd.key = k
          /\ viaje[recibo[k].viaje].estado # "FREE"
          /\ viaje[recibo[k].viaje].unidad = recibo[k].cmd.unidad
          /\ recibo[k].cmd.kind = "RETURN" =>
               /\ viaje[recibo[k].viaje].estado = "CLOSED"
               /\ viaje[recibo[k].viaje].cierre = k
      BY <3>1 DEF RInv, Effect
    <3>3. recibo[k].viaje \in Viajes
      BY <3>1, ReceiptRow DEF RInv, IInv
    <3>4. CASE recibo[k].viaje = v
      <4>1. recibo[k].cmd.kind # "RETURN"
        BY <1>2, <3>2, <3>4
      <4>2. viaje[v].unidad = u /\ viaje'[v].unidad = u
        BY <1>2, <3>2, <3>4 DEF Commit
      <4> QED
        BY <1>2, <3>1, <3>2, <3>4, <4>1, <4>2
    <3>5. CASE recibo[k].viaje # v
      <4>1. viaje'[recibo[k].viaje] = viaje[recibo[k].viaje]
        BY <1>2, <3>3, <3>5 DEF Commit
      <4> QED
        BY <3>1, <3>2, <4>1
    <3> QED
      BY <3>4, <3>5
  <2> QED
    BY <2>1, <2>2
<1>3. ASSUME NEW cmd \in Comandos, NEW u \in Unidades, NEW v \in Viajes, Departed(cmd, u, v)
      PROVE  Effect'
  BY <1>2, <1>3 DEF Departed
<1>4. ASSUME NEW cmd \in Comandos, NEW u \in Unidades, NEW v \in Viajes, Returned(cmd, u, v)
      PROVE  Effect'
  BY <1>2, <1>4, ZenonT(60) DEF Returned, Commit
<1> QED
  BY <1>1, <1>3, <1>4, ThreeCases DEF RInv

LEMMA NextLast ==
    ASSUME RInv, [Next]_vars
    PROVE  Last'
<1> SUFFICES ASSUME NEW w \in Unidades, NEW k \in Llaves, Received(k, w)',
                    unidad'[w].rev = recibo'[k].cmd.ctx.rev + 1
             PROVE  /\ recibo'[k].cmd.kind = "DEPARTURE" =>
                         unidad'[w].ops = "EN_RUTA" /\ unidad'[w].viaje = recibo'[k].viaje
                    /\ recibo'[k].cmd.kind = "RETURN" => unidad'[w].ops = "DISPONIBLE"
  BY DEF Last
<1>1. CASE Quiet
  BY <1>1 DEF Quiet, RInv, Last, Received
<1>2. ASSUME NEW cmd \in Comandos, NEW u \in Unidades, NEW v \in Viajes, Commit(cmd, u, v)
      PROVE  \/ k = cmd.key /\ w = u /\ recibo'[k].cmd = cmd /\ recibo'[k].viaje = v
             \/ /\ w # u /\ Received(k, w)
                /\ unidad'[w] = unidad[w] /\ recibo'[k] = recibo[k]
  <2>1. CASE k = cmd.key
    BY <1>2, <2>1, ReceiptAdded DEF RInv
  <2>2. CASE k # cmd.key
    <3>1. Received(k, w) /\ recibo'[k] = recibo[k]
      BY <1>2, <2>2, ReceiptAdded DEF RInv
    <3>2. recibo[k].cmd.ctx.rev \in Nat /\ recibo[k].cmd.ctx.rev < unidad[w].rev
      BY <3>1, ReceiptRow DEF RInv, IInv, Revisions, Received
    <3>3. unidad[w].rev \in Nat
      BY DEF RInv, IInv, TypeOK, UnidadRow
    <3>4. w # u
      BY <1>2, <3>1, <3>2, <3>3 DEF Commit
    <3> QED
      BY <1>2, <3>1, <3>4 DEF Commit
  <2> QED
    BY <2>1, <2>2
<1>3. ASSUME NEW cmd \in Comandos, NEW u \in Unidades, NEW v \in Viajes, Departed(cmd, u, v)
      PROVE  /\ recibo'[k].cmd.kind = "DEPARTURE" =>
                   unidad'[w].ops = "EN_RUTA" /\ unidad'[w].viaje = recibo'[k].viaje
             /\ recibo'[k].cmd.kind = "RETURN" => unidad'[w].ops = "DISPONIBLE"
  BY <1>2, <1>3 DEF Departed, RInv, Last
<1>4. ASSUME NEW cmd \in Comandos, NEW u \in Unidades, NEW v \in Viajes, Returned(cmd, u, v)
      PROVE  /\ recibo'[k].cmd.kind = "DEPARTURE" =>
                   unidad'[w].ops = "EN_RUTA" /\ unidad'[w].viaje = recibo'[k].viaje
             /\ recibo'[k].cmd.kind = "RETURN" => unidad'[w].ops = "DISPONIBLE"
  BY <1>2, <1>4 DEF Returned, RInv, Last
<1> QED
  BY <1>1, <1>3, <1>4, ThreeCases DEF RInv

LEMMA NextReturns ==
    ASSUME RInv, [Next]_vars
    PROVE  ReturnsItsDeparture'
<1>1. CASE Quiet
  BY <1>1 DEF Quiet, RInv, ReturnsItsDeparture, Received
<1>2. ASSUME NEW cmd \in Comandos, NEW u \in Unidades, NEW v \in Viajes, Commit(cmd, u, v),
             \A k \in Llaves : Received(k, u) /\ unidad[u].rev = recibo[k].cmd.ctx.rev + 1
               => /\ recibo[k].cmd.kind # cmd.kind
                  /\ cmd.kind = "RETURN" => v = recibo[k].viaje
                  /\ cmd.kind = "DEPARTURE" => v # recibo[k].viaje
      PROVE  ReturnsItsDeparture'
  <2> SUFFICES ASSUME NEW w \in Unidades, NEW k \in Llaves, NEW l \in Llaves,
                      Received(k, w)', Received(l, w)',
                      recibo'[l].cmd.ctx.rev = recibo'[k].cmd.ctx.rev + 1
               PROVE  /\ recibo'[k].cmd.kind # recibo'[l].cmd.kind
                      /\ recibo'[l].cmd.kind = "RETURN" => recibo'[l].viaje = recibo'[k].viaje
                      /\ recibo'[l].cmd.kind = "DEPARTURE" => recibo'[l].viaje # recibo'[k].viaje
    BY DEF ReturnsItsDeparture
  <2>0. unidad[u].rev \in Nat
    BY DEF RInv, IInv, TypeOK, UnidadRow
  <2>a. cmd.ctx.rev = unidad[u].rev
    BY <1>2 DEF Commit
  <2>1. /\ recibo'[cmd.key].cmd = cmd /\ recibo'[cmd.key].viaje = v
        /\ cmd.ctx.rev = unidad[u].rev
    BY <1>2, <2>a, ReceiptAdded DEF RInv
  <2>2. \A x \in Llaves \ {cmd.key} : Received(x, w)' => Received(x, w) /\ recibo'[x] = recibo[x]
    BY <1>2, ReceiptAdded DEF RInv
  <2>3. \A x \in Llaves : Received(x, w) =>
          recibo[x].cmd.ctx.rev \in Nat /\ recibo[x].cmd.ctx.rev < unidad[w].rev
    BY ReceiptRow DEF RInv, IInv, Revisions, Received
  <2>4. Received(cmd.key, w)' => w = u
    BY <1>2, ReceiptAdded DEF RInv
  <2>5. CASE k # cmd.key /\ l # cmd.key
    BY <2>2, <2>5 DEF RInv, ReturnsItsDeparture
  <2>6. CASE k # cmd.key /\ l = cmd.key
    <3>1. w = u /\ Received(k, u) /\ recibo'[k] = recibo[k]
      BY <2>2, <2>4, <2>6
    <3>2. unidad[u].rev = recibo[k].cmd.ctx.rev + 1
      BY <2>1, <2>6, <3>1
    <3> QED
      BY <1>2, <2>1, <2>6, <3>1, <3>2
  <2>7. k # cmd.key
    <3>1. SUFFICES ASSUME k = cmd.key PROVE FALSE
      OBVIOUS
    <3>2. w = u /\ recibo'[l].cmd.ctx.rev = unidad[u].rev + 1
      BY <2>1, <2>4, <3>1
    <3>3. l # cmd.key
      BY <2>0, <2>1, <3>2
    <3>4. Received(l, u) /\ recibo'[l] = recibo[l]
      BY <2>2, <3>2, <3>3
    <3> QED
      BY <2>0, <2>3, <3>2, <3>4
  <2> QED
    BY <2>5, <2>6, <2>7
<1>3. \A k \in Llaves, u \in Unidades : Received(k, u) =>
        /\ recibo[k].cmd.kind \in {"DEPARTURE", "RETURN"}
        /\ recibo[k].viaje \in Viajes
        /\ viaje[recibo[k].viaje].estado # "FREE"
  BY ReceiptRow DEF RInv, IInv, Effect, Received
<1>4. ASSUME NEW cmd \in Comandos, NEW u \in Unidades, NEW v \in Viajes, Departed(cmd, u, v)
      PROVE  ReturnsItsDeparture'
  BY <1>2, <1>3, <1>4 DEF Departed, RInv, Last
<1>5. ASSUME NEW cmd \in Comandos, NEW u \in Unidades, NEW v \in Viajes, Returned(cmd, u, v)
      PROVE  ReturnsItsDeparture'
  <2>1. \A k \in Llaves : Received(k, u) /\ unidad[u].rev = recibo[k].cmd.ctx.rev + 1
          => recibo[k].cmd.kind = "DEPARTURE" /\ v = recibo[k].viaje
    BY <1>3, <1>5, JourneysAssumption DEF Returned, RInv, Last
  <2> QED
    BY <1>2, <1>5, <2>1 DEF Returned
<1> QED
  BY <1>1, <1>4, <1>5, ThreeCases DEF RInv

LEMMA InitRInv == Init => RInv
<1> SUFFICES ASSUME Init PROVE RInv
  OBVIOUS
<1>1. \A k \in Llaves : recibo[k] = NULL
  BY DEF Init
<1>2. \A u \in Unidades : unidad[u].rev = 0
  BY DEF Init
<1>3. \A u \in Unidades, k \in Llaves : ~Received(k, u)
  BY <1>1 DEF Received
<1>4. Revisions
  BY <1>2, <1>3 DEF Revisions
<1> QED
  BY <1>1, <1>3, <1>4, InitIInv DEF RInv, Last, Effect, ReturnsItsDeparture

LEMMA NextRInv == RInv /\ [Next]_vars => RInv'
BY NextIInv, NextRevisions, NextLast, NextEffect, NextReturns DEF RInv

LEMMA ReceiptsInvariance == Spec => []RInv
BY InitRInv, NextRInv, PTL DEF Spec

(* The revision of a unit counts its receipts, for any number of them.     *)
THEOREM LedgerKept == Spec => []Ledger
<1>1. RInv => Ledger
  <2>1. \A n \in 0..(MaxRev - 1) : n \in Nat
    OBVIOUS
  <2> QED
    BY <2>1 DEF RInv, Revisions, Ledger
<1> QED
  BY <1>1, ReceiptsInvariance, PTL

(* A return closes the journey of the departure just before it.            *)
THEOREM ReturnsMatched == Spec => []ReturnsItsDeparture
<1>1. RInv => ReturnsItsDeparture
  BY DEF RInv
<1> QED
  BY <1>1, ReceiptsInvariance, PTL

(* What was answered 204 is what its key holds: the answer comes from the  *)
(* commit that wrote the receipt or from a receipt that was read.          *)
Answered == \A cmd \in acked : recibo[cmd.key] # NULL /\ recibo[cmd.key].cmd = cmd

LEMMA NextAnswered ==
    ASSUME RInv, Answered, [Next]_vars
    PROVE  Answered'
<1>1. CASE acked' = acked /\ recibo' = recibo
  BY <1>1 DEF Answered
<1>2. ASSUME NEW cmd \in comandos, Replay(cmd)
      PROVE  Answered'
  BY <1>2 DEF Replay, Answered
<1>3. ASSUME NEW p \in Peticiones, KeyTaken(p)
      PROVE  Answered'
  BY <1>3 DEF KeyTaken, Answered
<1>4. ASSUME NEW cmd \in Comandos, NEW u \in Unidades, NEW v \in Viajes, Commit(cmd, u, v)
      PROVE  Answered'
  <2>1. acked \subseteq Comandos /\ \A c \in Comandos : c.key \in Llaves
    BY DEF RInv, IInv, TypeOK, Comandos
  <2>2. \A c \in acked : c.key # cmd.key
    BY <1>4 DEF Commit, Answered
  <2>3. \A c \in acked : recibo'[c.key] = recibo[c.key]
    BY <1>4, <2>1, <2>2, ReceiptAdded DEF RInv
  <2>4. recibo'[cmd.key] # NULL /\ recibo'[cmd.key].cmd = cmd
    BY <1>4, ReceiptAdded DEF RInv
  <2> QED
    BY <1>4, <2>3, <2>4 DEF Commit, Answered
<1>5. \/ acked' = acked /\ recibo' = recibo
      \/ \E cmd \in comandos : Replay(cmd)
      \/ \E p \in Peticiones : KeyTaken(p)
      \/ \E p \in Peticiones, v \in Viajes : CommitDeparture(p, v)
      \/ \E p \in Peticiones, v \in Viajes : CommitReturn(p, v)
  BY DEF Next, vars, Freeze, Execute, Rollback, Assign, CommitAssign, Unassign,
         UpdateChofer, SaveChofer, Requisito, LateSave
<1> QED
  BY <1>1, <1>2, <1>3, <1>4, <1>5, DepartureWrites, ReturnWrites
  DEF RInv, Departed, Returned

(* What execute answered 204 took effect, at the commit or at the one it   *)
(* repeats, and its journey still says so.                                 *)
THEOREM AcknowledgedIsDone == Spec => []AckedTookEffect
<1>1. Init => Answered
  BY DEF Init, Answered
<1>2. RInv /\ Answered => AckedTookEffect
  <2>1. TypeOK => acked \subseteq Comandos /\ \A c \in Comandos : c.key \in Llaves
    BY DEF TypeOK, Comandos
  <2> QED
    BY <2>1 DEF RInv, IInv, Effect, Answered, AckedTookEffect
<1> QED
  BY <1>1, <1>2, NextAnswered, ReceiptsInvariance, PTL DEF Spec

-----------------------------------------------------------------------------
(* A departure that has been authorized stays so until it commits, but for *)
(* the orders that late saves reactivate: they do not wait for the lock.   *)
Eligible ==
    \A p \in Peticiones :
        Executing(p) /\ pet[p].cmd.kind = "DEPARTURE"
            => faltan[pet[p].cmd.unidad] \subseteq {"REACTIVATED_ORDER"}

LEMMA NextEligible ==
    ASSUME IInv, Eligible, [Next]_vars
    PROVE  Eligible'
<1>1. ASSUME NEW p \in Peticiones, NEW cmd \in comandos, Execute(p, cmd)
      PROVE  Eligible'
  <2>1. \A q \in Peticiones \ {p} : pet'[q] = pet[q]
    BY <1>1 DEF Execute, Begin, IInv, TypeOK
  <2>2. pet'[p].cmd = cmd
    BY <1>1 DEF Execute, Begin, IInv, TypeOK
  <2>3. faltan' = faltan /\ (cmd.kind = "DEPARTURE" => faltan[cmd.unidad] = {})
    BY <1>1 DEF Execute, Departs, Returns, Authorized
  <2> QED
    BY <2>1, <2>2, <2>3 DEF Eligible, Executing
<1>2. ASSUME \A q \in Peticiones : pet'[q].op = "EXECUTE" => pet'[q] = pet[q],
             faltan' = faltan
      PROVE  Eligible'
  BY <1>2 DEF Eligible, Executing
<1>3. ASSUME NEW u \in Unidades, NEW r \in Requisitos, Requisito(u, r)
      PROVE  Eligible'
  <2>1. pet' = pet /\ \A w \in Unidades \ {u} : faltan'[w] = faltan[w]
    BY <1>3 DEF Requisito, IInv, TypeOK
  <2>2. \A p \in Peticiones : Executing(p) =>
          pet[p].cmd.unidad \in Unidades /\ pet[p].cmd.unidad # u
    BY <1>3, RequestRow DEF Requisito, Locked, IInv, Reading
  <2> QED
    BY <2>1, <2>2 DEF Eligible, Executing
<1>4. ASSUME NEW u \in Unidades, LateSave(u)
      PROVE  Eligible'
  <2>1. pet' = pet /\ \A w \in Unidades :
          faltan'[w] \subseteq faltan[w] \cup {"REACTIVATED_ORDER"}
    BY <1>4 DEF LateSave, IInv, TypeOK
  <2>2. \A p \in Peticiones : Executing(p) => pet[p].cmd.unidad \in Unidades
    BY RequestRow DEF IInv, Reading
  <2> QED
    BY <2>1, <2>2 DEF Eligible, Executing
<1>5. \/ \E p \in Peticiones, cmd \in comandos : Execute(p, cmd)
      \/ \E u \in Unidades, r \in Requisitos : Requisito(u, r)
      \/ \E u \in Unidades : LateSave(u)
      \/ faltan' = faltan
  BY DEF Next, vars, Freeze, Replay, CommitDeparture, CommitReturn, KeyTaken, Rollback,
         Assign, CommitAssign, Unassign, UpdateChofer, SaveChofer
<1> QED
  BY <1>1, <1>2, <1>3, <1>4, <1>5, OnlyExecute

LEMMA NextLeavesEligible ==
    ASSUME IInv, Eligible, [Next]_vars
    PROVE  EligibleStep
<1>1. CASE Quiet
  BY <1>1 DEF Quiet, EligibleStep, Leaves
<1>2. ASSUME NEW p \in Peticiones, NEW v \in Viajes, CommitDeparture(p, v)
      PROVE  EligibleStep
  <2>1. Executing(p) /\ pet[p].cmd.kind = "DEPARTURE"
    BY <1>2 DEF CommitDeparture
  <2>2. faltan[pet[p].cmd.unidad] \subseteq {"REACTIVATED_ORDER"}
    BY <2>1 DEF Eligible
  <2>a. Departed(pet[p].cmd, pet[p].cmd.unidad, v)
    BY <1>2, DepartureWrites
  <2>3. \A w \in Unidades \ {pet[p].cmd.unidad} : unidad'[w] = unidad[w]
    BY <2>a DEF Departed, Commit
  <2> QED
    BY <2>2, <2>3 DEF EligibleStep, Leaves
<1>3. ASSUME NEW cmd, NEW u \in Unidades, NEW v \in Viajes, Returned(cmd, u, v)
      PROVE  EligibleStep
  <2>1. unidad'[u].ops = "DISPONIBLE"
    BY <1>3 DEF Returned
  <2>2. \A w \in Unidades \ {u} : unidad'[w] = unidad[w]
    BY <1>3 DEF Returned, Commit
  <2> QED
    BY <2>1, <2>2 DEF EligibleStep, Leaves
<1> QED
  BY <1>1, <1>2, <1>3, Steps, ReturnWrites DEF IInv

(* What authorize judged still holds when the departure commits, save an   *)
(* order that a late save has reactivated in between.                      *)
THEOREM EligibleWhenLeaving == Spec => LeavesUnblocked
<1>1. Init => Eligible
  BY DEF Init, Idle, Eligible, Executing
<1> QED
  BY <1>1, NextEligible, NextLeavesEligible, Invariance, PTL DEF Spec, LeavesUnblocked

-----------------------------------------------------------------------------
(* The diary of a unit, as the contract reads it off the receipts.         *)
Fuera == {u \in Unidades : unidad[u].ops = "EN_RUTA"}
Diario == [u \in Unidades |-> [n \in 1..unidad[u].rev |-> Entry(u, n)]]

Entries == [kind : {"DEPARTURE", "RETURN"}, llave : Llaves, viaje : Viajes]

(* Functions on 1..n as sequences. *)
LEMMA SequenceOf ==
    ASSUME NEW S, NEW n \in Nat, NEW f \in [1..n -> S]
    PROVE  f \in Seq(S) /\ Len(f) = n /\ (f = <<>> <=> n = 0)
<1>1. f \in Seq(S)
  BY SeqDef
<1>2. Len(f) = n
  BY <1>1, LenProperties
<1> QED
  BY <1>1, <1>2, EmptySeq

LEMMA SequenceGrows ==
    ASSUME NEW S, NEW n \in Nat, NEW f \in [1..n -> S], NEW g \in [1..(n + 1) -> S],
           \A i \in 1..n : g[i] = f[i]
    PROVE  g = Append(f, g[n + 1])
<1>1. f \in Seq(S) /\ g \in Seq(S) /\ Len(f) = n /\ Len(g) = n + 1
  BY SequenceOf
<1>2. /\ Append(f, g[n + 1]) \in Seq(S)
      /\ Len(Append(f, g[n + 1])) = n + 1
      /\ \A i \in 1..n : Append(f, g[n + 1])[i] = f[i]
      /\ Append(f, g[n + 1])[n + 1] = g[n + 1]
  BY <1>1, AppendProperties
<1> QED
  BY <1>1, <1>2, SeqEqual

(* The entry of a revision is the one receipt that left it.                *)
LEMMA EntryOfReceipt ==
    ASSUME Revisions, NEW u \in Unidades, NEW k \in Llaves, Received(k, u),
           recibo[k].cmd.ctx.rev \in Nat, NEW n, n = recibo[k].cmd.ctx.rev + 1
    PROVE  Entry(u, n) = [kind |-> recibo[k].cmd.kind, llave |-> k,
                          viaje |-> recibo[k].viaje]
<1> DEFINE P(l) == Received(l, u) /\ recibo[l].cmd.ctx.rev = n - 1
<1>1. P(k) /\ \A l \in Llaves : P(l) => l = k
  BY DEF Revisions
<1>2. (CHOOSE l \in Llaves : P(l)) = k
  BY <1>1
<1> QED
  BY <1>2 DEF Entry

LEMMA ReceiptOfEntry ==
    ASSUME RInv, NEW u \in Unidades, NEW n \in 1..unidad[u].rev
    PROVE  \E k \in Llaves :
             /\ Received(k, u) /\ recibo[k].cmd.ctx.rev = n - 1
             /\ Entry(u, n) = [kind |-> recibo[k].cmd.kind, llave |-> k,
                               viaje |-> recibo[k].viaje]
             /\ Entry(u, n) \in Entries
<1>1. unidad[u].rev \in Nat
  BY DEF RInv, IInv, TypeOK, UnidadRow
<1>2. n - 1 \in Nat /\ n - 1 < unidad[u].rev
  BY <1>1
<1>3. PICK k \in Llaves : Received(k, u) /\ recibo[k].cmd.ctx.rev = n - 1
  BY <1>2 DEF RInv, Revisions
<1>4. Entry(u, n) = [kind |-> recibo[k].cmd.kind, llave |-> k, viaje |-> recibo[k].viaje]
  BY <1>2, <1>3, EntryOfReceipt DEF RInv
<1>5. recibo[k].cmd.kind \in {"DEPARTURE", "RETURN"} /\ recibo[k].viaje \in Viajes
  BY <1>3, ReceiptRow DEF RInv, IInv, Received
<1> QED
  BY <1>3, <1>4, <1>5 DEF Entries

(* Each diary is a sequence of entries, one for each receipt of the unit.  *)
DiarioOK ==
    \A u \in Unidades :
        /\ unidad[u].rev \in Nat
        /\ Diario[u] \in [1..unidad[u].rev -> Entries]
        /\ \A k \in Llaves : Received(k, u) =>
             /\ recibo[k].cmd.ctx.rev + 1 \in 1..unidad[u].rev
             /\ Diario[u][recibo[k].cmd.ctx.rev + 1] =
                  [kind |-> recibo[k].cmd.kind, llave |-> k, viaje |-> recibo[k].viaje]
        /\ \A n \in 1..unidad[u].rev :
             \E k \in Llaves : Received(k, u) /\ n = recibo[k].cmd.ctx.rev + 1

LEMMA DiarioType == RInv => DiarioOK
<1> SUFFICES ASSUME RInv, NEW u \in Unidades
             PROVE  /\ unidad[u].rev \in Nat
                    /\ Diario[u] \in [1..unidad[u].rev -> Entries]
                    /\ \A k \in Llaves : Received(k, u) =>
                         /\ recibo[k].cmd.ctx.rev + 1 \in 1..unidad[u].rev
                         /\ Diario[u][recibo[k].cmd.ctx.rev + 1] =
                              [kind |-> recibo[k].cmd.kind, llave |-> k,
                               viaje |-> recibo[k].viaje]
                    /\ \A n \in 1..unidad[u].rev :
                         \E k \in Llaves : Received(k, u) /\ n = recibo[k].cmd.ctx.rev + 1
  BY DEF DiarioOK
<1>1. unidad[u].rev \in Nat
  BY DEF RInv, IInv, TypeOK, UnidadRow
<1>2. /\ Diario[u] \in [1..unidad[u].rev -> Entries]
      /\ \A n \in 1..unidad[u].rev : Diario[u][n] = Entry(u, n)
  BY ReceiptOfEntry DEF Diario
<1>3. ASSUME NEW k \in Llaves, Received(k, u)
      PROVE  /\ recibo[k].cmd.ctx.rev + 1 \in 1..unidad[u].rev
             /\ Entry(u, recibo[k].cmd.ctx.rev + 1) =
                  [kind |-> recibo[k].cmd.kind, llave |-> k, viaje |-> recibo[k].viaje]
  <2>1. recibo[k].cmd.ctx.rev \in Nat /\ recibo[k].cmd.ctx.rev < unidad[u].rev
    BY <1>3, ReceiptRow DEF RInv, IInv, Revisions, Received
  <2> QED
    BY <1>1, <1>3, <2>1, EntryOfReceipt DEF RInv
<1>4. ASSUME NEW n \in 1..unidad[u].rev
      PROVE  \E k \in Llaves : Received(k, u) /\ n = recibo[k].cmd.ctx.rev + 1
  <2>1. PICK k \in Llaves : Received(k, u) /\ recibo[k].cmd.ctx.rev = n - 1
    BY ReceiptOfEntry
  <2> QED
    BY <2>1
<1> QED
  BY <1>1, <1>2, <1>3, <1>4

LEMMA DiarioTypeNext == (RInv => DiarioOK)'
BY DiarioType, PTL

(* A step that writes no receipt of a unit leaves its diary alone.         *)
LEMMA DiarioKept ==
    ASSUME DiarioOK, DiarioOK', NEW u \in Unidades,
           unidad'[u].rev = unidad[u].rev,
           \A k \in Llaves : /\ Received(k, u)' <=> Received(k, u)
                             /\ Received(k, u) => recibo'[k] = recibo[k]
    PROVE  Diario'[u] = Diario[u]
<1>1. /\ Diario[u] \in [1..unidad[u].rev -> Entries]
      /\ Diario'[u] \in [1..unidad[u].rev -> Entries]
  BY DEF DiarioOK
<1>2. ASSUME NEW n \in 1..unidad[u].rev
      PROVE  Diario'[u][n] = Diario[u][n]
  <2>1. PICK k \in Llaves : Received(k, u) /\ n = recibo[k].cmd.ctx.rev + 1
    BY DEF DiarioOK
  <2>2. Received(k, u)' /\ recibo'[k] = recibo[k]
    BY <2>1
  <2>3. Diario[u][n] = [kind |-> recibo[k].cmd.kind, llave |-> k, viaje |-> recibo[k].viaje]
    BY <2>1 DEF DiarioOK
  <2>4. Diario'[u][n] = [kind |-> recibo'[k].cmd.kind, llave |-> k, viaje |-> recibo'[k].viaje]
    BY <2>1, <2>2 DEF DiarioOK
  <2> QED
    BY <2>2, <2>3, <2>4
<1>3. /\ Diario[u] = [n \in 1..unidad[u].rev |-> Diario[u][n]]
      /\ Diario'[u] = [n \in 1..unidad[u].rev |-> Diario'[u][n]]
  BY <1>1
<1> QED
  BY <1>2, <1>3

(* A commit appends one entry to the diary of its unit and to no other.    *)
LEMMA DiarioGrows ==
    ASSUME RInv, DiarioOK, DiarioOK',
           NEW cmd \in Comandos, NEW u \in Unidades, NEW v \in Viajes, Commit(cmd, u, v)
    PROVE  Diario' = [Diario EXCEPT ![u] =
               Append(@, [kind |-> cmd.kind, llave |-> cmd.key, viaje |-> v])]
<1>1. ASSUME NEW w \in Unidades, w # u
      PROVE  Diario'[w] = Diario[w]
  <2>1. unidad'[w] = unidad[w]
    BY <1>1 DEF Commit
  <2>2. \A k \in Llaves : /\ Received(k, w)' <=> Received(k, w)
                          /\ Received(k, w) => recibo'[k] = recibo[k]
    BY <1>1, ReceiptAdded DEF RInv
  <2> QED
    BY <2>1, <2>2, DiarioKept
<1>2. unidad'[u].rev = unidad[u].rev + 1 /\ cmd.ctx.rev = unidad[u].rev /\ cmd.key \in Llaves
  BY DEF Commit
<1>3. /\ unidad[u].rev \in Nat
      /\ Diario[u] \in [1..unidad[u].rev -> Entries]
      /\ Diario'[u] \in [1..(unidad[u].rev + 1) -> Entries]
  BY <1>2 DEF DiarioOK
<1>4. Diario'[u][unidad[u].rev + 1] = [kind |-> cmd.kind, llave |-> cmd.key, viaje |-> v]
  <2>1. /\ Received(cmd.key, u)'
        /\ recibo'[cmd.key].cmd = cmd /\ recibo'[cmd.key].viaje = v
    BY ReceiptAdded DEF RInv
  <2> QED
    BY <1>2, <2>1, SMTT(30) DEF DiarioOK
<1>5. ASSUME NEW n \in 1..unidad[u].rev
      PROVE  Diario'[u][n] = Diario[u][n]
  <2>1. PICK k \in Llaves : Received(k, u) /\ n = recibo[k].cmd.ctx.rev + 1
    BY DEF DiarioOK
  <2>2. Received(k, u)' /\ recibo'[k] = recibo[k]
    BY <2>1, ReceiptAdded DEF RInv
  <2>3. Diario[u][n] = [kind |-> recibo[k].cmd.kind, llave |-> k, viaje |-> recibo[k].viaje]
    BY <2>1 DEF DiarioOK
  <2>4. Diario'[u][n] = [kind |-> recibo'[k].cmd.kind, llave |-> k, viaje |-> recibo'[k].viaje]
    BY <2>1, <2>2 DEF DiarioOK
  <2> QED
    BY <2>2, <2>3, <2>4
<1>6. Diario'[u] = Append(Diario[u], [kind |-> cmd.kind, llave |-> cmd.key, viaje |-> v])
  BY <1>3, <1>4, <1>5, SequenceGrows
<1>7. DOMAIN Diario = Unidades /\ DOMAIN Diario' = Unidades
  BY DEF Diario
<1>8. Diario = [w \in Unidades |-> Diario[w]] /\ Diario' = [w \in Unidades |-> Diario'[w]]
  BY DEF Diario
<1> HIDE DEF Diario
<1> QED
  BY <1>1, <1>6, <1>7, <1>8

-----------------------------------------------------------------------------
LEMMA ContractInit == Init => Contract!Init
<1> SUFFICES ASSUME Init PROVE Contract!Init
  OBVIOUS
<1>1. \A u \in Unidades : unidad[u].rev = 0
  BY DEF Init
<1>2. RInv
  BY InitRInv
<1>3. Diario = [u \in Unidades |-> <<>>]
  <2>1. ASSUME NEW u \in Unidades
        PROVE  [n \in 1..unidad[u].rev |-> Entry(u, n)] = <<>>
    BY <1>1
  <2> QED
    BY <2>1 DEF Diario
<1> QED
  BY <1>3 DEF Contract!Init, Diario

(* A key or a journey in a diary has a receipt. *)
LEMMA KnownHasReceipt ==
    ASSUME RInv, DiarioOK, NEW u \in Unidades, NEW n \in DOMAIN Diario[u]
    PROVE  \E k \in Llaves : /\ Received(k, u)
                             /\ Diario[u][n].llave = k
                             /\ Diario[u][n].viaje = recibo[k].viaje
<1>1. n \in 1..unidad[u].rev
  BY DEF DiarioOK
<1>2. PICK k \in Llaves : Received(k, u) /\ n = recibo[k].cmd.ctx.rev + 1
  BY <1>1 DEF DiarioOK
<1>3. Diario[u][n] = [kind |-> recibo[k].cmd.kind, llave |-> k, viaje |-> recibo[k].viaje]
  BY <1>2 DEF DiarioOK
<1> QED
  BY <1>2, <1>3

LEMMA ContractDepart ==
    ASSUME RInv, DiarioOK, DiarioOK',
           NEW cmd \in Comandos, NEW u \in Unidades, NEW v \in Viajes, Departed(cmd, u, v)
    PROVE  Contract!Depart(u, cmd.key, v)
<1>1. u \notin Fuera /\ Fuera' = Fuera \cup {u}
  BY DEF Departed, Commit, Fuera
<1>2. \A w \in Unidades : \A n \in DOMAIN Diario[w] :
        Diario[w][n].llave # cmd.key /\ Diario[w][n].viaje # v
  BY KnownHasReceipt DEF RInv, Effect, Received, Departed, Commit
<1>3. Diario' = [Diario EXCEPT ![u] =
        Append(@, [kind |-> "DEPARTURE", llave |-> cmd.key, viaje |-> v])]
  BY DiarioGrows DEF Departed
<1> QED
  BY <1>1, <1>2, <1>3, ZenonT(60)
  DEF Contract!Depart, Contract!Add, Contract!Known, Contract!UsedKey, Fuera, Diario

LEMMA ContractReturn ==
    ASSUME RInv, DiarioOK, DiarioOK',
           NEW cmd \in Comandos, NEW u \in Unidades, NEW v \in Viajes, Returned(cmd, u, v)
    PROVE  Contract!Return(u, cmd.key, v)
<1>1. u \in Fuera /\ Fuera' = Fuera \ {u}
  BY DEF Returned, Commit, Fuera
<1>2. \A w \in Unidades : \A n \in DOMAIN Diario[w] : Diario[w][n].llave # cmd.key
  BY KnownHasReceipt DEF Received, Returned, Commit
<1>3. Diario' = [Diario EXCEPT ![u] =
        Append(@, [kind |-> "RETURN", llave |-> cmd.key, viaje |-> v])]
  BY DiarioGrows DEF Returned
<1>4. /\ unidad[u].rev \in Nat
      /\ Diario[u] \in [1..unidad[u].rev -> Entries]
  BY DEF DiarioOK
<1>5. Len(Diario[u]) = unidad[u].rev /\ (Diario[u] = <<>> <=> unidad[u].rev = 0)
  BY <1>4, SequenceOf
<1>6. Contract!Add(u, "RETURN", cmd.key, v)
  <2>1. ~Contract!UsedKey(cmd.key)
    BY <1>2 DEF Contract!UsedKey, Diario
  <2> QED
    BY <1>3, <2>1 DEF Contract!Add, Diario
<1>7. ASSUME IF Diario[u] = <<>> THEN ~Contract!Known(v)
                                 ELSE v = Diario[u][Len(Diario[u])].viaje
      PROVE  Contract!Return(u, cmd.key, v)
  BY <1>1, <1>6, <1>7 DEF Contract!Return, Fuera, Diario
<1>8. CASE unidad[u].rev = 0
  <2>1. \A k \in Llaves : ~Received(k, u)
    BY <1>8, ReceiptRow DEF RInv, IInv, Revisions, Received
  <2>2. \A w \in Unidades : \A n \in DOMAIN Diario[w] : Diario[w][n].viaje # v
    <3>1. SUFFICES ASSUME NEW w \in Unidades, NEW k \in Llaves, Received(k, w),
                          recibo[k].viaje = v
                   PROVE  FALSE
      BY KnownHasReceipt
    <3>2. viaje[v].estado # "FREE" /\ viaje[v].unidad = w
      BY <3>1 DEF RInv, Effect, Received
    <3>3. w = u
      BY <3>2 DEF Returned, Commit
    <3> QED
      BY <2>1, <3>1, <3>3
  <2>3. ~Contract!Known(v)
    BY <2>2 DEF Contract!Known, Diario
  <2> QED
    BY <1>5, <1>8, <1>7, <2>3
<1>9. CASE unidad[u].rev # 0
  <2>1. PICK k \in Llaves : Received(k, u) /\ unidad[u].rev = recibo[k].cmd.ctx.rev + 1
    BY <1>4, <1>9 DEF DiarioOK
  <2>2. Diario[u][unidad[u].rev].viaje = recibo[k].viaje
    <3>1. Diario[u][recibo[k].cmd.ctx.rev + 1] =
            [kind |-> recibo[k].cmd.kind, llave |-> k, viaje |-> recibo[k].viaje]
      BY <2>1 DEF DiarioOK
    <3> QED
      BY <2>1, <3>1
  <2>3. recibo[k].viaje = v
    <3>1. recibo[k].cmd.kind \in {"DEPARTURE", "RETURN"} /\ recibo[k].viaje \in Viajes
      BY <2>1, ReceiptRow DEF RInv, IInv, Received
    <3>2. unidad[u].viaje = recibo[k].viaje
      BY <2>1, <3>1 DEF RInv, Last, Returned
    <3> QED
      BY <3>1, <3>2, JourneysAssumption DEF Returned
  <2> QED
    BY <1>5, <1>9, <1>7, <2>2, <2>3
<1> QED
  BY <1>8, <1>9

LEMMA ContractQuiet ==
    ASSUME RInv, DiarioOK, DiarioOK', Quiet
    PROVE  Fuera' = Fuera /\ Diario' = Diario
<1>1. Fuera' = Fuera
  BY DEF Quiet, Fuera
<1>2. \A u \in Unidades : Diario'[u] = Diario[u]
  BY DiarioKept DEF Quiet, Received
<1>3. Diario = [u \in Unidades |-> Diario[u]] /\ Diario' = [u \in Unidades |-> Diario'[u]]
  BY DEF Diario
<1> HIDE DEF Diario
<1> QED
  BY <1>1, <1>2, <1>3

LEMMA ContractNext ==
    ASSUME RInv, RInv', DiarioOK, DiarioOK', [Next]_vars
    PROVE  [Contract!Next]_<<Fuera, Diario>>
<1>1. CASE Quiet
  BY <1>1, ContractQuiet
<1>2. ASSUME NEW cmd \in Comandos, NEW u \in Unidades, NEW v \in Viajes, Departed(cmd, u, v)
      PROVE  Contract!Next
  <2>1. cmd.key \in Llaves
    BY <1>2 DEF Departed, Commit
  <2> QED
    BY <1>2, <2>1, ContractDepart DEF Contract!Next
<1>3. ASSUME NEW cmd \in Comandos, NEW u \in Unidades, NEW v \in Viajes, Returned(cmd, u, v)
      PROVE  Contract!Next
  <2>1. cmd.key \in Llaves
    BY <1>3 DEF Returned, Commit
  <2> QED
    BY <1>3, <2>1, ContractReturn DEF Contract!Next
<1> QED
  BY <1>1, <1>2, <1>3, ThreeCases DEF RInv

(* The diaries that the receipts of LogisticaJourneyService.execute spell  *)
(* are those the contract allows: each commit adds one entry to one of     *)
(* them, and every other step none.                                        *)
THEOREM DiaryImplemented == Spec => KeepsDiary
<1>1. RInv /\ RInv' /\ DiarioOK /\ DiarioOK' /\ [Next]_vars
        => [Contract!Next]_<<Fuera, Diario>>
  BY ContractNext
<1>2. Contract!Spec <=> Contract!Init /\ [][Contract!Next]_<<Fuera, Diario>>
  BY DEF Contract!Spec, Fuera, Diario
<1> QED
  BY <1>1, <1>2, ContractInit, DiarioType, ReceiptsInvariance, PTL DEF Spec, KeepsDiary
=============================================================================
