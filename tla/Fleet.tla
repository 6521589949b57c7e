------------------------------- MODULE Fleet -------------------------------
(***************************************************************************)
(* The gate of the yard, FlotaService and FlotaEngine: departures (SALIDA) *)
(* and returns (ENTRADA) that people sign, the row UnidadOperativa that    *)
(* projects them, the transitions of physical state that are recorded by   *)
(* hand, and the physical state that is read from both.                    *)
(*                                                                         *)
(* A movement is registered in one transaction that holds the lock of its  *)
(* unit: it checks, then it writes.  Transactions of two units overlap, so *)
(* checking and writing are two steps.  The moment a movement is dated     *)
(* with comes from its form and may lie anywhere in the past.  What else   *)
(* can refuse a movement (the catalogues, its signatures, insurance, CHECK *)
(* and maintenance) leaves no trace: a refused form changes nothing.       *)
(***************************************************************************)
EXTENDS Integers, Sequences

CONSTANTS
    Units, Drivers,
    Km,             \* odometer readings
    MaxNow,         \* bound on the clock
    MaxMovements,   \* bound on flota.movimientos
    MaxTransitions  \* bound on the transitions of a unit

NoDriver == "nobody"

ASSUME FleetAssumption ==
    /\ Km \subseteq Nat
    /\ {MaxNow, MaxMovements, MaxTransitions} \subseteq Nat
    /\ NoDriver \notin Drivers

VARIABLES
    now,         \* the clock of the server
    movements,   \* flota.movimientos, in the order they commit
    operativa,   \* flota.unidades_operativas
    transitions, \* flota.physical_state_events of each unit, by version
    checked      \* registrar in progress: the movement it has checked

vars == <<now, movements, operativa, transitions, checked>>
-----------------------------------------------------------------------------
Tipos == {"SALIDA", "ENTRADA"}

(* The states recorded by hand: those other than EN_PATIO are not told     *)
(* apart by anything here, and EN_TALLER stands for them.                  *)
States == {"EN_PATIO", "EN_TALLER"}

(* A movement; "seen" is how many had committed when it was checked        *)
(* (history).                                                              *)
Movement == [tipo : Tipos, unit : Units, driver : Drivers, at : Nat, km : Km, seen : Nat]

Operativa == [salida : Nat, driver : Drivers \cup {NoDriver},
              last : Drivers \cup {NoDriver}, at : Nat]

NoRow == [salida |-> 0, driver |-> NoDriver, last |-> NoDriver, at |-> 0]

Nothing == [tipo |-> "NONE"]

Init ==
    /\ now = 0
    /\ movements = << >>
    /\ operativa = [u \in Units |-> NoRow]
    /\ transitions = [u \in Units |-> << >>]
    /\ checked = [u \in Units |-> Nothing]
-----------------------------------------------------------------------------
(* unitOperations.lock.                                                    *)
Locked(u) == checked[u] # Nothing

(* Mutant: DISTINCT ON without the order by time.                          *)
LatestMovementsAny(u) == {n \in DOMAIN movements : movements[n].unit = u}

(* The rows that come first when a unit's are ordered by time, descending; *)
(* several when they have the same instant.                                *)
LatestMovements(u) ==
    {n \in DOMAIN movements :
       /\ movements[n].unit = u
       /\ \A m \in DOMAIN movements : movements[m].unit = u => movements[m].at <= movements[n].at}

LatestTransitions(u) ==
    {n \in DOMAIN transitions[u] :
       \A m \in DOMAIN transitions[u] : transitions[u][m].at <= transitions[u][n].at}

Moved(n) == IF movements[n].tipo = "SALIDA" THEN "EN_RUTA" ELSE "EN_PATIO"

(* TypeOrmPhysicalStateReadAdapter.read: what it may answer.               *)
PhysicalStates(u) ==
    {transitions[u][t].state : t \in
       {t \in LatestTransitions(u) :
          \A n \in LatestMovements(u) : transitions[u][t].at >= movements[n].at}}
    \cup
    {Moved(n) : n \in
       {n \in LatestMovements(u) :
          \A t \in LatestTransitions(u) : transitions[u][t].at < movements[n].at}}

(* choferTieneSalidaAbierta: on another unit.                              *)
DriverAway(d, u) ==
    \E other \in Units \ {u} :
       operativa[other].salida # 0 /\ movements[operativa[other].salida].driver = d

(* Mutant: any open departure of the unit admits the return.               *)
AdmissibleAnyTime(q) ==
    LET row == operativa[q.unit]
    IN  \/ q.tipo = "SALIDA" /\ row.salida = 0 /\ ~DriverAway(q.driver, q.unit)
                             /\ "EN_PATIO" \in PhysicalStates(q.unit)
        \/ q.tipo = "ENTRADA" /\ row.salida # 0

(* Mutant: the drivers of the other units are not looked at.               *)
AdmissibleAnyDriver(q) ==
    LET row == operativa[q.unit]
    IN  \/ /\ q.tipo = "SALIDA"
           /\ row.salida = 0
           /\ "EN_PATIO" \in PhysicalStates(q.unit)
        \/ /\ q.tipo = "ENTRADA"
           /\ row.salida # 0
           /\ q.at >= movements[row.salida].at
           /\ q.km >= movements[row.salida].km

(* departureBlockReasons, for the physical state, and erroresMovimiento.   *)
Admissible(q) ==
    LET row == operativa[q.unit]
    IN  \/ /\ q.tipo = "SALIDA"
           /\ row.salida = 0
           /\ ~DriverAway(q.driver, q.unit)
           /\ "EN_PATIO" \in PhysicalStates(q.unit)
        \/ /\ q.tipo = "ENTRADA"
           /\ row.salida # 0
           /\ q.at >= movements[row.salida].at
           /\ q.km >= movements[row.salida].km
-----------------------------------------------------------------------------
Tick == now < MaxNow /\ now' = now + 1 /\ UNCHANGED <<movements, operativa, transitions, checked>>

(* registrar up to erroresMovimiento, under the lock of the unit, for a    *)
(* signed form.                                                            *)
Check(tipo, u, d, at, km) ==
    LET q == [tipo |-> tipo, unit |-> u, driver |-> d, at |-> at, km |-> km,
              seen |-> Len(movements)]
    IN  /\ ~Locked(u)
        /\ Len(movements) < MaxMovements
        /\ at <= now
        /\ Admissible(q)
        /\ checked' = [checked EXCEPT ![u] = q]
        /\ UNCHANGED <<now, movements, operativa, transitions>>

(* A later step fails, or the process stops.                               *)
Rollback(u) ==
    /\ Locked(u)
    /\ checked' = [checked EXCEPT ![u] = Nothing]
    /\ UNCHANGED <<now, movements, operativa, transitions>>

(* Mutant: the last driver of the unit is whoever signs the return.        *)
ProjectSigner(q, n) ==
    [salida |-> IF q.tipo = "SALIDA" THEN n ELSE 0,
     driver |-> IF q.tipo = "SALIDA" THEN q.driver ELSE NoDriver,
     last   |-> q.driver, at |-> q.at]

(* The row that follows the movement, the n-th.  The last driver is the    *)
(* one who left with the unit, whoever signs the return.                   *)
Project(q, n) ==
    LET row == operativa[q.unit]
    IN  IF q.tipo = "SALIDA"
        THEN [salida |-> n, driver |-> q.driver, last |-> q.driver, at |-> q.at]
        ELSE [salida |-> 0, driver |-> NoDriver,
              last |-> IF row.driver # NoDriver THEN row.driver
                       ELSE IF row.last # NoDriver THEN row.last ELSE q.driver,
              at |-> q.at]

(* insertMovimiento, upsertOperativa and the commit.                       *)
Commit(u) ==
    /\ Locked(u)
    /\ Len(movements) < MaxMovements
    /\ movements' = Append(movements, checked[u])
    /\ operativa' = [operativa EXCEPT ![u] = Project(checked[u], Len(movements) + 1)]
    /\ checked' = [checked EXCEPT ![u] = Nothing]
    /\ UNCHANGED <<now, transitions>>

(* PhysicalStateTransitionService.record: one transaction, dated now.      *)
Transition(u, state) ==
    /\ ~Locked(u)
    /\ Len(transitions[u]) < MaxTransitions
    /\ transitions' = [transitions EXCEPT ![u] = Append(@, [state |-> state, at |-> now])]
    /\ UNCHANGED <<now, movements, operativa, checked>>
-----------------------------------------------------------------------------
Next ==
    \/ Tick
    \/ \E tipo \in Tipos, u \in Units, d \in Drivers, at \in 0..MaxNow, km \in Km :
          Check(tipo, u, d, at, km)
    \/ \E u \in Units : Rollback(u) \/ Commit(u)
    \/ \E u \in Units, state \in States : Transition(u, state)

Spec == Init /\ [][Next]_vars
-----------------------------------------------------------------------------
(* Rows have the shape of their tables.                                    *)
TypeOK ==
    /\ now \in Nat
    /\ movements \in Seq(Movement)
    /\ operativa \in [Units -> Operativa]
    /\ transitions \in [Units -> Seq([state : States, at : Nat])]
    /\ checked \in [Units -> {Nothing} \cup Movement]
    /\ \A u \in Units : Locked(u) => checked[u].unit = u

(* The movement of a unit that committed last before the n-th of the log.  *)
PreviousOf(u, n, m) ==
    /\ m \in 1..(n - 1)
    /\ movements[m].unit = u
    /\ \A k \in (m + 1)..(n - 1) : movements[k].unit # u

InTurn(n) ==
    LET u == movements[n].unit
    IN  /\ movements[n].tipo = "SALIDA" =>
             \A m \in 1..(n - 1) : PreviousOf(u, n, m) => movements[m].tipo = "ENTRADA"
        /\ movements[n].tipo = "ENTRADA" =>
             \E m \in 1..(n - 1) :
                /\ PreviousOf(u, n, m) /\ movements[m].tipo = "SALIDA"
                /\ movements[n].at >= movements[m].at
                /\ movements[n].km >= movements[m].km

(* F1, F2, F6 and F7 of ADR-004: the departures and returns of a unit      *)
(* alternate, and a return is neither earlier nor on fewer kilometres than *)
(* the departure it closes.                                                *)
Alternate == \A n \in DOMAIN movements : InTurn(n)

(* What the log says of a unit, and what its row says.                     *)
OnBoard(u) ==
    \/ /\ operativa[u] = NoRow
       /\ \A m \in DOMAIN movements : movements[m].unit # u
    \/ \E m \in DOMAIN movements :
          /\ PreviousOf(u, Len(movements) + 1, m)
          /\ operativa[u].at = movements[m].at
          /\ \/ /\ movements[m].tipo = "SALIDA"
                /\ operativa[u].salida = m
                /\ operativa[u].driver = movements[m].driver
                /\ operativa[u].last = movements[m].driver
             \/ /\ movements[m].tipo = "ENTRADA"
                /\ operativa[u].salida = 0
                /\ operativa[u].driver = NoDriver
                /\ \E s \in 1..(m - 1) : /\ PreviousOf(u, m, s)
                                         /\ operativa[u].last = movements[s].driver

(* The board of the yard is what the log says: the row of a unit names its *)
(* departure while it is out and nobody when it is in, and remembers who   *)
(* left with it last although somebody else signed its return.             *)
BoardFollowsLog == \A u \in Units : OnBoard(u)

(* F9 of ADR-004, as far as the locks of single units can keep it: a       *)
(* driver is out with two units only when the second departure was checked *)
(* before the first one had committed.                                     *)
DriverOutOnce ==
    \A u, v \in Units :
       LET m == operativa[u].salida
           n == operativa[v].salida
       IN  m # 0 /\ n # 0 /\ m < n /\ movements[m].driver = movements[n].driver
           => movements[n].seen < m

(* No form of this unit was dated before, or at the instant of, an earlier *)
(* movement.                                                               *)
DatedInOrder(u) ==
    \A m, n \in DOMAIN movements :
       m < n /\ movements[m].unit = u /\ movements[n].unit = u
       => movements[m].at < movements[n].at

(* The physical state that departures and CHECK rely on agrees with the    *)
(* board, as long as the forms of the unit are dated in the order they are *)
(* registered and nothing was recorded by hand since.                      *)
PhysicalFollowsBoard ==
    \A u \in Units :
       (/\ \E n \in DOMAIN movements : movements[n].unit = u
        /\ DatedInOrder(u)
        /\ \A t \in DOMAIN transitions[u] : transitions[u][t].at < operativa[u].at)
       => PhysicalStates(u) = {IF operativa[u].salida # 0 THEN "EN_RUTA" ELSE "EN_PATIO"}
=============================================================================
