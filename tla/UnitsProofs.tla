----------------------------- MODULE UnitsProofs -----------------------------
(***************************************************************************)
(* Theorems about what the system knows of its units: where they are       *)
(* (Fleet), how healthy they are (Salud) and whether their maintenance is  *)
(* overdue (Andon), for any units, people, odometers, intervals and        *)
(* bounds.  The three keep tables of their own, and no theorem speaks of   *)
(* two of them.                                                            *)
(***************************************************************************)
EXTENDS Fleet, Salud, Andon, TLAPS
-----------------------------------------------------------------------------
(* The gate.                                                               *)
LEMMA NothingIsNotAMovement == Nothing \notin Movement
  BY DEF Nothing, Movement, Tipos

LEMMA InitType == Init => TypeOK
<1> SUFFICES ASSUME Init PROVE TypeOK OBVIOUS
<1>1. NoRow \in Operativa BY DEF NoRow, Operativa
<1>2. operativa \in [Units -> Operativa] BY <1>1 DEF Init
<1>3. movements \in Seq(Movement) BY DEF Init
<1>4. transitions \in [Units -> Seq([state : States, at : Nat])] BY DEF Init
<1> QED BY <1>2, <1>3, <1>4 DEF TypeOK, Init, Locked

(* What a transaction has checked is a movement that was admitted.         *)
LEMMA CheckWrites ==
  ASSUME TypeOK, NEW kind \in Tipos, NEW u \in Units, NEW d \in Drivers,
         NEW at \in 0..MaxNow, NEW reading \in Km, Check(kind, u, d, at, reading)
  PROVE  \E q \in Movement :
            /\ q.unit = u /\ q.seen = Len(movements) /\ Admissible(q)
            /\ checked' = [checked EXCEPT ![u] = q]
            /\ UNCHANGED <<now, movements, operativa, transitions>>
<1> DEFINE q == [tipo |-> kind, unit |-> u, driver |-> d, at |-> at, km |-> reading,
                 seen |-> Len(movements)]
<1>1. at \in Nat /\ Len(movements) \in Nat
  BY FleetAssumption DEF TypeOK
<1>2. q \in Movement /\ q.unit = u /\ q.seen = Len(movements)
  BY <1>1 DEF Movement
<1>3. Admissible(q) /\ checked' = [checked EXCEPT ![u] = q]
      /\ UNCHANGED <<now, movements, operativa, transitions>>
  BY DEF Check
<1> HIDE DEF q
<1> QED BY <1>2, <1>3

(* The log after a commit.                                                 *)
LEMMA Grown ==
  ASSUME TypeOK, NEW u \in Units, Commit(u)
  PROVE  /\ checked[u] \in Movement
         /\ Len(movements) \in Nat /\ DOMAIN movements = 1..Len(movements)
         /\ Len(movements') = Len(movements) + 1
         /\ DOMAIN movements' = 1..(Len(movements) + 1)
         /\ movements' \in Seq(Movement)
         /\ \A k \in 1..Len(movements) : movements'[k] = movements[k]
         /\ movements'[Len(movements) + 1] = checked[u]
<1>1. checked[u] \in Movement
  BY DEF TypeOK, Commit, Locked
<1>2. movements \in Seq(Movement)
  BY DEF TypeOK
<1>3. movements' = Append(movements, checked[u])
  BY DEF Commit
<1> HIDE DEF Movement
<1> QED BY <1>1, <1>2, <1>3

LEMMA ProjectType ==
  ASSUME TypeOK, NEW q \in Movement, NEW n \in Nat, q.unit \in Units
  PROVE  Project(q, n) \in Operativa
<1>1. operativa[q.unit] \in Operativa BY DEF TypeOK
<1>2. CASE q.tipo = "SALIDA"
  BY <1>2 DEF Project, Movement, Operativa
<1>3. CASE q.tipo # "SALIDA"
  BY <1>1, <1>3 DEF Project, Movement, Operativa
<1> QED BY <1>2, <1>3

LEMMA NextType == TypeOK /\ [Next]_vars => TypeOK'
<1> SUFFICES ASSUME TypeOK, [Next]_vars PROVE TypeOK' OBVIOUS
<1>1. CASE Tick
  <2>1. now' \in Nat BY <1>1 DEF Tick, TypeOK
  <2>2. UNCHANGED <<movements, operativa, transitions, checked>> BY <1>1 DEF Tick
  <2> QED BY <2>1, <2>2 DEF TypeOK, Locked
<1>2. ASSUME NEW kind \in Tipos, NEW u \in Units, NEW d \in Drivers,
             NEW at \in 0..MaxNow, NEW reading \in Km, Check(kind, u, d, at, reading)
      PROVE  TypeOK'
  <2>1. PICK q \in Movement : /\ q.unit = u
                              /\ checked' = [checked EXCEPT ![u] = q]
                              /\ UNCHANGED <<now, movements, operativa, transitions>>
    BY <1>2, CheckWrites
  <2>2. checked \in [Units -> {Nothing} \cup Movement]
        /\ \A v \in Units : Locked(v) => checked[v].unit = v
    BY DEF TypeOK
  <2>3. checked' \in [Units -> {Nothing} \cup Movement]
        /\ \A v \in Units : Locked(v)' => checked'[v].unit = v
    BY <2>1, <2>2 DEF Locked
  <2> QED BY <2>1, <2>3 DEF TypeOK
<1>3. ASSUME NEW u \in Units, Rollback(u)
      PROVE  TypeOK'
  BY <1>3 DEF Rollback, TypeOK, Locked
<1>4. ASSUME NEW u \in Units, Commit(u)
      PROVE  TypeOK'
  <2>1. checked[u].unit = u BY <1>4 DEF Commit, TypeOK
  <2>2. Project(checked[u], Len(movements) + 1) \in Operativa
    BY <1>4, <2>1, Grown, ProjectType
  <2>3. operativa' \in [Units -> Operativa]
    BY <1>4, <2>2 DEF Commit, TypeOK
  <2>4. checked' \in [Units -> {Nothing} \cup Movement]
        /\ \A v \in Units : Locked(v)' => checked'[v].unit = v
    BY <1>4 DEF Commit, TypeOK, Locked
  <2>5. movements' \in Seq(Movement) BY <1>4, Grown
  <2>6. UNCHANGED <<now, transitions>> BY <1>4 DEF Commit
  <2> QED BY <2>3, <2>4, <2>5, <2>6 DEF TypeOK
<1>5. ASSUME NEW u \in Units, NEW state \in States, Transition(u, state)
      PROVE  TypeOK'
  <2> DEFINE Event == [state : States, at : Nat]
             event == [state |-> state, at |-> now]
  <2>1. event \in Event /\ transitions[u] \in Seq(Event)
    BY DEF TypeOK
  <2>2. transitions \in [Units -> Seq(Event)] BY DEF TypeOK
  <2>3. transitions' = [transitions EXCEPT ![u] = Append(transitions[u], event)]
        /\ UNCHANGED <<now, movements, operativa, checked>>
    BY <1>5 DEF Transition
  <2> HIDE DEF Event, event
  <2>4. Append(transitions[u], event) \in Seq(Event) BY <2>1
  <2>5. transitions' \in [Units -> Seq(Event)] BY <2>2, <2>3, <2>4
  <2>6. (transitions \in [Units -> Seq([state : States, at : Nat])])'
    BY <2>5 DEF Event
  <2> QED BY <2>3, <2>6 DEF TypeOK, Locked
<1>6. CASE UNCHANGED vars
  BY <1>6 DEF vars, TypeOK, Locked
<1> QED BY <1>1, <1>2, <1>3, <1>4, <1>5, <1>6 DEF Next
-----------------------------------------------------------------------------
(* What a transaction in progress may still rely on: its unit is locked,   *)
(* and what it has seen of the others is as old as its check.              *)
Pending ==
    \A u \in Units : Locked(u) =>
       LET q == checked[u]
       IN  /\ q.seen <= Len(movements)
           /\ q.tipo = "SALIDA" =>
                /\ operativa[u].salida = 0
                /\ \A v \in Units \ {u} :
                      operativa[v].salida # 0 /\ operativa[v].salida <= q.seen
                      => movements[operativa[v].salida].driver # q.driver
           /\ q.tipo = "ENTRADA" =>
                /\ operativa[u].salida # 0
                /\ q.at >= movements[operativa[u].salida].at
                /\ q.km >= movements[operativa[u].salida].km

Inv == TypeOK /\ Alternate /\ BoardFollowsLog /\ DriverOutOnce /\ Pending

(* The row of a unit that is out names the last movement of the unit.      *)
LEMMA RowOfUnitOut ==
  ASSUME TypeOK, BoardFollowsLog, NEW u \in Units, operativa[u].salida # 0
  PROVE  /\ operativa[u].salida \in 1..Len(movements)
         /\ PreviousOf(u, Len(movements) + 1, operativa[u].salida)
         /\ movements[operativa[u].salida].tipo = "SALIDA"
         /\ operativa[u].driver = movements[operativa[u].salida].driver
<1>1. Len(movements) \in Nat /\ DOMAIN movements = 1..Len(movements)
  BY DEF TypeOK
<1>2. OnBoard(u) /\ operativa[u] # NoRow
  BY DEF BoardFollowsLog, NoRow
<1> QED BY <1>1, <1>2 DEF OnBoard

LEMMA PreviousUnique ==
  ASSUME NEW u, NEW n \in Nat, NEW m, NEW k, PreviousOf(u, n, m), PreviousOf(u, n, k)
  PROVE  m = k
BY DEF PreviousOf

(* A unit that is in came in last, or was never out.                       *)
LEMMA LastOfUnitIn ==
  ASSUME TypeOK, BoardFollowsLog, NEW u \in Units, operativa[u].salida = 0,
         NEW m, PreviousOf(u, Len(movements) + 1, m)
  PROVE  movements[m].tipo = "ENTRADA"
<1>1. Len(movements) \in Nat /\ DOMAIN movements = 1..Len(movements)
  BY DEF TypeOK
<1>2. m \in 1..Len(movements) /\ movements[m].unit = u
  BY <1>1 DEF PreviousOf
<1>3. PICK k \in DOMAIN movements :
         /\ PreviousOf(u, Len(movements) + 1, k)
         /\ \/ movements[k].tipo = "SALIDA" /\ operativa[u].salida = k
            \/ movements[k].tipo = "ENTRADA"
  BY <1>1, <1>2 DEF BoardFollowsLog, OnBoard
<1>4. m = k BY <1>1, <1>3, PreviousUnique
<1> QED BY <1>1, <1>3, <1>4

(* What came before a movement does not change when another commits.       *)
LEMMA PreviousKept ==
  ASSUME TypeOK, NEW u \in Units, Commit(u), NEW v, NEW m,
         NEW n \in 1..(Len(movements) + 1)
  PROVE  PreviousOf(v, n, m)' <=> PreviousOf(v, n, m)
<1>1. Len(movements) \in Nat /\ \A k \in 1..Len(movements) : movements'[k] = movements[k]
  BY Grown
<1>2. \A k \in 1..(n - 1) : movements'[k] = movements[k] BY <1>1
<1>3. ASSUME m \in 1..(n - 1)
      PROVE  PreviousOf(v, n, m)' <=> PreviousOf(v, n, m)
  <2>1. \A k \in (m + 1)..(n - 1) : k \in 1..(n - 1) BY <1>1, <1>3
  <2> QED BY <1>2, <1>3, <2>1 DEF PreviousOf
<1>4. ASSUME m \notin 1..(n - 1)
      PROVE  PreviousOf(v, n, m)' <=> PreviousOf(v, n, m)
  BY <1>4 DEF PreviousOf
<1> QED BY <1>3, <1>4

(* The same with the number of the new movement, and with nothing primed   *)
(* but the log.                                                            *)
LEMMA Committed ==
  ASSUME TypeOK, NEW u \in Units, Commit(u)
  PROVE  \E N \in Nat \ {0} :
            /\ Len(movements) = N - 1 /\ Len(movements') = N
            /\ DOMAIN movements = 1..(N - 1) /\ DOMAIN movements' = 1..N
            /\ Locked(u) /\ checked[u] \in Movement /\ checked[u].unit = u
            /\ movements'[N] = checked[u]
            /\ \A k \in 1..(N - 1) : movements'[k] = movements[k]
            /\ \A v, m : \A n \in 1..N : PreviousOf(v, n, m)' <=> PreviousOf(v, n, m)
            /\ operativa' = [operativa EXCEPT ![u] = Project(checked[u], N)]
            /\ checked' = [checked EXCEPT ![u] = Nothing]
<1> PICK N : N = Len(movements) + 1 OBVIOUS
<1>1. /\ Len(movements) \in Nat
      /\ checked[u] \in Movement /\ DOMAIN movements = 1..Len(movements)
      /\ Len(movements') = Len(movements) + 1
      /\ DOMAIN movements' = 1..(Len(movements) + 1)
      /\ \A k \in 1..Len(movements) : movements'[k] = movements[k]
      /\ movements'[Len(movements) + 1] = checked[u]
  BY Grown
<1>2. Locked(u) /\ checked[u].unit = u BY DEF Commit, TypeOK
<1>3. \A v, m : \A n \in 1..N : PreviousOf(v, n, m)' <=> PreviousOf(v, n, m)
  BY PreviousKept
<1>4. N \in Nat \ {0} /\ Len(movements) = N - 1 BY <1>1
<1>5. operativa' = [operativa EXCEPT ![u] = Project(checked[u], N)]
      /\ checked' = [checked EXCEPT ![u] = Nothing]
  BY DEF Commit
<1> HIDE DEF Movement
<1> QED BY <1>1, <1>2, <1>3, <1>4, <1>5

LEMMA CommitAlternates ==
  ASSUME Inv, NEW u \in Units, Commit(u)
  PROVE  Alternate'
<1>1. PICK N \in Nat \ {0} :
         /\ Len(movements) = N - 1
         /\ DOMAIN movements = 1..(N - 1) /\ DOMAIN movements' = 1..N
         /\ Locked(u) /\ checked[u] \in Movement /\ checked[u].unit = u
         /\ movements'[N] = checked[u]
         /\ \A k \in 1..(N - 1) : movements'[k] = movements[k]
         /\ \A v, m : \A n \in 1..N : PreviousOf(v, n, m)' <=> PreviousOf(v, n, m)
  BY Committed DEF Inv
<1>2. Len(movements) + 1 = N BY <1>1
<1>3. ASSUME NEW n \in 1..(N - 1) PROVE InTurn(n)'
  <2>1. InTurn(n) BY <1>1 DEF Inv, Alternate
  <2>2. movements'[n] = movements[n] /\ \A m \in 1..(n - 1) : movements'[m] = movements[m]
    BY <1>1
  <2>3. \A v, m : PreviousOf(v, n, m)' <=> PreviousOf(v, n, m)
    BY <1>1
  <2> QED BY <2>1, <2>2, <2>3 DEF InTurn
<1>4. CASE checked[u].tipo = "SALIDA"
  <2>1. operativa[u].salida = 0 BY <1>1, <1>4 DEF Inv, Pending
  <2>2. \A m : PreviousOf(u, N, m) => movements[m].tipo = "ENTRADA"
    BY <2>1, <1>2, LastOfUnitIn DEF Inv
  <2>3. \A m \in 1..(N - 1) : PreviousOf(u, N, m)' => movements'[m].tipo = "ENTRADA"
    BY <2>2, <1>1
  <2>4. InTurn(N)' BY <1>1, <1>4, <2>3 DEF InTurn
  <2> QED BY <1>1, <1>3, <2>4 DEF Alternate
<1>5. CASE checked[u].tipo = "ENTRADA"
  <2> PICK m : m = operativa[u].salida OBVIOUS
  <2>1. m # 0 /\ checked[u].at >= movements[m].at /\ checked[u].km >= movements[m].km
    BY <1>1, <1>5 DEF Inv, Pending
  <2>2. m \in 1..(N - 1) /\ PreviousOf(u, N, m) /\ movements[m].tipo = "SALIDA"
    BY <2>1, <1>1, <1>2, RowOfUnitOut DEF Inv
  <2>3. PreviousOf(u, N, m)' /\ movements'[m] = movements[m] BY <1>1, <2>2
  <2>4. InTurn(N)' BY <1>1, <1>5, <2>1, <2>2, <2>3 DEF InTurn
  <2> QED BY <1>1, <1>3, <2>4 DEF Alternate
<1> QED BY <1>1, <1>4, <1>5 DEF Movement, Tipos

LEMMA CommitKeepsBoard ==
  ASSUME Inv, NEW u \in Units, Commit(u)
  PROVE  BoardFollowsLog'
<1>1. PICK N \in Nat \ {0} :
         /\ Len(movements) = N - 1 /\ Len(movements') = N
         /\ DOMAIN movements = 1..(N - 1) /\ DOMAIN movements' = 1..N
         /\ Locked(u) /\ checked[u] \in Movement /\ checked[u].unit = u
         /\ movements'[N] = checked[u]
         /\ \A k \in 1..(N - 1) : movements'[k] = movements[k]
         /\ \A v, m : \A n \in 1..N : PreviousOf(v, n, m)' <=> PreviousOf(v, n, m)
         /\ operativa' = [operativa EXCEPT ![u] = Project(checked[u], N)]
  BY Committed DEF Inv
<1>2. Len(movements) + 1 = N /\ Len(movements') + 1 = N + 1 BY <1>1
<1>3. operativa \in [Units -> Operativa] BY DEF Inv, TypeOK
<1>4. ASSUME NEW v \in Units \ {u} PROVE OnBoard(v)'
  <2>1. operativa'[v] = operativa[v] BY <1>1, <1>3
  <2>2. OnBoard(v) BY DEF Inv, BoardFollowsLog
  <2>3. CASE operativa[v] = NoRow /\ \A m \in DOMAIN movements : movements[m].unit # v
    <3>1. \A m \in 1..N : movements'[m].unit # v BY <1>1, <2>3
    <3> QED BY <1>1, <2>1, <2>3, <3>1 DEF OnBoard
  <2>4. ASSUME NEW m \in 1..(N - 1), PreviousOf(v, N, m),
               operativa[v].at = movements[m].at,
               \/ /\ movements[m].tipo = "SALIDA"
                  /\ operativa[v].salida = m
                  /\ operativa[v].driver = movements[m].driver
                  /\ operativa[v].last = movements[m].driver
               \/ /\ movements[m].tipo = "ENTRADA"
                  /\ operativa[v].salida = 0
                  /\ operativa[v].driver = NoDriver
                  /\ \E s \in 1..(m - 1) : /\ PreviousOf(v, m, s)
                                           /\ operativa[v].last = movements[s].driver
        PROVE  OnBoard(v)'
    <3>1. PreviousOf(v, N, m)' BY <1>1, <2>4
    <3>2. PreviousOf(v, N + 1, m)' BY <1>1, <3>1 DEF PreviousOf
    <3>3. movements'[m] = movements[m] /\ m \in 1..N BY <1>1
    <3>4. \A s \in 1..(m - 1) : /\ PreviousOf(v, m, s)' <=> PreviousOf(v, m, s)
                                /\ movements'[s] = movements[s]
      BY <1>1
    <3> QED BY <1>1, <1>2, <2>1, <2>4, <3>2, <3>3, <3>4 DEF OnBoard
  <2> QED BY <1>1, <1>2, <2>2, <2>3, <2>4 DEF OnBoard
<1>5. OnBoard(u)'
  <2>1. PreviousOf(u, N + 1, N)' BY <1>1 DEF PreviousOf
  <2>2. operativa'[u] = Project(checked[u], N) BY <1>1, <1>3
  <2>3. CASE checked[u].tipo = "SALIDA"
    <3>1. operativa'[u] = [salida |-> N, driver |-> checked[u].driver,
                           last |-> checked[u].driver, at |-> checked[u].at]
      BY <2>2, <2>3 DEF Project
    <3> QED BY <1>1, <1>2, <2>1, <2>3, <3>1 DEF OnBoard
  <2>4. CASE checked[u].tipo = "ENTRADA"
    <3> PICK m : m = operativa[u].salida OBVIOUS
    <3>1. m # 0 BY <1>1, <2>4 DEF Inv, Pending
    <3>2. m \in 1..(N - 1) /\ PreviousOf(u, N, m)
          /\ operativa[u].driver = movements[m].driver
      BY <3>1, <1>1, <1>2, RowOfUnitOut DEF Inv
    <3>3. movements[m].driver \in Drivers
      <4>1. movements \in Seq(Movement) BY DEF Inv, TypeOK
      <4>2. movements[m] \in Movement
        <5> HIDE DEF Movement
        <5> QED BY <4>1, <3>2, <1>1
      <4> QED BY <4>2 DEF Movement
    <3>4. operativa'[u].salida = 0 /\ operativa'[u].driver = NoDriver
          /\ operativa'[u].last = movements[m].driver /\ operativa'[u].at = checked[u].at
      BY <1>1, <2>2, <2>4, <3>2, <3>3, FleetAssumption DEF Project
    <3>5. PreviousOf(u, N, m)' /\ movements'[m] = movements[m] BY <1>1, <3>2
    <3> QED BY <1>1, <1>2, <2>1, <2>4, <3>2, <3>4, <3>5 DEF OnBoard
  <2> QED BY <1>1, <2>3, <2>4 DEF Movement, Tipos
<1> QED BY <1>4, <1>5 DEF BoardFollowsLog

(* The row of every unit after a commit: new for one, as it was for the    *)
(* others.                                                                 *)
LEMMA CommitRows ==
  ASSUME Inv, NEW u \in Units, Commit(u),
         NEW N \in Nat \ {0}, Len(movements) = N - 1,
         checked[u] \in Movement, checked[u].unit = u,
         operativa' = [operativa EXCEPT ![u] = Project(checked[u], N)]
  PROVE  /\ \A v \in Units \ {u} : operativa'[v] = operativa[v]
         /\ \A v \in Units : operativa[v].salida # 0 => operativa[v].salida \in 1..(N - 1)
         /\ \/ checked[u].tipo = "SALIDA" /\ operativa'[u].salida = N
            \/ checked[u].tipo = "ENTRADA" /\ operativa'[u].salida = 0
<1>1. operativa \in [Units -> Operativa] BY DEF Inv, TypeOK
<1>2. operativa'[u] = Project(checked[u], N) BY <1>1
<1>3. \A v \in Units \ {u} : operativa'[v] = operativa[v] BY <1>1
<1>4. \A v \in Units : operativa[v].salida # 0 => operativa[v].salida \in 1..(N - 1)
  BY RowOfUnitOut DEF Inv
<1>5. CASE checked[u].tipo = "SALIDA"
  BY <1>2, <1>3, <1>4, <1>5 DEF Project
<1>6. CASE checked[u].tipo = "ENTRADA"
  BY <1>2, <1>3, <1>4, <1>6 DEF Project
<1> QED BY <1>5, <1>6 DEF Movement, Tipos

LEMMA CommitKeepsDrivers ==
  ASSUME Inv, NEW u \in Units, Commit(u)
  PROVE  DriverOutOnce'
<1>1. PICK N \in Nat \ {0} :
         /\ Len(movements) = N - 1
         /\ Locked(u) /\ checked[u] \in Movement /\ checked[u].unit = u
         /\ movements'[N] = checked[u]
         /\ \A k \in 1..(N - 1) : movements'[k] = movements[k]
         /\ operativa' = [operativa EXCEPT ![u] = Project(checked[u], N)]
  BY Committed DEF Inv
<1>2. /\ \A v \in Units \ {u} : operativa'[v] = operativa[v]
      /\ \A v \in Units : operativa[v].salida # 0 => operativa[v].salida \in 1..(N - 1)
      /\ \/ checked[u].tipo = "SALIDA" /\ operativa'[u].salida = N
         \/ checked[u].tipo = "ENTRADA" /\ operativa'[u].salida = 0
  BY <1>1, CommitRows
<1> SUFFICES ASSUME NEW a \in Units, NEW b \in Units, NEW m, NEW n,
                    m = operativa'[a].salida, n = operativa'[b].salida,
                    m # 0, n # 0, m < n, movements'[m].driver = movements'[n].driver
             PROVE  movements'[n].seen < m
  BY DEF DriverOutOnce
<1>3. CASE a # u /\ b # u
  <2>1. m = operativa[a].salida /\ n = operativa[b].salida BY <1>2, <1>3
  <2>2. m \in 1..(N - 1) /\ n \in 1..(N - 1) BY <1>2, <2>1
  <2>3. movements[m].driver = movements[n].driver /\ movements'[n] = movements[n]
    BY <1>1, <2>2
  <2>4. \A v, w \in Units :
          operativa[v].salida # 0 /\ operativa[w].salida # 0
          /\ operativa[v].salida < operativa[w].salida
          /\ movements[operativa[v].salida].driver = movements[operativa[w].salida].driver
          => movements[operativa[w].salida].seen < operativa[v].salida
    BY DEF Inv, DriverOutOnce
  <2>5. movements[n].seen < m BY <2>1, <2>3, <2>4
  <2> QED BY <2>3, <2>5
<1>4. CASE b = u
  <2>1. n = N /\ checked[u].tipo = "SALIDA" BY <1>2, <1>4
  <2>2. a # u
    <3>1. SUFFICES ASSUME a = u PROVE FALSE OBVIOUS
    <3>2. m = N BY <1>2, <3>1
    <3>3. n = N /\ N \in Nat BY <1>1, <2>1
    <3> QED BY <3>2, <3>3
  <2>3. m = operativa[a].salida /\ m \in 1..(N - 1) BY <1>2, <2>2
  <2>4. movements[m].driver = checked[u].driver BY <1>1, <2>1, <2>3
  <2>5. ~(m <= checked[u].seen)
    BY <1>1, <2>1, <2>2, <2>3, <2>4 DEF Inv, Pending
  <2>6. checked[u].seen \in Nat BY <1>1 DEF Movement
  <2> QED BY <1>1, <2>1, <2>3, <2>5, <2>6
<1>5. CASE a = u /\ b # u
  <2>1. m = N /\ n \in 1..(N - 1) BY <1>2, <1>5
  <2> QED BY <2>1
<1> QED BY <1>3, <1>4, <1>5

LEMMA CommitKeepsPending ==
  ASSUME Inv, NEW u \in Units, Commit(u)
  PROVE  Pending'
<1>1. PICK N \in Nat \ {0} :
         /\ Len(movements) = N - 1 /\ Len(movements') = N
         /\ Locked(u) /\ checked[u] \in Movement /\ checked[u].unit = u
         /\ movements'[N] = checked[u]
         /\ \A k \in 1..(N - 1) : movements'[k] = movements[k]
         /\ operativa' = [operativa EXCEPT ![u] = Project(checked[u], N)]
         /\ checked' = [checked EXCEPT ![u] = Nothing]
  BY Committed DEF Inv
<1>2. /\ \A v \in Units \ {u} : operativa'[v] = operativa[v]
      /\ \A v \in Units : operativa[v].salida # 0 => operativa[v].salida \in 1..(N - 1)
      /\ \/ checked[u].tipo = "SALIDA" /\ operativa'[u].salida = N
         \/ checked[u].tipo = "ENTRADA" /\ operativa'[u].salida = 0
  BY <1>1, CommitRows
<1> SUFFICES ASSUME NEW w \in Units, Locked(w)', NEW q, q = checked'[w]
             PROVE  /\ q.seen <= N
                    /\ q.tipo = "SALIDA" =>
                         /\ operativa'[w].salida = 0
                         /\ \A v \in Units \ {w} :
                               operativa'[v].salida # 0 /\ operativa'[v].salida <= q.seen
                               => movements'[operativa'[v].salida].driver # q.driver
                    /\ q.tipo = "ENTRADA" =>
                         /\ operativa'[w].salida # 0
                         /\ q.at >= movements'[operativa'[w].salida].at
                         /\ q.km >= movements'[operativa'[w].salida].km
  BY <1>1 DEF Pending
<1>3. w # u /\ q = checked[w] /\ Locked(w)
  BY <1>1 DEF Inv, TypeOK, Locked
<1>4. q \in Movement /\ q.seen <= N - 1 /\ q.seen \in Nat
  <2>1. q \in Movement BY <1>3 DEF Inv, TypeOK, Locked
  <2>2. q.seen <= N - 1 BY <1>1, <1>3 DEF Inv, Pending
  <2> QED BY <2>1, <2>2 DEF Movement
<1>5. operativa'[w] = operativa[w] BY <1>2, <1>3
<1>6. ASSUME q.tipo = "SALIDA", NEW v \in Units \ {w},
             operativa'[v].salida # 0, operativa'[v].salida <= q.seen
      PROVE  movements'[operativa'[v].salida].driver # q.driver
  <2>1. CASE v = u
    BY <1>2, <1>4, <1>6, <2>1
  <2>2. CASE v # u
    <3>1. operativa'[v] = operativa[v] /\ operativa[v].salida \in 1..(N - 1)
      BY <1>2, <1>6, <2>2
    <3>2. movements[operativa[v].salida].driver # q.driver
      BY <1>3, <1>6, <3>1 DEF Inv, Pending
    <3> QED BY <1>1, <3>1, <3>2
  <2> QED BY <2>1, <2>2
<1>7. q.tipo = "SALIDA" => operativa'[w].salida = 0
  BY <1>3, <1>5 DEF Inv, Pending
<1>8. ASSUME q.tipo = "ENTRADA"
      PROVE  /\ operativa'[w].salida # 0
             /\ q.at >= movements'[operativa'[w].salida].at
             /\ q.km >= movements'[operativa'[w].salida].km
  <2>1. /\ operativa[w].salida # 0
        /\ q.at >= movements[operativa[w].salida].at
        /\ q.km >= movements[operativa[w].salida].km
    BY <1>3, <1>8 DEF Inv, Pending
  <2>2. operativa[w].salida \in 1..(N - 1) BY <1>2, <2>1
  <2> QED BY <1>1, <1>5, <2>1, <2>2
<1> QED BY <1>4, <1>6, <1>7, <1>8

LEMMA CheckKeepsPending ==
  ASSUME Inv, NEW kind \in Tipos, NEW u \in Units, NEW d \in Drivers,
         NEW at \in 0..MaxNow, NEW reading \in Km, Check(kind, u, d, at, reading)
  PROVE  Pending'
<1>1. PICK q \in Movement : /\ q.unit = u /\ q.seen = Len(movements) /\ Admissible(q)
                            /\ checked' = [checked EXCEPT ![u] = q]
                            /\ UNCHANGED <<now, movements, operativa, transitions>>
  BY CheckWrites DEF Inv
<1>2. Len(movements) \in Nat BY DEF Inv, TypeOK
<1> SUFFICES ASSUME NEW w \in Units, Locked(w)', NEW p, p = checked'[w]
             PROVE  /\ p.seen <= Len(movements)
                    /\ p.tipo = "SALIDA" =>
                         /\ operativa[w].salida = 0
                         /\ \A v \in Units \ {w} :
                               operativa[v].salida # 0 /\ operativa[v].salida <= p.seen
                               => movements[operativa[v].salida].driver # p.driver
                    /\ p.tipo = "ENTRADA" =>
                         /\ operativa[w].salida # 0
                         /\ p.at >= movements[operativa[w].salida].at
                         /\ p.km >= movements[operativa[w].salida].km
  BY <1>1 DEF Pending
<1>3. CASE w = u
  <2>1. p = q BY <1>1, <1>3 DEF Inv, TypeOK
  <2> QED BY <1>1, <1>2, <1>3, <2>1 DEF Admissible, DriverAway
<1>4. CASE w # u
  <2>1. p = checked[w] /\ Locked(w) BY <1>1, <1>4 DEF Inv, TypeOK, Locked
  <2> QED BY <2>1 DEF Inv, Pending
<1> QED BY <1>3, <1>4

(* A step that writes neither the log nor the board, and starts nothing.   *)
LEMMA QuietStep ==
  ASSUME Inv, UNCHANGED <<movements, operativa>>,
         \A w \in Units : Locked(w)' => Locked(w) /\ checked'[w] = checked[w]
  PROVE  Pending'
BY DEF Inv, Pending

LEMMA BoardUntouched ==
  ASSUME Inv, UNCHANGED <<movements, operativa>>
  PROVE  Alternate' /\ BoardFollowsLog' /\ DriverOutOnce'
<1>1. \A v, n, m : PreviousOf(v, n, m)' <=> PreviousOf(v, n, m) BY DEF PreviousOf
<1>2. \A n : InTurn(n)' <=> InTurn(n) BY <1>1 DEF InTurn
<1>3. \A u \in Units : OnBoard(u)' <=> OnBoard(u) BY <1>1 DEF OnBoard
<1>4. Alternate' BY <1>2 DEF Inv, Alternate
<1>5. BoardFollowsLog' BY <1>3 DEF Inv, BoardFollowsLog
<1>6. DriverOutOnce' BY DEF Inv, DriverOutOnce
<1> QED BY <1>4, <1>5, <1>6

LEMMA InitInv == Init => Inv
<1> SUFFICES ASSUME Init PROVE Inv OBVIOUS
<1>1. TypeOK BY InitType
<1>2. DOMAIN movements = {} BY DEF Init
<1>3. Alternate BY <1>2 DEF Alternate
<1>4. BoardFollowsLog BY <1>2 DEF BoardFollowsLog, OnBoard, Init
<1>5. DriverOutOnce BY DEF DriverOutOnce, Init, NoRow
<1>6. Pending BY DEF Pending, Init, Locked
<1> QED BY <1>1, <1>3, <1>4, <1>5, <1>6 DEF Inv

LEMMA NextInv == Inv /\ [Next]_vars => Inv'
<1> SUFFICES ASSUME Inv, [Next]_vars PROVE Inv' OBVIOUS
<1>1. TypeOK' BY NextType DEF Inv
<1>2. CASE Tick
  <2>1. UNCHANGED <<movements, operativa, checked>> BY <1>2 DEF Tick
  <2>2. Pending' BY <2>1, QuietStep DEF Locked
  <2> QED BY <1>1, <2>1, <2>2, BoardUntouched DEF Inv
<1>3. ASSUME NEW kind \in Tipos, NEW u \in Units, NEW d \in Drivers,
             NEW at \in 0..MaxNow, NEW reading \in Km, Check(kind, u, d, at, reading)
      PROVE  Inv'
  <2>1. Pending' BY <1>3, CheckKeepsPending
  <2>2. UNCHANGED <<movements, operativa>> BY <1>3 DEF Check
  <2> QED BY <1>1, <2>1, <2>2, BoardUntouched DEF Inv
<1>4. ASSUME NEW u \in Units, Rollback(u)
      PROVE  Inv'
  <2>1. UNCHANGED <<movements, operativa>> /\ checked' = [checked EXCEPT ![u] = Nothing]
    BY <1>4 DEF Rollback
  <2>2. \A w \in Units : Locked(w)' => Locked(w) /\ checked'[w] = checked[w]
    BY <2>1 DEF Inv, TypeOK, Locked
  <2>3. Pending' BY <2>1, <2>2, QuietStep
  <2> QED BY <1>1, <2>1, <2>3, BoardUntouched DEF Inv
<1>5. ASSUME NEW u \in Units, Commit(u)
      PROVE  Inv'
  BY <1>1, <1>5, CommitAlternates, CommitKeepsBoard, CommitKeepsDrivers,
     CommitKeepsPending DEF Inv
<1>6. ASSUME NEW u \in Units, NEW state \in States, Transition(u, state)
      PROVE  Inv'
  <2>1. UNCHANGED <<movements, operativa, checked>> BY <1>6 DEF Transition
  <2>2. Pending' BY <2>1, QuietStep DEF Locked
  <2> QED BY <1>1, <2>1, <2>2, BoardUntouched DEF Inv
<1>7. CASE UNCHANGED vars
  <2>1. UNCHANGED <<movements, operativa, checked>> BY <1>7 DEF vars
  <2>2. Pending' BY <2>1, QuietStep DEF Locked
  <2> QED BY <1>1, <2>1, <2>2, BoardUntouched DEF Inv
<1> QED BY <1>2, <1>3, <1>4, <1>5, <1>6, <1>7 DEF Next

LEMMA Invariance == Spec => []Inv
BY InitInv, NextInv, PTL DEF Spec
-----------------------------------------------------------------------------
(* Every row of the yard keeps the shape of its table, and a transaction   *)
(* works on the unit whose lock it holds.                                  *)
THEOREM RowsKeepTheirShape == Spec => []TypeOK
BY Invariance, PTL DEF Inv

(* F1, F2, F6 and F7: departures and returns of a unit alternate, and a    *)
(* return is not earlier, nor on fewer kilometres, than its departure.     *)
THEOREM MovementsAlternate == Spec => []Alternate
BY Invariance, PTL DEF Inv

(* The board of the yard says of every unit what the log says.             *)
THEOREM BoardIsTheLog == Spec => []BoardFollowsLog
BY Invariance, PTL DEF Inv

(* F9 up to the race that the lock of a single unit leaves open.           *)
THEOREM DriverGoesOutOnce == Spec => []DriverOutOnce
BY Invariance, PTL DEF Inv

(* One movement comes first by time when the forms of a unit are dated in  *)
(* the order they are registered: the last one.                            *)
LEMMA LastIsLatest ==
  ASSUME TypeOK, NEW u \in Units, DatedInOrder(u),
         NEW m, PreviousOf(u, Len(movements) + 1, m)
  PROVE  LatestMovements(u) = {m}
<1>1. Len(movements) \in Nat /\ DOMAIN movements = 1..Len(movements)
  BY DEF TypeOK
<1>2. m \in DOMAIN movements /\ movements[m].unit = u
  BY <1>1 DEF PreviousOf
<1>3. ASSUME NEW k \in DOMAIN movements, movements[k].unit = u, k # m
      PROVE  movements[k].at < movements[m].at
  <2>1. k < m BY <1>1, <1>2, <1>3 DEF PreviousOf
  <2> QED BY <1>2, <1>3, <2>1 DEF DatedInOrder
<1>4. \A k \in DOMAIN movements : movements[k].at \in Nat
  <2>1. \A k \in DOMAIN movements : movements[k] \in Movement BY <1>1 DEF TypeOK
  <2> QED BY <2>1 DEF Movement
<1>5. m \in LatestMovements(u)
  <2>1. \A k \in DOMAIN movements : movements[k].unit = u => movements[k].at <= movements[m].at
    BY <1>2, <1>3, <1>4
  <2> QED BY <1>2, <2>1 DEF LatestMovements
<1>6. ASSUME NEW n \in LatestMovements(u) PROVE n = m
  <2>1. n \in DOMAIN movements /\ movements[n].unit = u /\ movements[m].at <= movements[n].at
    BY <1>2 DEF LatestMovements
  <2> QED BY <1>2, <1>3, <1>4, <2>1
<1> QED BY <1>5, <1>6

(* The physical state is read from the movements and from what is recorded *)
(* by hand, and agrees with the row that projects the movements.           *)
LEMMA PhysicalIsTheBoard == TypeOK /\ BoardFollowsLog => PhysicalFollowsBoard
<1> SUFFICES ASSUME TypeOK, BoardFollowsLog, NEW u \in Units,
                    \E n \in DOMAIN movements : movements[n].unit = u,
                    DatedInOrder(u),
                    \A t \in DOMAIN transitions[u] : transitions[u][t].at < operativa[u].at
             PROVE  PhysicalStates(u) = {IF operativa[u].salida # 0 THEN "EN_RUTA" ELSE "EN_PATIO"}
  BY DEF PhysicalFollowsBoard
<1>1. Len(movements) \in Nat /\ DOMAIN movements = 1..Len(movements)
  BY DEF TypeOK
<1>2. PICK m \in DOMAIN movements :
         /\ PreviousOf(u, Len(movements) + 1, m)
         /\ operativa[u].at = movements[m].at
         /\ \/ movements[m].tipo = "SALIDA" /\ operativa[u].salida = m
            \/ movements[m].tipo = "ENTRADA" /\ operativa[u].salida = 0
  BY DEF BoardFollowsLog, OnBoard
<1>3. LatestMovements(u) = {m} BY <1>2, LastIsLatest
<1>4. Moved(m) = IF operativa[u].salida # 0 THEN "EN_RUTA" ELSE "EN_PATIO"
  BY <1>1, <1>2 DEF Moved
<1>5. /\ movements[m].at \in Nat
      /\ \A t \in DOMAIN transitions[u] : transitions[u][t].at \in Nat
  <2>1. movements[m] \in Movement BY <1>1 DEF TypeOK
  <2>2. \A t \in DOMAIN transitions[u] : transitions[u][t] \in [state : States, at : Nat]
    <3> DEFINE Row == [state : States, at : Nat]
               log == transitions[u]
    <3>1. log \in Seq(Row) BY DEF TypeOK
    <3> HIDE DEF Row, log
    <3>2. \A t \in DOMAIN log : log[t] \in Row BY <3>1
    <3> QED BY <3>2 DEF Row, log
  <2> QED BY <2>1, <2>2 DEF Movement
<1>6. \A t \in LatestTransitions(u) :
         transitions[u][t].at < movements[m].at /\ ~(transitions[u][t].at >= movements[m].at)
  BY <1>2, <1>5 DEF LatestTransitions
<1>7. {t \in LatestTransitions(u) :
          \A n \in LatestMovements(u) : transitions[u][t].at >= movements[n].at} = {}
  BY <1>3, <1>6
<1>8. {n \in LatestMovements(u) :
          \A t \in LatestTransitions(u) : transitions[u][t].at < movements[n].at} = {m}
  BY <1>3, <1>6
<1> QED BY <1>4, <1>7, <1>8 DEF PhysicalStates

(* Departures and CHECK rely on a physical state that agrees with the      *)
(* board, for any number of units, movements and transitions.              *)
THEOREM PhysicalStateIsTheBoard == Spec => []PhysicalFollowsBoard
<1>1. Inv => PhysicalFollowsBoard BY PhysicalIsTheBoard DEF Inv
<1> QED BY <1>1, Invariance, PTL

-----------------------------------------------------------------------------
(* The score of the health of a unit, by itself.                           *)
(* Products keep an order.                                                 *)
LEMMA MulMono ==
  ASSUME NEW a \in Int, NEW b \in Int, NEW c \in Nat, a <= b
  PROVE  a * c <= b * c
OBVIOUS

(* A positive factor can be dropped.                                       *)
LEMMA Cancel ==
  ASSUME NEW a \in Int, NEW b \in Int, NEW c \in Nat \ {0}, a * c <= b * c
  PROVE  a <= b
<1> SUFFICES ASSUME b + 1 <= a PROVE FALSE OBVIOUS
<1>1. (b + 1) * c <= a * c BY MulMono
<1>2. (b + 1) * c = b * c + c OBVIOUS
<1> QED BY <1>1, <1>2

(* The order of fractions is transitive.                                   *)
LEMMA Cross ==
  ASSUME NEW a \in Nat, NEW b \in Nat \ {0}, NEW c \in Nat, NEW d \in Nat \ {0},
         NEW e \in Nat, NEW f \in Nat \ {0},
         a * d <= c * b, c * f <= e * d
  PROVE  a * f <= e * b
<1>1. (a * d) * f <= (c * b) * f BY MulMono
<1>2. (c * f) * b <= (e * d) * b BY MulMono
<1>3. (a * d) * f = (a * f) * d /\ (c * b) * f = (c * f) * b /\ (e * d) * b = (e * b) * d
  OBVIOUS
<1>4. (a * f) * d <= (e * b) * d BY <1>1, <1>2, <1>3
<1> QED BY <1>4, Cancel

(* The quotient is the greatest multiple that fits.                         *)
LEMMA Quotient ==
  ASSUME NEW a \in Nat, NEW b \in Nat \ {0}
  PROVE  /\ a \div b \in Nat
         /\ (a \div b) * b <= a
         /\ \A x \in Int : x * b <= a => x <= a \div b
<1>1. a \div b \in Int /\ a = b * (a \div b) + (a % b) /\ a % b \in 0..(b - 1) OBVIOUS
<1>2. (a \div b) * b <= a BY <1>1
<1>3. a < (a \div b + 1) * b BY <1>1
<1>4. ASSUME NEW x \in Int, x * b <= a PROVE x <= a \div b
  <2> SUFFICES ASSUME a \div b + 1 <= x PROVE FALSE BY <1>1
  <2>1. (a \div b + 1) * b <= x * b BY <1>1, MulMono
  <2> QED BY <1>1, <1>3, <1>4, <2>1
<1>5. 0 * b <= a OBVIOUS
<1> QED BY <1>1, <1>2, <1>4, <1>5

(* Rounding keeps the order of fractions.                                  *)
LEMMA Rounds ==
  ASSUME NEW a \in Nat, NEW b \in Nat \ {0}, NEW c \in Nat, NEW d \in Nat \ {0},
         a * d <= c * b
  PROVE  (2 * a + b) \div (2 * b) <= (2 * c + d) \div (2 * d)
<1> DEFINE x == (2 * a + b) \div (2 * b)
<1>0. 2 * a + b \in Nat /\ 2 * b \in Nat \ {0} /\ 2 * c + d \in Nat /\ 2 * d \in Nat \ {0}
  OBVIOUS
<1>1. x \in Nat /\ x * (2 * b) <= 2 * a + b BY <1>0, Quotient
<1> HIDE DEF x
<1>2. (x * (2 * b)) * d <= (2 * a + b) * d BY <1>1, MulMono
<1>3. (2 * a + b) * d = 2 * (a * d) + b * d /\ (2 * c + d) * b = 2 * (c * b) + b * d OBVIOUS
<1>4. (x * (2 * b)) * d = (x * (2 * d)) * b BY <1>1
<1>7. a * d \in Int /\ c * b \in Int /\ b * d \in Int OBVIOUS
<1>8. (2 * a + b) * d <= (2 * c + d) * b BY <1>3, <1>7
<1>9. (2 * a + b) * d \in Int /\ (2 * c + d) * b \in Int /\ (x * (2 * b)) * d \in Int BY <1>1
<1>5. (x * (2 * d)) * b <= (2 * c + d) * b BY <1>2, <1>8, <1>9, <1>4
<1>6. x * (2 * d) <= 2 * c + d BY <1>1, <1>5, Cancel
<1> QED BY <1>0, <1>1, <1>6, Quotient DEF x

(* So does a weighted mean.                                                *)
LEMMA Mixed ==
  ASSUME NEW a \in Nat, NEW b \in Nat \ {0}, NEW c \in Nat, NEW d \in Nat \ {0},
         NEW u \in Nat, NEW v \in Nat, NEW s \in Nat, NEW x \in Nat, NEW y \in Nat,
         a * d <= c * b, x <= y
  PROVE  (a * u + x * v * b) * (s * d) <= (c * u + y * v * d) * (s * b)
<1>1. (a * d) * (u * s) <= (c * b) * (u * s) BY MulMono
<1>2. x * (v * s * b * d) <= y * (v * s * b * d) BY MulMono
<1>3. (a * u + x * v * b) * (s * d) = (a * d) * (u * s) + x * (v * s * b * d) OBVIOUS
<1>4. (c * u + y * v * d) * (s * b) = (c * b) * (u * s) + y * (v * s * b * d) OBVIOUS
<1> QED BY <1>1, <1>2, <1>3, <1>4
-----------------------------------------------------------------------------
(* H3 of ADR-004, for every interval and whatever is left of it or has     *)
(* been exceeded: the score of an axis lies between 0 and 100, a day or a  *)
(* kilometre more of use never raises it, and takes at most 55 points per  *)
(* 15 % of the interval: there is no cliff at any edge of the window.      *)
THEOREM CurveFallsWithoutCliff ==
  ASSUME NEW n \in Nat \ {0}, NEW rest \in Int
  PROVE  /\ Curve(rest, n) \in 0..(5100 * n)
         /\ Curve(rest - 1, n) <= Curve(rest, n)
         /\ Curve(rest, n) - Curve(rest - 1, n) <= 20 * 935
<1> DEFINE r == 20 * rest
<1>1. r \in Int /\ 20 * (rest - 1) = r - 20 OBVIOUS
<1>2. CASE r >= 20 * n BY <1>1, <1>2 DEF Curve
<1>3. CASE r < 20 * n /\ r >= 3 * n BY <1>1, <1>3 DEF Curve
<1>4. CASE r < 3 * n /\ r >= 0 BY <1>1, <1>4 DEF Curve
<1>5. CASE r < 0 /\ r >= -3 * n BY <1>1, <1>5 DEF Curve
<1>6. CASE r < -3 * n /\ r >= -20 * n BY <1>1, <1>6 DEF Curve
<1>7. CASE r < -20 * n BY <1>1, <1>7 DEF Curve
<1> QED BY <1>1, <1>2, <1>3, <1>4, <1>5, <1>6, <1>7

(* The same for the curve over any two uses.                               *)
LEMMA CurveFalls ==
  ASSUME NEW n \in Nat \ {0}, NEW x \in Int, NEW y \in Int, x <= y
  PROVE  Curve(x, n) \in Nat /\ Curve(x, n) <= Curve(y, n) /\ Curve(y, n) <= 100 * (51 * n)
<1>1. 20 * x \in Int /\ 20 * y \in Int /\ 20 * x <= 20 * y OBVIOUS
<1>2. Curve(y, n) <= 100 * (51 * n) BY <1>1 DEF Curve
<1>3. Curve(x, n) \in Nat BY <1>1 DEF Curve
<1>4. CASE 20 * x >= 20 * n BY <1>1, <1>4 DEF Curve
<1>5. CASE 20 * x < 20 * n /\ 20 * x >= 3 * n BY <1>1, <1>5 DEF Curve
<1>6. CASE 20 * x < 3 * n /\ 20 * x >= 0 BY <1>1, <1>6 DEF Curve
<1>7. CASE 20 * x < 0 /\ 20 * x >= -3 * n BY <1>1, <1>7 DEF Curve
<1>8. CASE 20 * x < -3 * n /\ 20 * x >= -20 * n BY <1>1, <1>8 DEF Curve
<1>9. CASE 20 * x < -20 * n BY <1>1, <1>9 DEF Curve
<1> QED BY <1>1, <1>2, <1>3, <1>4, <1>5, <1>6, <1>7, <1>8, <1>9

Below(a, b) == a.num * b.den <= b.num * a.den

LEMMA BelowTransitive ==
  ASSUME NEW a \in Fractions, NEW b \in Fractions, NEW c \in Fractions,
         Below(a, b), Below(b, c)
  PROVE  Below(a, c)
<1>1. /\ a.num \in Nat /\ a.den \in Nat \ {0} /\ b.num \in Nat /\ b.den \in Nat \ {0}
      /\ c.num \in Nat /\ c.den \in Nat \ {0}
  BY DEF Fractions
<1> QED BY <1>1, Cross DEF Below

LEMMA LeastType ==
  ASSUME NEW a \in Fractions, NEW b \in Fractions
  PROVE  /\ Least[<<a, b>>] \in {a, b}
         /\ Below(Least[<<a, b>>], a) /\ Below(Least[<<a, b>>], b)
<1>1. /\ a.num \in Nat /\ a.den \in Nat \ {0} /\ b.num \in Nat /\ b.den \in Nat \ {0}
  BY DEF Fractions
<1>2. a.num * b.den \in Int /\ b.num * a.den \in Int /\ a.num * a.den \in Int
      /\ b.num * b.den \in Int
  BY <1>1
<1>3. <<a, b>> \in Fractions \X Fractions /\ <<a, b>>[1] = a /\ <<a, b>>[2] = b OBVIOUS
<1>4. Least[<<a, b>>] = IF a.num * b.den <= b.num * a.den THEN a ELSE b BY <1>3 DEF Least
<1> QED BY <1>2, <1>4 DEF Below

LEMMA LeastFalls ==
  ASSUME NEW a \in Fractions, NEW b \in Fractions, NEW c \in Fractions, NEW d \in Fractions,
         Below(a, c), Below(b, d)
  PROVE  Below(Least[<<a, b>>], Least[<<c, d>>])
<1> DEFINE x == Least[<<a, b>>]
<1>1. x \in {a, b} /\ Below(x, a) /\ Below(x, b) BY LeastType
<1>2. x \in Fractions BY <1>1
<1> HIDE DEF x
<1>3. Below(x, c) /\ Below(x, d) BY <1>1, <1>2, BelowTransitive
<1>4. Below(x, Least[<<c, d>>]) BY <1>3, LeastType
<1> QED BY <1>4 DEF x

LEMMA AxisFalls ==
  ASSUME NEW n \in Nat \ {0}, NEW used \in Int, NEW more \in Int, used <= more
  PROVE  /\ AxisScore(used, n) \in Fractions /\ AxisScore(more, n) \in Fractions
         /\ Below(AxisScore(more, n), AxisScore(used, n))
         /\ Below(AxisScore(used, n), Fraction(100, 1))
<1>1. n - used \in Int /\ n - more \in Int /\ n - more <= n - used OBVIOUS
<1>2. /\ Curve(n - used, n) \in Nat /\ Curve(n - more, n) \in Nat
      /\ Curve(n - more, n) <= Curve(n - used, n) /\ Curve(n - used, n) <= 100 * (51 * n)
  BY <1>1, CurveFalls
<1>3. 51 * n \in Nat \ {0} OBVIOUS
<1>4. Curve(n - more, n) * (51 * n) <= Curve(n - used, n) * (51 * n) BY <1>2, <1>3, MulMono
<1> QED BY <1>2, <1>3, <1>4 DEF AxisScore, Fraction, Fractions, Below

LEMMA WeightedFalls ==
  ASSUME NEW a \in Fractions, NEW b \in Fractions, NEW w \in Weights, Below(a, b),
         NEW x \in Nat, NEW y \in Nat, x <= y
  PROVE  /\ WeightedRaw(a, x, w) \in Fractions /\ WeightedRaw(b, y, w) \in Fractions
         /\ Below(WeightedRaw(a, x, w), WeightedRaw(b, y, w))
<1> DEFINE u == w.maintenance
           v == w.alerts
           s == u + v
<1>1. /\ a.num \in Nat /\ a.den \in Nat \ {0} /\ b.num \in Nat /\ b.den \in Nat \ {0}
      /\ u \in Nat /\ v \in Nat /\ s \in Nat
  BY DEF Fractions, Weights
<1>2. CASE s = 0
  BY <1>2 DEF WeightedRaw, Fraction, Fractions, Below
<1>3. CASE s # 0
  <2>1. /\ a.num * u + x * v * a.den \in Nat /\ s * a.den \in Nat \ {0}
        /\ b.num * u + y * v * b.den \in Nat /\ s * b.den \in Nat \ {0}
    BY <1>1, <1>3
  <2>2. (a.num * u + x * v * a.den) * (s * b.den) <= (b.num * u + y * v * b.den) * (s * a.den)
    BY <1>1, Mixed DEF Below
  <2>3. /\ WeightedRaw(a, x, w) = Fraction(a.num * u + x * v * a.den, s * a.den)
        /\ WeightedRaw(b, y, w) = Fraction(b.num * u + y * v * b.den, s * b.den)
    BY <1>3 DEF WeightedRaw
  <2> HIDE DEF u, v, s
  <2> QED BY <2>1, <2>2, <2>3 DEF Fraction, Fractions, Below
<1> QED BY <1>2, <1>3

LEMMA CappedFalls ==
  ASSUME NEW a \in Fractions, NEW b \in Fractions, NEW f \in Fractions, NEW g \in Fractions,
         Below(a, b), Below(f, g)
  PROVE  /\ Capped(f, a) \in Fractions /\ Capped(g, b) \in Fractions
         /\ Below(Capped(f, a), Capped(g, b))
<1> DEFINE half == Fraction(50, 1)
           bound == Fraction(14, 1)
           low(m) == m.num <= 14 * m.den
<1>1. half \in Fractions /\ bound \in Fractions BY DEF Fraction, Fractions
<1>2. ASSUME NEW m \in Fractions PROVE low(m) <=> Below(m, bound)
  BY DEF Fraction, Fractions, Below
<1>3. Below(half, half) BY DEF Fraction, Below
<1>4. low(b) => low(a) BY <1>1, <1>2, BelowTransitive
<1>5. /\ Capped(f, a) = IF low(a) THEN Least[<<f, half>>] ELSE f
      /\ Capped(g, b) = IF low(b) THEN Least[<<g, half>>] ELSE g
  BY DEF Capped
<1> HIDE DEF half, bound, low
<1>6. Least[<<f, half>>] \in {f, half} /\ Least[<<g, half>>] \in {g, half}
      /\ Below(Least[<<f, half>>], f)
  BY <1>1, LeastType
<1>7. Capped(f, a) \in Fractions /\ Capped(g, b) \in Fractions BY <1>1, <1>5, <1>6
<1>8. Below(Least[<<f, half>>], Least[<<g, half>>]) BY <1>1, <1>3, LeastFalls
<1>9. Below(Least[<<f, half>>], g) BY <1>1, <1>6, BelowTransitive
<1> QED BY <1>4, <1>5, <1>7, <1>8, <1>9

LEMMA DisplayFalls ==
  ASSUME NEW f \in Fractions, NEW g \in Fractions, Below(f, g)
  PROVE  Display[f] <= Display[g]
<1>1. /\ f.num \in Nat /\ f.den \in Nat \ {0} /\ g.num \in Nat /\ g.den \in Nat \ {0}
  BY DEF Fractions
<1>2. (2 * f.num + f.den) \div (2 * f.den) <= (2 * g.num + g.den) \div (2 * g.den)
  BY <1>1, Rounds DEF Below
<1> QED BY <1>2 DEF Display

(* H3 and H5 of ADR-004, for every interval and all weights: more          *)
(* kilometres, more days or an aviso never raise the score that is shown,  *)
(* whatever edge of a window, cap or rounding lies between.                *)
THEOREM WearNeverRaisesTheScore ==
  ASSUME NEW nKm \in Nat \ {0}, NEW nDias \in Nat \ {0}, NEW w \in Weights,
         NEW km1 \in Int, NEW km2 \in Int, km1 <= km2,
         NEW d1 \in Int, NEW d2 \in Int, d1 <= d2,
         NEW a1 \in BOOLEAN, NEW a2 \in BOOLEAN, a1 => a2
  PROVE  Score(km2, nKm, d2, nDias, a2, w) <= Score(km1, nKm, d1, nDias, a1, w)
<1> DEFINE m1 == MaintenanceScore(km1, nKm, d1, nDias)
           m2 == MaintenanceScore(km2, nKm, d2, nDias)
           x1 == AlertsScore(a1)
           x2 == AlertsScore(a2)
<1>1. /\ AxisScore(km1, nKm) \in Fractions /\ AxisScore(km2, nKm) \in Fractions
      /\ Below(AxisScore(km2, nKm), AxisScore(km1, nKm))
  BY AxisFalls
<1>2. /\ AxisScore(d1, nDias) \in Fractions /\ AxisScore(d2, nDias) \in Fractions
      /\ Below(AxisScore(d2, nDias), AxisScore(d1, nDias))
  BY AxisFalls
<1>3. Below(m2, m1) BY <1>1, <1>2, LeastFalls DEF MaintenanceScore
<1>4. m1 \in Fractions /\ m2 \in Fractions BY <1>1, <1>2, LeastType DEF MaintenanceScore
<1>5. x1 \in Nat /\ x2 \in Nat /\ x2 <= x1 BY DEF AlertsScore
<1> HIDE DEF m1, m2, x1, x2
<1>6. /\ WeightedRaw(m1, x1, w) \in Fractions /\ WeightedRaw(m2, x2, w) \in Fractions
      /\ Below(WeightedRaw(m2, x2, w), WeightedRaw(m1, x1, w))
  BY <1>3, <1>4, <1>5, WeightedFalls
<1>7. /\ Capped(WeightedRaw(m1, x1, w), m1) \in Fractions
      /\ Capped(WeightedRaw(m2, x2, w), m2) \in Fractions
      /\ Below(Capped(WeightedRaw(m2, x2, w), m2), Capped(WeightedRaw(m1, x1, w), m1))
  BY <1>3, <1>4, <1>6, CappedFalls
<1>8. Display[Capped(WeightedRaw(m2, x2, w), m2)] <= Display[Capped(WeightedRaw(m1, x1, w), m1)]
  BY <1>7, DisplayFalls
<1>9. /\ FinalScore(x1, w)[m1] = Display[Capped(WeightedRaw(m1, x1, w), m1)]
      /\ FinalScore(x2, w)[m2] = Display[Capped(WeightedRaw(m2, x2, w), m2)]
  BY <1>4 DEF FinalScore
<1> QED BY <1>8, <1>9 DEF Score, m1, m2, x1, x2

-----------------------------------------------------------------------------
(* What the last close and the close in progress say of the unit is a day  *)
(* and an odometer.                                                        *)
Dated ==
    /\ today \in Days /\ km \in Kms /\ lastClose \in Closed /\ aviso \in BOOLEAN
    /\ DOMAIN requests = Requests
    /\ \A r \in Requests :
         "closed" \in DOMAIN requests[r] /\ requests[r].closed \in Closed

LEMMA ClosedType ==
  /\ NeverClosed \in Closed
  /\ NoRequest.closed = NeverClosed /\ "closed" \in DOMAIN NoRequest
BY SaludAssumption DEF NeverClosed, Closed, NoRequest

(* What a step may do to the close that a request carries.                 *)
Carried(r) ==
    /\ DOMAIN requests' = Requests
    /\ \A q \in Requests \ {r} : requests'[q] = requests[q]
    /\ "closed" \in DOMAIN requests'[r] /\ requests'[r].closed \in Closed

LEMMA CarriedIsDated ==
  ASSUME Dated, NEW r \in Requests, Carried(r), today' \in Days, km' \in Kms,
         lastClose' \in Closed, aviso' \in BOOLEAN
  PROVE  Dated'
BY DEF Dated, Carried

LEMMA FinishesCarries ==
  ASSUME Dated, NEW r \in Requests, Finishes(r)
  PROVE  Carried(r)
BY ClosedType DEF Dated, Finishes, Carried

LEMMA MovesToCarries ==
  ASSUME Dated, NEW r \in Requests, NEW step, MovesTo(r, step)
  PROVE  Carried(r)
BY DEF Dated, MovesTo, Carried

LEMMA DatedInitially == SaludInit => Dated
<1> SUFFICES ASSUME SaludInit PROVE Dated OBVIOUS
<1>1. [visita |-> TRUE, km |-> 0, day |-> 0] \in Closed
  BY SaludAssumption DEF Closed
<1> QED BY <1>1, ClosedType, SaludAssumption DEF SaludInit, Dated

LEMMA RequestStepCarries ==
  ASSUME Dated, NEW r \in Requests,
         \/ Advance(r) \/ Stop(r) \/ Get(r)
         \/ BeginClose(r) \/ Deactivate(r)
  PROVE  Carried(r)
<1>1. CASE InsertConfig(r) BY <1>1, MovesToCarries DEF InsertConfig
<1>2. CASE ReadConfig(r)
  <2>1. CASE configs = {} /\ MovesTo(r, "SEED") BY <2>1, MovesToCarries
  <2>2. CASE \E p \in configs :
                requests' = [requests EXCEPT ![r].step = "CLOSED", ![r].policy = p]
    BY <2>2 DEF Dated, Carried
  <2> QED BY <1>2, <2>1, <2>2 DEF ReadConfig
<1>3. CASE Seed(r) BY <1>3 DEF Seed, Dated, Carried
<1>4. CASE ReadClosed(r) BY <1>4 DEF ReadClosed, Dated, Carried
<1>5. CASE Compute(r)
  <2>1. PICK x : requests' = [requests EXCEPT ![r].step = "SNAPSHOT", ![r].score = x,
                                              ![r].read = NeverClosed]
    BY <1>5 DEF Compute
  <2> QED BY <2>1 DEF Dated, Carried
<1>6. CASE ReadSnapshot(r) BY <1>6 DEF ReadSnapshot, Dated, Carried
<1>7. CASE Decide(r)
  <2> DEFINE then(x, y) == [requests EXCEPT ![r].step = x, ![r].alert = y,
                                     ![r].previous = NoScore, ![r].policy = Default]
             x(d) == IF d = "CREATE" THEN "INSERT"
                     ELSE IF d = "RESOLVE" THEN "RESOLVE" ELSE "SAVE"
             y(a, d) == IF d = "RESOLVE" THEN a ELSE 0
             choice == IF open = {} THEN {0} ELSE open
  <2>1. \E d : \E a \in choice : requests' = then(x(d), y(a, d))
    BY <1>7, ZenonT(60) DEF Decide
  <2> HIDE DEF x, y, choice
  <2>2. PICK s, b : requests' = then(s, b) BY <2>1
  <2> QED BY <2>2 DEF Dated, Carried
<1>8. CASE InsertAlert(r) BY <1>8, MovesToCarries DEF InsertAlert
<1>9. CASE ResolveAlert(r) BY <1>9 DEF ResolveAlert, Dated, Carried
<1>10. CASE SaveSnapshot(r)
  <2>1. CASE Finishes(r) BY <2>1, FinishesCarries
  <2>2. CASE requests' = [requests EXCEPT ![r] =
                 [NoRequest EXCEPT !.kind = "CLOSE", !.step = "COMMIT",
                                     !.closed = requests[r].closed]]
    <3> DEFINE q == [NoRequest EXCEPT !.kind = "CLOSE", !.step = "COMMIT",
                                 !.closed = requests[r].closed]
    <3>1. "closed" \in DOMAIN q /\ q.closed = requests[r].closed BY DEF NoRequest
    <3> HIDE DEF q
    <3>2. requests' = [requests EXCEPT ![r] = q] BY <2>2 DEF q
    <3> QED BY <3>1, <3>2 DEF Dated, Carried
  <2> QED BY <1>10, <2>1, <2>2 DEF SaveSnapshot
<1>11. CASE CommitVisita(r) BY <1>11, FinishesCarries DEF CommitVisita
<1>12. CASE Stop(r) BY <1>12, FinishesCarries DEF Stop
<1>13. CASE Get(r)
  <2> DEFINE q == [NoRequest EXCEPT !.step = "CONFIG"]
  <2>1. "closed" \in DOMAIN q /\ q.closed = NeverClosed BY DEF NoRequest
  <2>2. requests' = [requests EXCEPT ![r] = q] BY <1>13 DEF Get, Begins
  <2> HIDE DEF q
  <2> QED BY <2>1, <2>2, ClosedType DEF Dated, Carried
<1>14. CASE BeginClose(r)
  <2>1. PICK k \in Kms : Begins(r, [NoRequest EXCEPT !.kind = "CLOSE", !.step = "CONFIG",
                                     !.closed = [visita |-> TRUE, km |-> k, day |-> today]])
    BY <1>14 DEF BeginClose
  <2> DEFINE c == [visita |-> TRUE, km |-> k, day |-> today]
             q == [NoRequest EXCEPT !.kind = "CLOSE", !.step = "CONFIG", !.closed = c]
  <2>2. c \in Closed BY DEF Dated, Closed
  <2>3. "closed" \in DOMAIN q /\ q.closed = c BY DEF NoRequest
  <2>4. requests' = [requests EXCEPT ![r] = q] BY <2>1 DEF Begins
  <2> HIDE DEF q, c
  <2> QED BY <2>2, <2>3, <2>4 DEF Dated, Carried
<1>15. CASE Deactivate(r)
  <2>1. PICK p \in Policies :
           Begins(r, [NoRequest EXCEPT
                             !.kind = "PUT", !.step = "INSERT_CONFIG", !.policy = p])
    BY <1>15 DEF Deactivate
  <2> DEFINE q == [NoRequest EXCEPT !.kind = "PUT", !.step = "INSERT_CONFIG", !.policy = p]
  <2>2. "closed" \in DOMAIN q /\ q.closed = NeverClosed BY DEF NoRequest
  <2>3. requests' = [requests EXCEPT ![r] = q] BY <2>1 DEF Begins
  <2> HIDE DEF q
  <2> QED BY <2>2, <2>3, ClosedType DEF Dated, Carried
<1> QED
  BY <1>1, <1>2, <1>3, <1>4, <1>5, <1>6, <1>7, <1>8, <1>9, <1>10, <1>11, <1>12, <1>13, <1>14,
     <1>15 DEF Advance

LEMMA DatedKept == Dated /\ [SaludNext]_saludVars => Dated'
<1> SUFFICES ASSUME Dated, [SaludNext]_saludVars PROVE Dated' OBVIOUS
<1>1. CASE UNCHANGED saludVars BY <1>1 DEF saludVars, Dated
<1>2. CASE Pass BY <1>2 DEF Pass, stored, Dated
<1>3. CASE Drive BY <1>3 DEF Drive, stored, Dated
<1>4. CASE OpenAviso BY <1>4 DEF OpenAviso, stored, Dated
<1>5. ASSUME NEW r \in Requests,
             \/ Advance(r) \/ Stop(r) \/ Get(r)
             \/ BeginClose(r) \/ Deactivate(r)
      PROVE  Dated'
  <2>1. Carried(r) BY <1>5, RequestStepCarries
  <2>2. CASE CommitVisita(r) BY <2>1, <2>2, CarriedIsDated DEF CommitVisita, Dated
  <2>3. CASE ~CommitVisita(r)
    <3>1. UNCHANGED inputs
      BY <1>5, <2>3
      DEF Advance, InsertConfig, ReadConfig, Seed,
          ReadClosed, Compute, ReadSnapshot, Decide,
          InsertAlert, ResolveAlert, SaveSnapshot, Stop,
          Get, BeginClose, Deactivate
    <3> QED BY <2>1, <3>1, CarriedIsDated DEF inputs, Dated
  <2> QED BY <2>2, <2>3
<1> QED BY <1>1, <1>2, <1>3, <1>4, <1>5 DEF SaludNext, Requests

(* What the days, the odometer and an aviso do to the score of the unit    *)
(* under any configuration.                                                *)
Wears == (Pass \/ Drive \/ OpenAviso)
         => \A p \in Policies : ScoreSince(lastClose, p)' <= ScoreSince(lastClose, p)

LEMMA WearStep ==
  ASSUME Dated, NEW p \in Policies,
         Pass \/ Drive \/ OpenAviso
  PROVE  ScoreSince(lastClose, p)' <= ScoreSince(lastClose, p)
<1> DEFINE km1 == Larger(km, lastClose.km) - lastClose.km
           d1 == today - lastClose.day
<1>1. /\ today \in Int /\ km \in Int /\ lastClose.km \in Int /\ lastClose.day \in Int
      /\ aviso \in BOOLEAN /\ p.weights \in Weights /\ lastClose.visita \in BOOLEAN
  <2>1. Kms \subseteq Int /\ Days \subseteq Int /\ p.weights \in Weights
    BY SaludAssumption DEF Weights
  <2>2. /\ today \in Days /\ km \in Kms /\ lastClose.km \in Kms /\ lastClose.day \in Days
        /\ aviso \in BOOLEAN /\ lastClose.visita \in BOOLEAN
    BY DEF Dated, Closed
  <2> QED BY <2>1, <2>2
<1>2. PICK km2, now2, aviso2 : km2 = km' /\ now2 = today' /\ aviso2 = aviso' OBVIOUS
<1>3. /\ km2 \in Int /\ now2 \in Int /\ aviso2 \in BOOLEAN
      /\ km <= km2 /\ today <= now2 /\ (aviso => aviso2)
  <2>1. Kms \subseteq Int /\ Days \subseteq Int BY SaludAssumption
  <2>2. CASE Pass
    <3>1. PICK d \in Days : d > today /\ today' = d BY <2>2 DEF Pass
    <3>2. km' = km /\ aviso' = aviso BY <2>2 DEF Pass
    <3> QED BY <1>1, <1>2, <2>1, <3>1, <3>2
  <2>3. CASE Drive
    <3>1. PICK k \in Kms : k > km /\ km' = k BY <2>3 DEF Drive
    <3>2. today' = today /\ aviso' = aviso BY <2>3 DEF Drive
    <3> QED BY <1>1, <1>2, <2>1, <3>1, <3>2
  <2>4. CASE OpenAviso
    <3>1. today' = today /\ km' = km /\ aviso' = TRUE BY <2>4 DEF OpenAviso
    <3> QED BY <1>1, <1>2, <3>1
  <2> QED BY <2>2, <2>3, <2>4
<1>4. lastClose' = lastClose BY DEF Pass, Drive, OpenAviso, stored
<1> DEFINE kmThen == Larger(km2, lastClose.km) - lastClose.km
           dThen == now2 - lastClose.day
<1>5. km1 \in Int /\ kmThen \in Int /\ km1 <= kmThen /\ d1 \in Int /\ dThen \in Int /\ d1 <= dThen
  BY <1>1, <1>3 DEF Larger
<1> HIDE DEF km1, kmThen, d1, dThen
<1>6. Score(kmThen, TKm, dThen, TDias, aviso2, p.weights)
      <= Score(km1, TKm, d1, TDias, aviso, p.weights)
  BY <1>1, <1>3, <1>5, SaludAssumption, WearNeverRaisesTheScore DEF Weights
<1>7. ScoreSince(lastClose, p) = IF ~lastClose.visita THEN NoScore
                            ELSE Score(km1, TKm, d1, TDias, aviso, p.weights)
  BY DEF ScoreSince, NoScore, Larger, km1, d1
<1>8. ScoreSince(lastClose, p)' = IF ~lastClose.visita THEN NoScore
                             ELSE Score(kmThen, TKm, dThen, TDias, aviso2, p.weights)
  BY <1>2, <1>4 DEF ScoreSince, NoScore, Larger, kmThen, dThen
<1>9. NoScore <= NoScore BY DEF NoScore
<1> QED BY <1>6, <1>7, <1>8, <1>9

(* H3 and H5 of ADR-004: between two closes the score of a unit never      *)
(* rises, whatever the intervals of its type and the weights saved.        *)
THEOREM WearHelpsNobody == SaludSpec => WearNeverHelps
<1>1. Dated /\ [SaludNext]_saludVars => [Wears]_saludVars
  BY WearStep DEF Wears
<1> QED BY <1>1, DatedInitially, DatedKept, PTL DEF SaludSpec, WearNeverHelps, Wears

-----------------------------------------------------------------------------
(* Overdue maintenance: a committed close resolves an aviso, and one only. *)
AInv ==
    /\ AndonTypeOK /\ ResolvedByAClose
    /\ \A e \in Evaluations : evals[e].step = "WITHDRAW" => evals[e].found # 0

LEMMA AInvInitially == AndonInit => AInv
<1> SUFFICES ASSUME AndonInit PROVE AInv OBVIOUS
<1>1. avisos = << >> /\ avisos \in Seq(Aviso) /\ Len(avisos) = 0
  BY DEF AndonInit
<1>2. tDias \in Nat BY AndonAssumption DEF AndonInit
<1>3. Idle \in Evaluation /\ Idle.found = 0
      /\ Idle.step # "WITHDRAW"
  BY DEF Idle, Step, Evaluation
<1>4. evals \in [Evaluations -> Evaluation] /\ \A e \in Evaluations : evals[e].found = 0
  BY <1>3 DEF AndonInit
<1>5. marks \in [Supervisors -> 0..Len(avisos)] BY <1>1 DEF AndonInit
<1>6. close \in [step : {"NONE", "HANDLED", "EXPIRED"}, at : Nat, found : 0..Len(avisos)]
  BY <1>1 DEF AndonInit, NoClose
<1>7. AndonTypeOK
  <2>1. <<day, tDias, failures>> \in Nat \X Nat \X Nat BY <1>2 DEF AndonInit
  <2>2. activa \in BOOLEAN /\ tipo \in BOOLEAN /\ inbox \in BOOLEAN BY DEF AndonInit
  <2>3. last \in [cierre : Nat, at : Nat] BY DEF AndonInit
  <2> QED BY <1>1, <1>4, <1>5, <1>6, <2>1, <2>2, <2>3 DEF AndonTypeOK
<1>8. ResolvedByAClose BY <1>1 DEF ResolvedByAClose
<1>9. \A e \in Evaluations : evals[e].step # "WITHDRAW" BY <1>3 DEF AndonInit
<1> QED BY <1>7, <1>8, <1>9 DEF AInv

Saved(n, estado, cierre) ==
    avisos' = [avisos EXCEPT ![n].estado = estado, ![n].cierre = cierre]

(* A row of andon.avisos is saved with a visit no other row has.           *)
LEMMA SavedRow ==
  ASSUME AInv, NEW n \in DOMAIN avisos, NEW estado \in Estados, NEW cierre \in Nat,
         Saved(n, estado, cierre),
         last.cierre <= last'.cierre, last' \in [cierre : Nat, at : Nat],
         cierre # 0 => /\ cierre <= last'.cierre
                       /\ cierre = avisos[n].cierre \/ cierre > last.cierre
  PROVE  /\ avisos' \in Seq(Aviso) /\ Len(avisos') = Len(avisos)
         /\ ResolvedByAClose'
<1> DEFINE row == [avisos[n] EXCEPT !.estado = estado, !.cierre = cierre]
<1>1. /\ avisos \in Seq(Aviso) /\ last \in [cierre : Nat, at : Nat]
      /\ avisos[n] \in Aviso
  BY DEF AInv, AndonTypeOK
<1>2. row \in Aviso /\ row.cierre = cierre BY <1>1 DEF Aviso
<1>3. avisos' = [avisos EXCEPT ![n] = row] BY DEF Saved
<1> HIDE DEF row
<1>4. avisos' \in Seq(Aviso) /\ Len(avisos') = Len(avisos) BY <1>1, <1>2, <1>3
<1>5. /\ DOMAIN avisos' = DOMAIN avisos /\ avisos'[n].cierre = cierre
      /\ \A m \in DOMAIN avisos : m # n => avisos'[m].cierre = avisos[m].cierre
  BY <1>1, <1>2, <1>3
<1>6. \A m \in DOMAIN avisos : avisos[m].cierre \in Nat
  <2>1. \A m \in DOMAIN avisos : avisos[m] \in Aviso BY <1>1
  <2> QED BY <2>1 DEF Aviso
<1>7. \A m \in DOMAIN avisos : avisos[m].cierre # 0 =>
        /\ avisos[m].cierre <= last.cierre
        /\ \A k \in DOMAIN avisos : avisos[k].cierre = avisos[m].cierre => k = m
  BY DEF AInv, ResolvedByAClose
<1>8. last.cierre \in Nat /\ last'.cierre \in Nat BY <1>1
<1>9. ASSUME NEW m \in DOMAIN avisos', avisos'[m].cierre # 0
      PROVE  /\ avisos'[m].cierre <= last'.cierre
             /\ \A k \in DOMAIN avisos' : avisos'[k].cierre = avisos'[m].cierre => k = m
  <2>1. CASE m = n BY <1>5, <1>6, <1>7, <1>8, <1>9, <2>1
  <2>2. CASE m # n BY <1>5, <1>6, <1>7, <1>8, <1>9, <2>2
  <2> QED BY <2>1, <2>2
<1> QED BY <1>4, <1>9 DEF ResolvedByAClose

(* What an evaluation carries to its next step.                            *)
Stepped(e, n) ==
    \E step \in {"IDLE", "LOOKED", "FOUND", "WITHDRAW", "EXPIRE", "OPEN", "REFRESH"},
       at \in Nat, found \in 0..n :
       /\ step = "WITHDRAW" => found # 0
       /\ Goes(e, step, at, found)

EvalsOK(n) ==
    /\ evals \in [Evaluations -> Evaluation]
    /\ \A x \in Evaluations : /\ evals[x].found <= n
                              /\ evals[x].step = "WITHDRAW" => evals[x].found # 0

LEMMA SteppedTo ==
  ASSUME NEW e, NEW n \in Nat,
         NEW step \in {"IDLE", "LOOKED", "FOUND", "WITHDRAW", "EXPIRE", "OPEN", "REFRESH"},
         NEW at \in Nat, NEW found \in 0..n, step = "WITHDRAW" => found # 0,
         Goes(e, step, at, found)
  PROVE  Stepped(e, n)
BY DEF Stepped

LEMMA Carries ==
  ASSUME AInv, NEW e \in Evaluations, NEW n \in Nat, Len(avisos) <= n, Stepped(e, n)
  PROVE  EvalsOK(n)'
<1>1. PICK q : /\ q \in Evaluation /\ q.found <= n
               /\ q.step = "WITHDRAW" => q.found # 0
               /\ evals' = [evals EXCEPT ![e] = q]
  <2>1. PICK step \in {"IDLE", "LOOKED", "FOUND", "WITHDRAW", "EXPIRE", "OPEN", "REFRESH"},
             at \in Nat, found \in 0..n :
          /\ step = "WITHDRAW" => found # 0
          /\ Goes(e, step, at, found)
    BY DEF Stepped
  <2> DEFINE q == Step(step, at, found)
  <2>2. q \in Evaluation /\ q.found = found /\ q.step = step
    BY DEF Step, Evaluation
  <2> HIDE DEF q
  <2>3. q.found <= n /\ (q.step = "WITHDRAW" => q.found # 0) BY <2>1, <2>2
  <2>4. evals' = [evals EXCEPT ![e] = q] BY <2>1 DEF q, Goes
  <2> QED BY <2>2, <2>3, <2>4
<1>2. /\ evals \in [Evaluations -> Evaluation] /\ Len(avisos) \in Nat
      /\ \A x \in Evaluations : /\ evals[x].found \in Nat /\ evals[x].found <= Len(avisos)
                                /\ evals[x].step = "WITHDRAW" => evals[x].found # 0
  BY DEF AInv, AndonTypeOK, Evaluation
<1>3. evals' \in [Evaluations -> Evaluation] BY <1>1, <1>2
<1>4. \A x \in Evaluations : /\ evals'[x].found <= n
                             /\ evals'[x].step = "WITHDRAW" => evals'[x].found # 0
  BY <1>1, <1>2
<1> QED BY <1>3, <1>4 DEF EvalsOK

(* A step of an evaluation that writes no row of andon.avisos.             *)
LEMMA EvaluationStep ==
  ASSUME AInv, NEW e \in Evaluations, Stepped(e, Len(avisos)),
         inbox' \in BOOLEAN, failures' \in Nat,
         UNCHANGED <<day, activa, tipo, tDias, last, avisos, marks, close>>
  PROVE  AInv'
<1>1. Len(avisos) \in Nat BY DEF AInv, AndonTypeOK
<1>2. EvalsOK(Len(avisos))' BY <1>1, Carries
<1>3. AndonTypeOK' BY <1>2 DEF AInv, AndonTypeOK, EvalsOK
<1>4. ResolvedByAClose' BY DEF AInv, ResolvedByAClose
<1> QED BY <1>2, <1>3, <1>4 DEF AInv, EvalsOK

(* The row an evaluation or a person saves as it was read.                 *)
LEMMA SaveKeeps ==
  ASSUME AInv, NEW n \in Nat, n # 0, n <= Len(avisos),
         NEW estado \in Estados, Save(n, estado), last' = last
  PROVE  /\ avisos' \in Seq(Aviso) /\ Len(avisos') = Len(avisos)
         /\ ResolvedByAClose'
<1>1. /\ avisos \in Seq(Aviso) /\ last \in [cierre : Nat, at : Nat]
      /\ n \in DOMAIN avisos
  BY DEF AInv, AndonTypeOK
<1>2. PICK cierre \in {0, avisos[n].cierre} :
        Saved(n, estado, cierre)
  BY DEF Save, Saved
<1>3. avisos[n].cierre \in Nat
  <2>1. avisos[n] \in Aviso BY <1>1
  <2> QED BY <2>1 DEF Aviso
<1>4. avisos[n].cierre # 0 => avisos[n].cierre <= last.cierre
  BY <1>1 DEF AInv, ResolvedByAClose
<1>5. last.cierre \in Nat /\ last.cierre <= last'.cierre /\ last' \in [cierre : Nat, at : Nat]
  BY <1>1
<1> QED BY <1>1, <1>2, <1>3, <1>4, <1>5, SavedRow

LEMMA AInvStep == AInv /\ [AndonNext]_andonVars => AInv'
<1> SUFFICES ASSUME AInv, [AndonNext]_andonVars PROVE AInv' OBVIOUS
<1>1. /\ day \in Nat /\ tDias \in Nat /\ failures \in Nat
      /\ activa \in BOOLEAN /\ tipo \in BOOLEAN /\ inbox \in BOOLEAN
      /\ last \in [cierre : Nat, at : Nat] /\ last.cierre \in Nat /\ last.at \in Nat
      /\ avisos \in Seq(Aviso) /\ Len(avisos) \in Nat
      /\ DOMAIN avisos = 1..Len(avisos)
      /\ evals \in [Evaluations -> Evaluation]
      /\ \A e \in Evaluations : evals[e].found <= Len(avisos)
      /\ marks \in [Supervisors -> 0..Len(avisos)]
      /\ close \in [step : {"NONE", "HANDLED", "EXPIRED"}, at : Nat, found : 0..Len(avisos)]
      /\ ResolvedByAClose
      /\ \A e \in Evaluations : evals[e].step = "WITHDRAW" => evals[e].found # 0
  BY DEF AInv, AndonTypeOK
<1>2. \A e \in Evaluations : evals[e].at \in Nat /\ evals[e].found \in 0..Len(avisos)
  BY <1>1 DEF Evaluation
<1>3. ASSUME NEW e \in Evaluations, Look(e) PROVE AInv'
  <2>1. Stepped(e, Len(avisos))
    <3>1. Goes(e, "LOOKED", last.at, 0)
      BY <1>3 DEF Look
    <3> QED BY <1>1, <3>1, SteppedTo
  <2>2. UNCHANGED <<day, activa, tipo, tDias, last, avisos, inbox, marks, close, failures>>
    BY <1>3 DEF Look, settings
  <2> QED BY <1>1, <2>1, <2>2, EvaluationStep
<1>4. ASSUME NEW e \in Evaluations, Find(e) PROVE AInv'
  <2>1. Stepped(e, Len(avisos))
    BY <1>1, <1>2, <1>4 DEF Find, Goes, Stepped
  <2>2. UNCHANGED <<day, activa, tipo, tDias, last, avisos, inbox, marks, close, failures>>
    BY <1>4 DEF Find, settings
  <2> QED BY <1>1, <2>1, <2>2, EvaluationStep
<1>5. ASSUME NEW e \in Evaluations, Judge(e) PROVE AInv'
  <2>1. Stepped(e, Len(avisos))
    <3>1. PICK step \in {"OPEN", "REFRESH", "WITHDRAW", "IDLE"}, found \in 0..Len(avisos) :
            /\ step = "WITHDRAW" => found # 0
            /\ Goes(e, step, 0, found)
      BY <1>1, <1>2, <1>5 DEF Judge, Goes, Ends, Idle
    <3> QED BY <3>1 DEF Stepped
  <2>2. UNCHANGED <<day, activa, tipo, tDias, last, avisos, inbox, marks, close, failures>>
    BY <1>5 DEF Judge, settings
  <2> QED BY <1>1, <2>1, <2>2, EvaluationStep
<1>6. ASSUME NEW e \in Evaluations, Expire(e) \/ Refresh(e) \/ Fail(e)
      PROVE  AInv'
  <2>1. Stepped(e, Len(avisos))
    <3>1. Goes(e, "IDLE", 0, 0)
      BY <1>6 DEF Expire, Refresh, Fail, Ends, Idle,
         Goes
    <3> QED BY <1>1, <3>1, SteppedTo
  <2>2. UNCHANGED <<day, activa, tipo, tDias, last, avisos, marks, close>>
    BY <1>6 DEF Expire, Refresh, Fail, settings
  <2>3. failures' \in Nat BY <1>1, <1>6 DEF Expire, Refresh, Fail
  <2>4. inbox' \in BOOLEAN
    <3>1. CASE Expire(e) BY <3>1 DEF Expire
    <3>2. CASE Refresh(e) BY <1>1, <3>2 DEF Refresh
    <3>3. CASE Fail(e) BY <1>1, <3>3 DEF Fail
    <3> QED BY <1>6, <3>1, <3>2, <3>3
  <2> QED BY <2>1, <2>2, <2>3, <2>4, EvaluationStep
<1>7. ASSUME NEW e \in Evaluations, Withdraw(e) PROVE AInv'
  <2> DEFINE n == evals[e].found
             estado == "RESUELTO"
  <2>1. n \in Nat /\ n # 0 /\ n <= Len(avisos) /\ estado \in Estados
    BY <1>1, <1>2, <1>7 DEF Withdraw, At, Estados
  <2>2. /\ Save(n, estado)
        /\ UNCHANGED <<day, activa, tipo, tDias, last, inbox, marks, close, failures>>
    BY <1>7 DEF Withdraw, settings
  <2> HIDE DEF n, estado
  <2>3. /\ avisos' \in Seq(Aviso) /\ Len(avisos') = Len(avisos)
        /\ ResolvedByAClose'
    BY <2>1, <2>2, SaveKeeps
  <2>4. Stepped(e, Len(avisos))
    <3>1. Goes(e, "EXPIRE", 0, 0)
      BY <1>7 DEF Withdraw
    <3> QED BY <1>1, <3>1, SteppedTo
  <2>5. EvalsOK(Len(avisos))' BY <1>1, <2>3, <2>4, Carries
  <2> QED BY <1>1, <2>2, <2>3, <2>5 DEF AInv, AndonTypeOK, EvalsOK
<1>8. ASSUME NEW e \in Evaluations, Open(e) PROVE AInv'
  <2>1. UNCHANGED <<day, activa, tipo, tDias, last, inbox, marks, close, failures>>
    BY <1>8 DEF Open, settings
  <2>2. CASE Ends(e) /\ UNCHANGED avisos
    <3>1. Stepped(e, Len(avisos))
      <4>1. Goes(e, "IDLE", 0, 0)
        BY <2>2 DEF Ends, Idle, Goes
      <4> QED BY <1>1, <4>1, SteppedTo
    <3> QED BY <1>1, <2>1, <2>2, <3>1, EvaluationStep
  <2>3. CASE /\ avisos' = Append(avisos, [estado |-> "ABIERTO", cierre |-> 0])
             /\ Goes(e, "REFRESH", 0, 0)
    <3> DEFINE row == [estado |-> "ABIERTO", cierre |-> 0]
    <3> PICK n \in Nat : n = Len(avisos) + 1 BY <1>1
    <3>1. row \in Aviso /\ row.cierre = 0 BY DEF Aviso, Estados
    <3> HIDE DEF row
    <3>2. avisos' = Append(avisos, row) BY <2>3 DEF row
    <3>3. /\ avisos' \in Seq(Aviso) /\ Len(avisos') = n
          /\ DOMAIN avisos' = DOMAIN avisos \cup {n} /\ avisos'[n] = row
          /\ \A m \in DOMAIN avisos : avisos'[m] = avisos[m]
      BY <1>1, <3>1, <3>2
    <3>4. ResolvedByAClose' BY <1>1, <2>1, <3>1, <3>3 DEF ResolvedByAClose
    <3>5. Len(avisos) <= n BY <1>1
    <3>6. Stepped(e, n)
      <4>1. Goes(e, "REFRESH", 0, 0)
        BY <2>3
      <4> QED BY <4>1, SteppedTo
    <3>7. EvalsOK(n)' BY <3>5, <3>6, Carries
    <3>8. \A m \in 0..Len(avisos) : m \in 0..n BY <1>1, <3>5
    <3>9. /\ marks \in [Supervisors -> 0..n]
          /\ close \in [step : {"NONE", "HANDLED", "EXPIRED"}, at : Nat, found : 0..n]
      BY <1>1, <3>8
    <3> QED BY <1>1, <2>1, <3>3, <3>4, <3>7, <3>9 DEF AInv, AndonTypeOK, EvalsOK
  <2> QED BY <1>8, <2>2, <2>3 DEF Open
<1>9. ASSUME NEW s \in Supervisors, ReadAviso(s) PROVE AInv'
  <2>1. marks' \in [Supervisors -> 0..Len(avisos)] BY <1>1, <1>9 DEF ReadAviso
  <2>2. UNCHANGED <<day, activa, tipo, tDias, last, avisos, inbox, evals, close, failures>>
    BY <1>9 DEF ReadAviso, settings
  <2> QED BY <1>1, <2>1, <2>2 DEF AInv, AndonTypeOK, ResolvedByAClose
<1>10. ASSUME NEW s \in Supervisors, Enterado(s) PROVE AInv'
  <2> DEFINE n == marks[s]
             estado == "ENTERADO"
  <2>1. n \in Nat /\ n # 0 /\ n <= Len(avisos) /\ estado \in Estados
    BY <1>1, <1>10 DEF Enterado, Estados
  <2>2. /\ Save(n, estado)
        /\ UNCHANGED <<day, activa, tipo, tDias, last, inbox, evals, close, failures>>
    BY <1>10 DEF Enterado, settings
  <2>3. marks' \in [Supervisors -> 0..Len(avisos)] BY <1>1, <1>10 DEF Enterado
  <2> HIDE DEF n, estado
  <2>4. /\ avisos' \in Seq(Aviso) /\ Len(avisos') = Len(avisos)
        /\ ResolvedByAClose'
    BY <2>1, <2>2, SaveKeeps
  <2> QED BY <1>1, <2>2, <2>3, <2>4 DEF AInv, AndonTypeOK
<1>11. CASE Handle \/ ExpireInClose \/ RollbackClose
  <2>1. close' \in [step : {"NONE", "HANDLED", "EXPIRED"}, at : Nat, found : 0..Len(avisos)]
    <3>1. CASE Handle
      <4>1. PICK n \in 0..Len(avisos) :
              close' = [step |-> "HANDLED", at |-> day, found |-> n]
        BY <3>1 DEF Handle
      <4> QED BY <1>1, <4>1
    <3>2. CASE ExpireInClose
      BY <1>1, <3>2 DEF ExpireInClose
    <3>3. CASE RollbackClose
      BY <1>1, <3>3 DEF RollbackClose, NoClose
    <3> QED BY <1>11, <3>1, <3>2, <3>3
  <2>2. UNCHANGED <<day, activa, tipo, tDias, last, avisos, evals, marks, failures>>
    BY <1>11 DEF Handle, ExpireInClose, RollbackClose, settings
  <2>3. inbox' \in BOOLEAN
    BY <1>1, <1>11 DEF Handle, ExpireInClose, RollbackClose
  <2> QED BY <1>1, <2>1, <2>2, <2>3 DEF AInv, AndonTypeOK, ResolvedByAClose
<1>12. CASE CommitClose
  <2> DEFINE n == close.found
             cierre == last.cierre + 1
             estado == "RESUELTO"
  <2>1. /\ last' \in [cierre : Nat, at : Nat] /\ last'.cierre = cierre
        /\ close' \in [step : {"NONE", "HANDLED", "EXPIRED"}, at : Nat, found : 0..Len(avisos)]
    BY <1>1, <1>12 DEF CommitClose, NoClose
  <2>2. UNCHANGED <<day, activa, tipo, tDias, inbox, evals, marks, failures>>
    BY <1>12 DEF CommitClose, settings
  <2>3. n \in 0..Len(avisos) /\ cierre \in Nat /\ cierre > last.cierre BY <1>1
  <2>4. /\ avisos' \in Seq(Aviso) /\ Len(avisos') = Len(avisos)
        /\ ResolvedByAClose'
    <3>1. CASE n = 0
      <4>1. avisos' = avisos BY <1>12, <3>1 DEF CommitClose
      <4>2. \A m \in DOMAIN avisos : avisos[m].cierre \in Nat
        <5>1. \A m \in DOMAIN avisos : avisos[m] \in Aviso BY <1>1
        <5> QED BY <5>1 DEF Aviso
      <4> QED BY <1>1, <2>1, <2>3, <4>1, <4>2 DEF ResolvedByAClose
    <3>2. CASE n # 0
      <4>1. Saved(n, estado, cierre) BY <1>12, <3>2 DEF CommitClose, Saved
      <4>2. n \in DOMAIN avisos /\ estado \in Estados
        BY <1>1, <2>3, <3>2 DEF Estados
      <4> HIDE DEF n, cierre, estado
      <4>3. last.cierre <= last'.cierre BY <1>1, <2>1, <2>3
      <4> QED BY <2>1, <2>3, <4>1, <4>2, <4>3, SavedRow
    <3> QED BY <3>1, <3>2
  <2> QED BY <1>1, <2>1, <2>2, <2>4 DEF AInv, AndonTypeOK
<1>13. CASE \/ NextDay \/ SetActive \/ SetUnit
            \/ \E t \in Thresholds : UpdateUmbral(t)
  <2>1. UNCHANGED <<last, avisos, inbox, evals, marks, close, failures>>
    BY <1>13 DEF NextDay, SetActive, SetUnit, UpdateUmbral,
       others
  <2>2. day' \in Nat /\ tDias' \in Nat /\ activa' \in BOOLEAN /\ tipo' \in BOOLEAN
    <3>1. CASE NextDay BY <1>1, <3>1 DEF NextDay
    <3>2. CASE SetActive BY <1>1, <3>2 DEF SetActive
    <3>3. CASE SetUnit BY <1>1, <3>3 DEF SetUnit
    <3>4. ASSUME NEW t \in Thresholds, UpdateUmbral(t)
          PROVE  day' \in Nat /\ tDias' \in Nat /\ activa' \in BOOLEAN /\ tipo' \in BOOLEAN
      BY <1>1, <3>4, AndonAssumption DEF UpdateUmbral
    <3> QED BY <1>13, <3>1, <3>2, <3>3, <3>4
  <2> QED BY <1>1, <2>1, <2>2 DEF AInv, AndonTypeOK, ResolvedByAClose
<1>14. CASE UNCHANGED andonVars
  BY <1>14 DEF andonVars, AInv, AndonTypeOK, ResolvedByAClose
<1> QED
  BY <1>3, <1>4, <1>5, <1>6, <1>7, <1>8, <1>9, <1>10, <1>11, <1>12, <1>13, <1>14
  DEF AndonNext, Evaluate

(* Rows of andon.avisos keep their shape, and what is in progress names    *)
(* rows that exist.                                                        *)
THEOREM AvisosKeepTheirShape == AndonSpec => []AndonTypeOK
<1>1. AInv => AndonTypeOK BY DEF AInv
<1> QED BY <1>1, AInvInitially, AInvStep, PTL DEF AndonSpec

(* A5 of ADR-004, for any number of evaluations, people, closes and        *)
(* failures: the visit that resolves an aviso is one that closed, and it   *)
(* resolves no other.                                                      *)
THEOREM ResolvedByOneClose == AndonSpec => []ResolvedByAClose
<1>1. AInv => ResolvedByAClose BY DEF AInv
<1> QED BY <1>1, AInvInitially, AInvStep, PTL DEF AndonSpec
=============================================================================
