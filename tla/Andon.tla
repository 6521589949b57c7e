------------------------------- MODULE Andon -------------------------------
(***************************************************************************)
(* Overdue maintenance of one unit: AndonEngine over andon.avisos, the     *)
(* projection of its last closed visit, and the row of the inbox that      *)
(* tells people about it.                                                  *)
(*                                                                         *)
(* An evaluation has no transaction and no lock: every page that lists     *)
(* avisos runs one, and its reads and writes are separate steps.  The      *)
(* handler of VisitaCerrada runs inside the transaction of the close, but  *)
(* the inbox is written on a connection of its own, at once, whatever      *)
(* becomes of the close.                                                   *)
(*                                                                         *)
(* Closes are numbered, not visits: every close writes an event with an id *)
(* of its own, the second close of a visit too (NoExtraEvent of Visitas),  *)
(* and an event is dispatched once, so hasProcessed never finds one.       *)
(* `cierre` of an aviso is the close that resolved it; the code keeps the  *)
(* visit of that close, and a visit that closed twice is two numbers here. *)
(*                                                                         *)
(* The kilometres never open or keep an aviso: the only caller of          *)
(* evaluarUnidad passes those of the last close plus those of the aviso,   *)
(* which are those it was opened with, and t_km is at least 1.             *)
(***************************************************************************)
EXTENDS Integers, Sequences

CONSTANTS
    Evaluations, \* evaluations that may be in progress at once
    Supervisors, \* enterado that may be in progress at once
    Thresholds,  \* values of t_dias
    MaxDay,      \* bound on the days
    MaxAvisos,   \* bound on andon.avisos
    MaxCloses,   \* bound on the closes
    MaxFailures  \* bound on the requests that stop half way

ASSUME AndonAssumption ==
    /\ Thresholds \subseteq Nat \ {0} /\ Thresholds # {}
    /\ {MaxDay, MaxAvisos, MaxCloses, MaxFailures} \subseteq Nat

VARIABLES
    day,      \* days
    activa,   \* the unit is ACTIVA
    tipo,     \* MTTO_VENCIDO is active in the catalogue
    tDias,    \* andon.umbrales
    last,     \* andon.last_closed: the last close (0, none) and its day
    avisos,   \* andon.avisos, in the order they are inserted
    inbox,    \* the row ANDON:AvisoAbierto of the unit exists and is not expired
    evals,    \* evaluarUnidad in progress
    marks,    \* enterado in progress: the aviso it read, 0 when there is none
    close,    \* the close of a visit in progress
    failures

andonVars == <<day, activa, tipo, tDias, last, avisos, inbox, evals, marks, close, failures>>
-----------------------------------------------------------------------------
Estados == {"ABIERTO", "ENTERADO", "RESUELTO"}

Aviso == [estado : Estados, cierre : Nat]

(* An evaluation carries what its next steps use of what it has read.      *)
Step(step, at, found) == [step |-> step, at |-> at, found |-> found]

Idle == Step("IDLE", 0, 0)

Evaluation == [step : {"IDLE", "LOOKED", "FOUND", "WITHDRAW", "EXPIRE", "OPEN", "REFRESH"},
               at : Nat, found : Nat]

NoClose == [step |-> "NONE", at |-> 0, found |-> 0]

Unresolved(n) == avisos[n].estado # "RESUELTO"

(* The row is written and not committed.                                   *)
AvisoLocked(n) == close.step # "NONE" /\ close.found = n

AndonInit ==
    /\ day = 0
    /\ activa = TRUE
    /\ tipo \in BOOLEAN
    /\ tDias \in Thresholds
    /\ last = [cierre |-> 0, at |-> 0]
    /\ avisos = << >>
    /\ inbox = FALSE
    /\ evals = [e \in Evaluations |-> Idle]
    /\ marks = [s \in Supervisors |-> 0]
    /\ close = NoClose
    /\ failures = 0
-----------------------------------------------------------------------------
settings == <<day, activa, tipo, tDias>>

At(e, step) == evals[e].step = step

Goes(e, step, at, found) == evals' = [evals EXCEPT ![e] = Step(step, at, found)]

Ends(e) == evals' = [evals EXCEPT ![e] = Idle]

(* evaluarTodas passes over a unit that has no closed visit; evaluarUnidad *)
(* reads the unit, and does nothing to one that is not active, and its     *)
(* last close.                                                             *)
Look(e) ==
    /\ At(e, "IDLE")
    /\ activa /\ last.cierre # 0
    /\ Goes(e, "LOOKED", last.at, 0)
    /\ UNCHANGED <<settings, last, avisos, inbox, marks, close, failures>>

(* Mutant: an aviso somebody has seen is not looked for.                   *)
FindOpen(e) ==
    /\ At(e, "LOOKED")
    /\ \E n \in 0..Len(avisos) :
          /\ IF n = 0 THEN \A m \in DOMAIN avisos : avisos[m].estado # "ABIERTO"
                      ELSE avisos[n].estado = "ABIERTO"
          /\ Goes(e, "FOUND", evals[e].at, n)
    /\ UNCHANGED <<settings, last, avisos, inbox, marks, close, failures>>

(* getNoResuelto: any of them, when there are several.                     *)
Find(e) ==
    /\ At(e, "LOOKED")
    /\ \E n \in 0..Len(avisos) :
          /\ IF n = 0 THEN \A m \in DOMAIN avisos : ~Unresolved(m) ELSE Unresolved(n)
          /\ Goes(e, "FOUND", evals[e].at, n)
    /\ UNCHANGED <<settings, last, avisos, inbox, marks, close, failures>>

Due(at) == day - at >= tDias

(* Mutant: an aviso that is open already is not told again.                *)
JudgeOnce(e) ==
    LET q == evals[e]
    IN  /\ At(e, "FOUND")
        /\ IF q.found = 0 THEN IF Due(q.at) THEN Goes(e, "OPEN", 0, 0) ELSE Ends(e)
                          ELSE IF Due(q.at) THEN Ends(e)
                                            ELSE Goes(e, "WITHDRAW", 0, q.found)
        /\ UNCHANGED <<settings, last, avisos, inbox, marks, close, failures>>

(* getUmbral, and what evaluarUnidad decides with what it has read.        *)
Judge(e) ==
    LET q == evals[e]
    IN  /\ At(e, "FOUND")
        /\ \/ q.found = 0 /\ Due(q.at)  /\ Goes(e, "OPEN", 0, 0)
           \/ q.found # 0 /\ Due(q.at)  /\ Goes(e, "REFRESH", 0, 0)
           \/ q.found # 0 /\ ~Due(q.at) /\ Goes(e, "WITHDRAW", 0, q.found)
           \/ q.found = 0 /\ ~Due(q.at) /\ Ends(e)
        /\ UNCHANGED <<settings, last, avisos, inbox, marks, close, failures>>

(* updateAviso saves the row as it was read with another estado.  What a   *)
(* close wrote meanwhile stays when save compares with the row from before *)
(* that commit, and is lost when it compares with the row from after.      *)
Save(n, estado) ==
    /\ ~AvisoLocked(n)
    /\ \E cierre \in {0, avisos[n].cierre} :
          avisos' = [avisos EXCEPT ![n].estado = estado, ![n].cierre = cierre]

Withdraw(e) ==
    /\ At(e, "WITHDRAW")
    /\ Save(evals[e].found, "RESUELTO")
    /\ Goes(e, "EXPIRE", 0, 0)
    /\ UNCHANGED <<settings, last, inbox, marks, close, failures>>

(* inbox.onResuelto.                                                       *)
Expire(e) ==
    /\ At(e, "EXPIRE")
    /\ inbox' = FALSE
    /\ Ends(e)
    /\ UNCHANGED <<settings, last, avisos, marks, close, failures>>

(* insertAviso; at the bound the evaluation ends.                          *)
Open(e) ==
    /\ At(e, "OPEN")
    /\ \/ /\ Len(avisos) < MaxAvisos
          /\ avisos' = Append(avisos, [estado |-> "ABIERTO", cierre |-> 0])
          /\ Goes(e, "REFRESH", 0, 0)
       \/ Len(avisos) = MaxAvisos /\ Ends(e) /\ UNCHANGED avisos
    /\ UNCHANGED <<settings, last, inbox, marks, close, failures>>

(* emitIfActive, then onAbierto or refreshPriority: ingest.                *)
Refresh(e) ==
    /\ At(e, "REFRESH")
    /\ inbox' = (inbox \/ tipo)
    /\ Ends(e)
    /\ UNCHANGED <<settings, last, avisos, marks, close, failures>>

(* A statement or WhatsApp fails, or the process stops.                    *)
Fail(e) ==
    /\ ~At(e, "IDLE")
    /\ failures < MaxFailures
    /\ failures' = failures + 1
    /\ Ends(e)
    /\ UNCHANGED <<settings, last, avisos, inbox, marks, close>>
-----------------------------------------------------------------------------
(* enterado: it reads an aviso that is ABIERTO, then saves the whole row.  *)
ReadAviso(s) ==
    /\ marks[s] = 0
    /\ \E n \in DOMAIN avisos :
          avisos[n].estado = "ABIERTO" /\ marks' = [marks EXCEPT ![s] = n]
    /\ UNCHANGED <<settings, last, avisos, inbox, evals, close, failures>>

Enterado(s) ==
    /\ marks[s] # 0
    /\ Save(marks[s], "ENTERADO")
    /\ marks' = [marks EXCEPT ![s] = 0]
    /\ UNCHANGED <<settings, last, inbox, evals, close, failures>>
-----------------------------------------------------------------------------
(* Mutant: the handler does not write with the manager of the close.       *)
HandleApart ==
    /\ close = NoClose /\ activa /\ last.cierre < MaxCloses
    /\ \E n \in 0..Len(avisos) :
          /\ IF n = 0 THEN (\A m \in DOMAIN avisos : ~Unresolved(m)) /\ UNCHANGED avisos
                      ELSE Unresolved(n) /\ avisos' = [avisos EXCEPT
                             ![n].estado = "RESUELTO", ![n].cierre = last.cierre + 1]
          /\ close' = [step |-> "HANDLED", at |-> day, found |-> n]
    /\ UNCHANGED <<settings, last, inbox, evals, marks, failures>>

(* handleVisitaCerrada inside the close: the aviso it finds is resolved,   *)
(* not committed yet.                                                      *)
Handle ==
    /\ close = NoClose /\ activa /\ last.cierre < MaxCloses
    /\ \E n \in 0..Len(avisos) :
          /\ IF n = 0 THEN \A m \in DOMAIN avisos : ~Unresolved(m) ELSE Unresolved(n)
          /\ close' = [step |-> "HANDLED", at |-> day, found |-> n]
    /\ UNCHANGED <<settings, last, avisos, inbox, evals, marks, failures>>

(* onResuelto, on its own connection.                                      *)
ExpireInClose ==
    /\ close.step = "HANDLED" /\ close.found # 0
    /\ inbox' = FALSE
    /\ close' = [close EXCEPT !.step = "EXPIRED"]
    /\ UNCHANGED <<settings, last, avisos, evals, marks, failures>>

(* The commit of the close, with the row it updated and setLastClosed.     *)
CommitClose ==
    /\ close.step = "EXPIRED" \/ (close.step = "HANDLED" /\ close.found = 0)
    /\ last' = [cierre |-> last.cierre + 1, at |-> close.at]
    /\ avisos' = IF close.found = 0 THEN avisos
                 ELSE [avisos EXCEPT ![close.found].estado = "RESUELTO",
                                     ![close.found].cierre = last.cierre + 1]
    /\ close' = NoClose
    /\ UNCHANGED <<settings, inbox, evals, marks, failures>>

(* A later handler refuses, or the process stops: all of it rolls back but *)
(* the inbox.                                                              *)
RollbackClose ==
    /\ close # NoClose
    /\ close' = NoClose
    /\ UNCHANGED <<settings, last, avisos, inbox, evals, marks, failures>>
-----------------------------------------------------------------------------
others == <<last, avisos, inbox, evals, marks, close, failures>>

NextDay == day < MaxDay /\ day' = day + 1 /\ UNCHANGED <<activa, tipo, tDias, others>>

(* saveAttentionThresholds: one transaction, and an evaluation after it.   *)
UpdateUmbral(t) == tDias' = t /\ t # tDias /\ UNCHANGED <<day, activa, tipo, others>>

SetActive == tipo' = ~tipo /\ UNCHANGED <<day, activa, tDias, others>>

(* marcarEnvioEspecial and reactivar.                                      *)
SetUnit == activa' = ~activa /\ UNCHANGED <<day, tipo, tDias, others>>

Evaluate(e) ==
    Look(e) \/ Find(e) \/ Judge(e) \/ Withdraw(e) \/ Expire(e) \/ Open(e) \/ Refresh(e)

AndonNext ==
    \/ NextDay \/ SetActive \/ SetUnit \/ \E t \in Thresholds : UpdateUmbral(t)
    \/ \E e \in Evaluations : Evaluate(e) \/ Fail(e)
    \/ \E s \in Supervisors : ReadAviso(s) \/ Enterado(s)
    \/ Handle \/ ExpireInClose \/ CommitClose \/ RollbackClose

(* People keep opening the pages that list avisos, a request that does not *)
(* fail goes on, and a transaction ends.                                   *)
Fairness ==
    /\ \A e \in Evaluations : SF_andonVars(Evaluate(e))
    /\ \A s \in Supervisors : WF_andonVars(Enterado(s))
    /\ WF_andonVars(ExpireInClose \/ CommitClose \/ RollbackClose)

AndonSpec == AndonInit /\ [][AndonNext]_andonVars

FairSpec == AndonSpec /\ Fairness
-----------------------------------------------------------------------------
(* Rows have the shape of their tables, and what is in progress names rows *)
(* that exist.                                                             *)
AndonTypeOK ==
    /\ <<day, tDias, failures>> \in Nat \X Nat \X Nat
    /\ activa \in BOOLEAN /\ tipo \in BOOLEAN /\ inbox \in BOOLEAN
    /\ last \in [cierre : Nat, at : Nat]
    /\ avisos \in Seq(Aviso)
    /\ evals \in [Evaluations -> Evaluation]
    /\ \A e \in Evaluations : evals[e].found <= Len(avisos)
    /\ marks \in [Supervisors -> 0..Len(avisos)]
    /\ close \in [step : {"NONE", "HANDLED", "EXPIRED"}, at : Nat, found : 0..Len(avisos)]

(* A5 of ADR-004: what resolves an aviso is a close that was committed,    *)
(* and a close resolves one aviso at most, with avisos doubled, revived by *)
(* an old row or saved over while it runs; a close that rolls back half    *)
(* way leaves no trace here, although the inbox was written already.  A    *)
(* visit that closes twice may so resolve two.                             *)
ResolvedByAClose ==
    \A n \in DOMAIN avisos : avisos[n].cierre # 0 =>
       /\ avisos[n].cierre <= last.cierre
       /\ \A m \in DOMAIN avisos : avisos[m].cierre = avisos[n].cierre => m = n

(* The bound on the rows does not keep an aviso from being opened.         *)
Room == Len(avisos) < MaxAvisos \/ \E n \in DOMAIN avisos : Unresolved(n)

(* A3 and N3: a unit that stays overdue is told about again and again,     *)
(* whatever a close that rolled back, a race or a failure did to its row   *)
(* of the inbox.                                                           *)
OverdueIsShown ==
    <>[](Room /\ activa /\ tipo /\ last.cierre # 0 /\ Due(last.at))
    => []<>(inbox /\ \E n \in DOMAIN avisos : Unresolved(n))

(* AC-03 of SPEC alert attention: a unit that stays within its interval    *)
(* ends with no aviso unresolved, the doubled and the revived included.    *)
CurrentIsWithdrawn ==
    <>[](activa /\ last.cierre # 0 /\ ~Due(last.at))
    => <>[](\A n \in DOMAIN avisos : ~Unresolved(n))
=============================================================================
