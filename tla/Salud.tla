------------------------------- MODULE Salud -------------------------------
(***************************************************************************)
(* Health of one unit: SaludEngine over its configurations, the snapshot   *)
(* of the last score and the alert HEALTH_BELOW_THRESHOLD.                 *)
(*                                                                         *)
(* An evaluation has no transaction and no lock; it reads on a connection  *)
(* of its own even when the close of a visit calls it, so that it sees     *)
(* what was there before that close.  A request is a person who opens the  *)
(* page of the unit (GET), a close (CLOSE) or an administrator who saves a *)
(* configuration (PUT); each evaluates, and any of them may stop half way. *)
(* The row of the inbox that an alert is told with follows its insertion   *)
(* or its resolution and decides nothing.                                  *)
(***************************************************************************)
EXTENDS HealthScore, FiniteSets

CONSTANTS
    Readers,      \* pages that may be opening at once
    Writers,      \* closes and saves that may be in progress at once
    Policies,     \* contents of a configuration
    Default,      \* that of ensureActiveConfig
    TKm, TDias,   \* andon.umbrales of the type of the unit
    Kms, Days,    \* odometers, days
    MaxCommands,  \* bound on the closes that begin and the configurations saved
    MaxStops      \* bound on the requests that stop half way

ASSUME SaludAssumption ==
    /\ Readers \cap Writers = {}
    /\ TKm \in Nat \ {0} /\ TDias \in Nat \ {0}
    /\ Kms \subseteq Nat /\ Days \subseteq Nat /\ 0 \in Kms /\ 0 \in Days
    /\ Default \in Policies
    /\ \A p \in Policies :
          0 <= p.alert /\ p.alert < p.recovery /\ p.recovery <= 100 /\ p.weights \in Weights

VARIABLES
    today,     \* days
    km,        \* latest odometer of the yard
    lastClose, \* andon.last_closed: whether there is one, its odometer and day
    aviso,     \* the unit has an aviso that is not resolved
    configs,   \* salud.health_config: the contents of the active rows
    snapshot,  \* salud.health_snapshot: the score, NoScore when there is none
    open,      \* salud.health_alert: the rows ABIERTO
    requests,  \* requests in progress
    commands, stops

saludVars == <<today, km, lastClose, aviso, configs, snapshot, open, requests, commands, stops>>
-----------------------------------------------------------------------------
Requests == Readers \cup Writers

Kinds == {"GET", "CLOSE", "PUT"}

Steps == {"IDLE", "INSERT_CONFIG", "CONFIG", "SEED", "CLOSED", "INPUT", "SNAPSHOT", "ACTIVE",
          "INSERT", "RESOLVE", "SAVE", "COMMIT"}

Closed == [visita : BOOLEAN, km : Kms, day : Days]

NeverClosed == [visita |-> FALSE, km |-> 0, day |-> 0]

(* Rows are told apart while somebody works on them, and no longer.        *)
Alerts == 1..(2 * Cardinality(Requests))

(* What a request carries from one step to the next.                       *)
NoRequest == [kind |-> "GET", step |-> "IDLE", policy |-> Default, closed |-> NeverClosed,
         read |-> NeverClosed, score |-> NoScore, previous |-> NoScore, alert |-> 0]

SaludInit ==
    /\ today = 0 /\ km = 0
    /\ lastClose \in {NeverClosed, [visita |-> TRUE, km |-> 0, day |-> 0]} /\ aviso = FALSE
    /\ configs = {Default}
    /\ snapshot = NoScore /\ open = {}
    /\ requests = [r \in Requests |-> NoRequest]
    /\ commands = 0 /\ stops = 0
-----------------------------------------------------------------------------
inputs == <<today, km, lastClose, aviso>>

AtStep(r, step) == requests[r].step = step

Begins(r, q) == AtStep(r, "IDLE") /\ requests' = [requests EXCEPT ![r] = q]

MovesTo(r, step) == requests' = [requests EXCEPT ![r].step = step]

(* getHealth.                                                              *)
Get(r) ==
    /\ Begins(r, [NoRequest EXCEPT !.step = "CONFIG"])
    /\ UNCHANGED <<inputs, configs, snapshot, open, commands, stops>>

(* A close that holds the lock of the unit reaches handleVisitaCerrada.    *)
BeginClose(r) ==
    /\ \A q \in Requests : requests[q].kind = "CLOSE" => AtStep(q, "IDLE")
    /\ commands < MaxCommands
    /\ \E k \in Kms :
          /\ k >= lastClose.km
          /\ Begins(r, [NoRequest EXCEPT !.kind = "CLOSE", !.step = "CONFIG",
                                         !.closed = [visita |-> TRUE, km |-> k, day |-> today]])
    /\ commands' = commands + 1
    /\ UNCHANGED <<inputs, configs, snapshot, open, stops>>

(* saveConfig: deactivateConfigs; the row that follows is another statement. *)
Deactivate(r) ==
    /\ commands < MaxCommands
    /\ \E p \in Policies :
          Begins(r, [NoRequest EXCEPT !.kind = "PUT", !.step = "INSERT_CONFIG", !.policy = p])
    /\ configs' = {}
    /\ commands' = commands + 1
    /\ UNCHANGED <<inputs, snapshot, open, stops>>

InsertConfig(r) ==
    /\ AtStep(r, "INSERT_CONFIG")
    /\ configs' = configs \cup {requests[r].policy}
    /\ MovesTo(r, "CONFIG")
    /\ UNCHANGED <<inputs, snapshot, open, commands, stops>>

(* ensureActiveConfig: any active row, when there are several.             *)
ReadConfig(r) ==
    /\ AtStep(r, "CONFIG")
    /\ \/ \E p \in configs :
             requests' = [requests EXCEPT ![r].step = "CLOSED", ![r].policy = p]
       \/ configs = {} /\ MovesTo(r, "SEED")
    /\ UNCHANGED <<inputs, configs, snapshot, open, commands, stops>>

Seed(r) ==
    /\ AtStep(r, "SEED")
    /\ configs' = configs \cup {Default}
    /\ requests' = [requests EXCEPT ![r].step = "CLOSED", ![r].policy = Default]
    /\ UNCHANGED <<inputs, snapshot, open, commands, stops>>

ReadClosed(r) ==
    /\ AtStep(r, "CLOSED")
    /\ requests' = [requests EXCEPT ![r].step = "INPUT", ![r].read = lastClose]
    /\ UNCHANGED <<inputs, configs, snapshot, open, commands, stops>>

(* The score of what has been read of the last close and what holds now.   *)
ScoreSince(closed, policy) ==
    IF ~closed.visita THEN NoScore
    ELSE Score(Larger(km, closed.km) - closed.km, TKm, today - closed.day, TDias, aviso,
               policy.weights)

(* hasNoResuelto, getLatestKm and computeUnitHealth.                       *)
Compute(r) ==
    LET q == requests[r]
    IN  /\ AtStep(r, "INPUT")
        /\ requests' = [requests EXCEPT ![r].step = "SNAPSHOT",
              ![r].score = ScoreSince(q.read, q.policy), ![r].read = NeverClosed]
        /\ UNCHANGED <<inputs, configs, snapshot, open, commands, stops>>

ReadSnapshot(r) ==
    /\ AtStep(r, "SNAPSHOT")
    /\ requests' = [requests EXCEPT ![r].step = "ACTIVE", ![r].previous = snapshot]
    /\ UNCHANGED <<inputs, configs, snapshot, open, commands, stops>>

(* getActiveAlert: any of them, when there are several; then the rule.     *)
Decide(r) ==
    LET q == requests[r]
    IN  /\ AtStep(r, "ACTIVE")
        /\ \E a \in IF open = {} THEN {0} ELSE open :
              LET d == Decision(q.policy, q.previous, q.score, a # 0, q.kind = "PUT")
              IN  requests' = [requests EXCEPT
                    ![r].step = IF d = "CREATE" THEN "INSERT"
                                ELSE IF d = "RESOLVE" THEN "RESOLVE" ELSE "SAVE",
                    ![r].alert = IF d = "RESOLVE" THEN a ELSE 0,
                    ![r].previous = NoScore, ![r].policy = Default]
        /\ UNCHANGED <<inputs, configs, snapshot, open, commands, stops>>

(* insertAlert.                                                            *)
InsertAlert(r) ==
    /\ AtStep(r, "INSERT")
    /\ LET taken == open \cup {requests[q].alert : q \in Requests}
           new == CHOOSE a \in Alerts : a \notin taken /\ \A b \in Alerts \ taken : a <= b
       IN  open' = open \cup {new}
    /\ MovesTo(r, "SAVE")
    /\ UNCHANGED <<inputs, configs, snapshot, commands, stops>>

(* updateAlert.                                                            *)
ResolveAlert(r) ==
    /\ AtStep(r, "RESOLVE")
    /\ open' = open \ {requests[r].alert}
    /\ requests' = [requests EXCEPT ![r].step = "SAVE", ![r].alert = 0]
    /\ UNCHANGED <<inputs, configs, snapshot, commands, stops>>

Finishes(r) == requests' = [requests EXCEPT ![r] = NoRequest]

(* Mutant: the snapshot is not saved when there is nothing to decide.      *)
SaveSnapshotOnce(r) ==
    LET q == requests[r]
    IN  /\ AtStep(r, "SAVE")
        /\ snapshot' = IF snapshot = NoScore THEN q.score ELSE snapshot
        /\ IF q.kind = "CLOSE"
           THEN requests' = [requests EXCEPT
                  ![r] = [NoRequest EXCEPT !.kind = "CLOSE", !.step = "COMMIT",
                                           !.closed = q.closed]]
           ELSE Finishes(r)
        /\ UNCHANGED <<inputs, configs, open, commands, stops>>

(* upsertSnapshot; a close has its commit before it.                       *)
SaveSnapshot(r) ==
    LET q == requests[r]
    IN  /\ AtStep(r, "SAVE")
        /\ snapshot' = q.score
        /\ IF q.kind = "CLOSE"
           THEN requests' = [requests EXCEPT
                  ![r] = [NoRequest EXCEPT !.kind = "CLOSE", !.step = "COMMIT",
                                           !.closed = q.closed]]
           ELSE Finishes(r)
        /\ UNCHANGED <<inputs, configs, open, commands, stops>>

(* The commit of the close: setLastClosed, and the aviso resolved.         *)
CommitVisita(r) ==
    /\ AtStep(r, "COMMIT")
    /\ lastClose' = requests[r].closed
    /\ aviso' = FALSE
    /\ Finishes(r)
    /\ UNCHANGED <<today, km, configs, snapshot, open, commands, stops>>

(* A statement fails or the process stops; a close rolls back.             *)
Stop(r) ==
    /\ ~AtStep(r, "IDLE")
    /\ stops < MaxStops
    /\ stops' = stops + 1
    /\ Finishes(r)
    /\ UNCHANGED <<inputs, configs, snapshot, open, commands>>
-----------------------------------------------------------------------------
stored == <<lastClose, configs, snapshot, open, requests, commands, stops>>

Pass == \E d \in Days : d > today /\ today' = d /\ UNCHANGED <<km, aviso, stored>>

Drive == \E k \in Kms : k > km /\ km' = k /\ UNCHANGED <<today, aviso, stored>>

(* evaluarUnidad of Andon opens an aviso.                                  *)
OpenAviso ==
    /\ ~aviso /\ lastClose.visita /\ today - lastClose.day >= TDias
    /\ aviso' = TRUE
    /\ UNCHANGED <<today, km, stored>>

Advance(r) ==
    \/ InsertConfig(r) \/ ReadConfig(r) \/ Seed(r) \/ ReadClosed(r) \/ Compute(r)
    \/ ReadSnapshot(r) \/ Decide(r) \/ InsertAlert(r) \/ ResolveAlert(r) \/ SaveSnapshot(r)
    \/ CommitVisita(r)

SaludNext ==
    \/ Pass \/ Drive \/ OpenAviso
    \/ \E r \in Requests : Advance(r) \/ Stop(r)
    \/ \E r \in Readers : Get(r)
    \/ \E r \in Writers : BeginClose(r) \/ Deactivate(r)

(* People keep opening the page of the unit, and a request that does not   *)
(* fail goes on.                                                           *)
SaludFairness ==
    /\ \A r \in Requests : []<>AtStep(r, "IDLE")
    /\ \A r \in Readers : []<>~AtStep(r, "IDLE")

SaludSpec == SaludInit /\ [][SaludNext]_saludVars /\ SaludFairness
-----------------------------------------------------------------------------
(* Rows have the shape of their tables.                                    *)
SaludTypeOK ==
    /\ today \in Days /\ km \in Kms /\ lastClose \in Closed /\ aviso \in BOOLEAN
    /\ configs \subseteq Policies
    /\ snapshot \in {NoScore} \cup 0..100
    /\ open \subseteq Alerts
    /\ requests \in [Requests -> [kind : Kinds, step : Steps, policy : Policies,
          closed : Closed, read : Closed, score : {NoScore} \cup 0..100,
          previous : {NoScore} \cup 0..100, alert : {0} \cup Alerts]]
    /\ commands \in 0..MaxCommands /\ stops \in 0..MaxStops

(* H11 of ADR-004, whatever the requests in progress have read before: a   *)
(* unit that stays at the recovery threshold of what is in force ends with *)
(* no alert open, the doubled ones included.                               *)
RecoveredIsResolved ==
    <>[](lastClose.visita /\ configs # {}
         /\ \A p \in configs : ScoreSince(lastClose, p) >= p.recovery)
    => <>[](open = {})

(* The snapshot is what crossings are judged against.  What it is judged   *)
(* from changes a bounded number of times here: afterwards it ends being   *)
(* the score under a configuration that is in force, although requests     *)
(* that began before finish after others and a close evaluates before its  *)
(* own commit.                                                             *)
SnapshotCatchesUp ==
    <>[](\E p \in configs : snapshot = ScoreSince(lastClose, p))

(* H3 and H5 of ADR-004: between two closes the score of a unit never      *)
(* rises because of days, kilometres or an aviso, neither where the window *)
(* of a service begins or ends nor where a cap does.                       *)
WearNeverHelps ==
    [][(Pass \/ Drive \/ OpenAviso)
       => \A p \in Policies : ScoreSince(lastClose, p)' <= ScoreSince(lastClose, p)]_saludVars
=============================================================================
