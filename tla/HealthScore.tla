---------------------------- MODULE HealthScore ----------------------------
(***************************************************************************)
(* How the health of a unit is calculated: health-score, maintenance-score *)
(* and alerts-score of Salud, and the rule that opens and resolves its     *)
(* alert.  The code calculates with floating point; here a score is an     *)
(* exact fraction [num, den] until it is rounded for display.  Inspections *)
(* are NOT_APPLICABLE in every call of the code, and the one source of     *)
(* alerts is an aviso, of severity HIGH and not of category SAFETY.        *)
(***************************************************************************)
EXTENDS Integers

NoScore == -1

Fraction(num, den) == [num |-> num, den |-> den]

Fractions == [num : Nat, den : Nat \ {0}]

Weights == [maintenance : Nat, alerts : Nat]

Least[p \in Fractions \X Fractions] ==
    IF p[1].num * p[2].den <= p[2].num * p[1].den THEN p[1] ELSE p[2]

Larger(a, b) == IF a >= b THEN a ELSE b

(* scoreFromRemainingRatio, in 51n-ths, of what is left of an interval of  *)
(* n: 100 when nothing is used, 90 where the window of 15 % begins, 35 when *)
(* it is used up, 15 when it is exceeded by 15 %, 0 when it is doubled.     *)
Curve(rest, n) ==
    LET r == 20 * rest
    IN  IF r >= 20 * n THEN 5100 * n
        ELSE IF r >= 3 * n   THEN 4590 * n + 30 * (r - 3 * n)
        ELSE IF r >= 0       THEN 1785 * n + 935 * r
        ELSE IF r >= -3 * n  THEN 765 * n + 340 * (r + 3 * n)
        ELSE IF r >= -20 * n THEN 45 * (r + 20 * n)
        ELSE 0

(* maintenanceAxisScore of what has been used of an interval.              *)
AxisScore(used, n) == Fraction(Curve(n - used, n), 51 * n)

MaintenanceScore(km, tKm, dias, tDias) ==
    Least[<<AxisScore(km, tKm), AxisScore(dias, tDias)>>]

(* Mutant: the penalty of an aviso is taken while there is none.          *)
AlertsScoreSwapped(aviso) == IF aviso THEN 100 ELSE 70

(* alertsScoreFrom of andonSourceAlerts.                                   *)
AlertsScore(aviso) == IF aviso THEN 70 ELSE 100

(* weightedRaw of the two dimensions that apply.                           *)
WeightedRaw(maintenance, alerts, w) ==
    LET sum == w.maintenance + w.alerts
    IN  IF sum = 0 THEN Fraction(0, 1)
        ELSE Fraction(maintenance.num * w.maintenance + alerts * w.alerts * maintenance.den,
                      sum * maintenance.den)

(* applyCaps: at most 50 when maintenance is severely overdue.             *)
Capped(raw, maintenance) ==
    IF maintenance.num <= 14 * maintenance.den THEN Least[<<raw, Fraction(50, 1)>>] ELSE raw

(* displayScore: Math.round rounds halves up.                              *)
Display[final \in Fractions] == (2 * final.num + final.den) \div (2 * final.den)

FinalScore(alerts, w) ==
    [maintenance \in Fractions |-> Display[Capped(WeightedRaw(maintenance, alerts, w), maintenance)]]

(* The score of computeUnitHealth, for a unit that has a closed visit.     *)
Score(km, tKm, dias, tDias, aviso, w) ==
    FinalScore(AlertsScore(aviso), w)[MaintenanceScore(km, tKm, dias, tDias)]

(* Mutant: an open alert is resolved above the recovery threshold only.    *)
DecisionPastRecovery(policy, previous, current, active, reevaluate) ==
    IF active THEN IF current # NoScore /\ current > policy.recovery THEN "RESOLVE" ELSE "KEEP"
    ELSE IF /\ policy.enabled /\ current # NoScore /\ current < policy.alert
            /\ reevaluate \/ previous = NoScore \/ previous >= policy.alert
         THEN "CREATE" ELSE "NONE"

(* evaluateHealthAlertRule.                                                *)
Decision(policy, previous, current, active, reevaluate) ==
    IF active THEN IF current # NoScore /\ current >= policy.recovery THEN "RESOLVE" ELSE "KEEP"
    ELSE IF /\ policy.enabled /\ current # NoScore /\ current < policy.alert
            /\ reevaluate \/ previous = NoScore \/ previous >= policy.alert
         THEN "CREATE" ELSE "NONE"
=============================================================================
