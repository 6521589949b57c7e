--------------------------- MODULE CheckFindings ---------------------------
(***************************************************************************)
(* The pure rules that turn the readings of a CHECK into findings, a       *)
(* result, and a verdict on its photographic evidence.  They are called    *)
(* by CanonicalOrdersService.condition and .reviewMaterial.                *)
(***************************************************************************)
EXTENDS Integers, FiniteSets

Severities == {"NONE", "OBSERVATION", "HARD_BLOCKER"}

Classifications == {"OBSERVATION", "FIXED_DURING_CHECK", "REQUIRES_WORK"}

Results == {"FIT", "FIT_WITH_OBSERVATION", "UNFIT"}

(* "NONE" stands for "no CheckFinding row for this source key". *)
FluidSeverity(key, item) ==
    IF item.status = "OK" THEN "NONE"
    ELSE IF \/ item.severity = "CRITICAL"
            \/ key = "leaks" /\ item.severity = "SEVERE"
         THEN "HARD_BLOCKER"
         ELSE "OBSERVATION"

(* Both ranges of a PSI policy are inclusive. *)
TireSeverity(tire, policy) ==
    IF \/ tire.psi < policy.criticalMin \/ tire.psi > policy.criticalMax
       \/ tire.condition \in {"SEVERE", "FLAT"}
    THEN "HARD_BLOCKER"
    ELSE IF \/ tire.psi < policy.normalMin \/ tire.psi > policy.normalMax
            \/ tire.condition = "OBSERVATION"
         THEN "OBSERVATION"
         ELSE "NONE"

(* Source keys, `fluid:<key>` and `tire:<position>` in the code. *)
FluidKey(key) == <<"fluid", key>>
TireKey(position) == <<"tire", position>>

SourceKeys(reading) ==
    {FluidKey(key) : key \in DOMAIN reading.fluids}
        \cup {TireKey(position) : position \in DOMAIN reading.tires}

Severity(reading, policy, k) ==
    IF k[1] = "fluid" THEN FluidSeverity(k[2], reading.fluids[k[2]])
                      ELSE TireSeverity(reading.tires[k[2]], policy)

DerivedResult(reading, policy) ==
    LET found == {Severity(reading, policy, k) : k \in SourceKeys(reading)}
    IN  IF "HARD_BLOCKER" \in found THEN "UNFIT"
        ELSE IF "OBSERVATION" \in found THEN "FIT_WITH_OBSERVATION" ELSE "FIT"

(* `photos` are the READY ones, tagged[f] what photo f was tagged with. *)
EvidenceReadiness(photos, tagged, required, min, max) ==
    /\ Cardinality(photos) \in min..max
    /\ \A tag \in required : \E f \in photos : tag \in tagged[f]
=============================================================================
