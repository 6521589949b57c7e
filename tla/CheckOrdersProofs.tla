------------------------- MODULE CheckOrdersProofs -------------------------
(* Proofs about CheckOrders, for every value of its constants, and that it *)
(* implements CheckContract.                                               *)
EXTENDS CheckOrdersRefinement, TLAPS

(* The rules of CheckFindings give severities and results. *)
LEMMA SeverityType ==
    ASSUME NEW reading, NEW policy, NEW k
    PROVE  Severity(reading, policy, k) \in Severities
BY DEF Severity, FluidSeverity, TireSeverity, Severities

LEMMA ResultType ==
    ASSUME NEW reading, NEW policy
    PROVE  DerivedResult(reading, policy) \in Results
BY DEF DerivedResult, Results

(* What a review hashes is a snapshot. *)
LEMMA MaterialType ==
    ASSUME TypeOK, NEW c \in Checks, NEW m \in Mecanicos,
           visita[c].status # "FREE", NEW rev \in Nat, NEW day \in Nat
    PROVE  Material(c, m, rev, day) \in Snapshot
<1>1. psiPolicy[visita[c].unidad] \in Nat
  BY DEF TypeOK
<1>2. {<<f, evidence[c][f].tags>> : f \in Ready(c)} \in SUBSET (Fotos \X SUBSET Tags)
  BY DEF TypeOK, Ready
<1>3. condition[c] \in ConditionRow /\ finding[c] \in [Keys -> Finding]
  BY DEF TypeOK
<1> QED
  BY <1>1, <1>2, <1>3 DEF Material, Snapshot

LEMMA InitTypeOK == Init => TypeOK
<1> SUFFICES ASSUME Init PROVE TypeOK
  OBVIOUS
<1> QED
  BY CheckOrdersAssumption
  DEF Init, TypeOK, VisitaRow, InspectionRow, ConditionRow, Finding, NoFinding,
      NoCondition, Severities, Active

(* The rows that Review, completion and creation write. *)
LEMMA InspectionRowType ==
    ASSUME NEW row \in InspectionRow
    PROVE  /\ \A src \in {"LOGISTICS_MANUAL", "DAILY_AUTOMATIC"}, d \in Nat :
                [row EXCEPT !.source = src, !.operationalDate = d, !.dayEnd = d]
                  \in InspectionRow
           /\ \A n \in Nat, d \in Nat, snap \in Snapshot :
                [row EXCEPT !.dayEnd = d, !.reviewedVersion = n,
                            !.reviewSnapshot = snap] \in InspectionRow
           /\ \A req \in Request, snap \in Snapshot :
                [row EXCEPT !.completion = req, !.signedSnapshot = snap]
                  \in InspectionRow
<1>1. \A src \in {"LOGISTICS_MANUAL", "DAILY_AUTOMATIC"}, d \in Nat :
        [row EXCEPT !.source = src, !.operationalDate = d, !.dayEnd = d]
          \in InspectionRow
  BY DEF InspectionRow
<1>2. \A n \in Nat, d \in Nat, snap \in Snapshot :
        [row EXCEPT !.dayEnd = d, !.reviewedVersion = n,
                    !.reviewSnapshot = snap] \in InspectionRow
  BY DEF InspectionRow
<1>3. \A req \in Request, snap \in Snapshot :
        [row EXCEPT !.completion = req, !.signedSnapshot = snap]
          \in InspectionRow
  BY DEF InspectionRow
<1> QED
  BY <1>1, <1>2, <1>3

LEMMA LifecycleType ==
    ASSUME TypeOK, NEW c \in Checks, NEW st \in Active, NEW s \in Sujetos,
           visita[c].status # "FREE", Lifecycle(c, st, s)
    PROVE  TypeOK'
<1>1. visita' \in [Checks -> VisitaRow]
  BY DEF TypeOK, VisitaRow, Lifecycle, Active
<1>2. \A d \in Checks : visita'[d].status # "FREE" => visita'[d].unidad \in Unidades
  BY DEF TypeOK, VisitaRow, Lifecycle
<1> QED
  BY <1>1, <1>2 DEF Lifecycle, TypeOK, captureVars, closingVars, envVars

(* A unit gets a new CHECK: CreateCheck and GenerateDaily. *)
LEMMA InsertCheckType ==
    ASSUME TypeOK, NEW c \in Checks, NEW u \in Unidades,
           NEW src \in {"LOGISTICS_MANUAL", "DAILY_AUTOMATIC"},
           InsertCheck(c, u, src)
    PROVE  /\ visita' \in [Checks -> VisitaRow]
           /\ inspection' \in [Checks -> InspectionRow]
           /\ \A d \in Checks : visita'[d].status # "FREE" =>
                                    visita'[d].unidad \in Unidades
<1>1. visita' \in [Checks -> VisitaRow]
  BY DEF TypeOK, VisitaRow, InsertCheck, Active
<1>2. \A d \in Checks : visita'[d].status # "FREE" => visita'[d].unidad \in Unidades
  BY DEF TypeOK, VisitaRow, InsertCheck
<1>3. inspection' = [inspection EXCEPT ![c] =
        [inspection[c] EXCEPT !.source = src, !.operationalDate = today,
                              !.dayEnd = today]]
  BY DEF TypeOK, InsertCheck
<1>4. inspection[c] \in InspectionRow /\ today \in Nat
  BY DEF TypeOK
<1>5. inspection' \in [Checks -> InspectionRow]
  BY <1>3, <1>4, InspectionRowType DEF TypeOK
<1> QED
  BY <1>1, <1>2, <1>5

LEMMA TouchType ==
    ASSUME TypeOK, NEW c \in Checks, visita[c].status # "FREE", Touch(c)
    PROVE  /\ visita' \in [Checks -> VisitaRow]
           /\ \A d \in Checks : visita'[d].status # "FREE" =>
                                    visita'[d].unidad \in Unidades
<1>1. visita' \in [Checks -> VisitaRow]
  <2>1. visita[c] \in VisitaRow
    BY DEF TypeOK
  <2>2. [visita[c] EXCEPT !.version = visita[c].version + 1] \in VisitaRow
    BY <2>1 DEF VisitaRow
  <2>3. visita' = [visita EXCEPT ![c] =
                     [visita[c] EXCEPT !.version = visita[c].version + 1]]
    BY DEF TypeOK, Touch
  <2> QED
    BY <2>2, <2>3 DEF TypeOK
<1>2. \A d \in Checks : visita'[d].status # "FREE" => visita'[d].unidad \in Unidades
  BY DEF TypeOK, VisitaRow, Touch
<1> QED
  BY <1>1, <1>2

(* The capture commands, on the rows they rewrite. *)
LEMMA CaptureType ==
    ASSUME TypeOK, NEW c \in Checks, NEW m \in Mecanicos, Capture(c, m)
    PROVE  TypeOK'
<1>1. ASSUME NEW r \in Lecturas, Condition(c, m, r) PROVE TypeOK'
  <2> DEFINE rev == condition[c].revision + 1
             row == [revision |-> rev, reading |-> r,
                     result |-> DerivedResult(r, Policy(c))]
             found == [k \in Keys |->
                         [NoFinding EXCEPT !.severity = Severity(r, Policy(c), k),
                                           !.revision = rev]]
  <2>1. rev \in Nat
    BY DEF TypeOK, ConditionRow
  <2>2. row \in ConditionRow
    BY <2>1, ResultType DEF ConditionRow
  <2>3. \A k \in Keys : found[k] \in Finding
    <3> TAKE k \in Keys
    <3>1. Severity(r, Policy(c), k) \in Severities
      BY SeverityType
    <3>2. \A s \in Severities, n \in Nat :
            [NoFinding EXCEPT !.severity = s, !.revision = n] \in Finding
      BY DEF NoFinding, Finding
    <3> QED
      BY <2>1, <3>1, <3>2
  <2>4. found \in [Keys -> Finding]
    BY <2>3
  <2>5. /\ condition' = [condition EXCEPT ![c] = row]
        /\ finding' = [finding EXCEPT ![c] = found]
        /\ UNCHANGED <<inspection, evidence, uploads>>
        /\ visita[c].status # "FREE" /\ Touch(c)
    BY <1>1 DEF Condition, Writer
  <2> HIDE DEF row, found
  <2> QED
    BY <2>2, <2>4, <2>5, TouchType DEF TypeOK, Touch, closingVars, envVars
<1>2. ASSUME NEW k \in Keys, NEW class \in Classifications,
             ClassifyFinding(c, m, k, class)
      PROVE  TypeOK'
  <2> DEFINE refs == IF class = "REQUIRES_WORK" THEN Ready(c) ELSE {}
             row == [finding[c][k] EXCEPT !.classification = class,
                       !.classificationRevision = condition[c].revision,
                       !.evidenceRefs = refs]
  <2>1. refs \in SUBSET Fotos
    BY DEF Ready
  <2>2. condition[c].revision \in Nat /\ finding[c][k] \in Finding
    BY DEF TypeOK, ConditionRow
  <2>3. \A f \in Finding, n \in Nat, e \in SUBSET Fotos :
          [f EXCEPT !.classification = class, !.classificationRevision = n,
                    !.evidenceRefs = e] \in Finding
    BY DEF Finding
  <2>4. row \in Finding
    BY <2>1, <2>2, <2>3
  <2>5. /\ finding' = [finding EXCEPT ![c][k] = row]
        /\ UNCHANGED <<inspection, condition, evidence, uploads>>
        /\ visita[c].status # "FREE" /\ Touch(c)
    BY <1>2 DEF ClassifyFinding, Writer
  <2>6. finding' \in [Checks -> [Keys -> Finding]]
    <3> HIDE DEF row
    <3> QED BY <2>4, <2>5 DEF TypeOK
  <2> QED
    BY <2>5, <2>6, TouchType DEF TypeOK, Touch, closingVars, envVars
<1>3. ASSUME NEW f \in Fotos, ReserveEvidence(c, m, f) PROVE TypeOK'
  <2>1. visita[c].status # "FREE" /\ Touch(c)
    BY <1>3 DEF ReserveEvidence, Writer
  <2>2. evidence' \in [Checks -> [Fotos ->
          [status : {"FREE", "TEMPORARY", "READY", "DELETED"}, tags : SUBSET Tags]]]
    BY <1>3 DEF ReserveEvidence, TypeOK
  <2> QED
    BY <1>3, <2>1, <2>2, TouchType
    DEF ReserveEvidence, TypeOK, Touch, closingVars, envVars
<1>4. ASSUME NEW f \in Fotos, NEW t \in SUBSET Tags, UploadEvidence(c, m, f, t)
      PROVE  TypeOK'
  <2>1. uploads' \subseteq Upload
    BY <1>4 DEF UploadEvidence, TypeOK, Upload
  <2> QED
    BY <1>4, <2>1 DEF UploadEvidence, TypeOK, captureVars, closingVars, envVars
<1>5. ASSUME NEW f \in Fotos, DeleteEvidence(c, m, f) PROVE TypeOK'
  <2>1. visita[c].status # "FREE" /\ Touch(c)
    BY <1>5 DEF DeleteEvidence, Writer
  <2> QED
    BY <1>5, <2>1, TouchType
    DEF DeleteEvidence, TypeOK, Touch, closingVars, envVars
<1> QED
  BY <1>1, <1>2, <1>3, <1>4, <1>5 DEF Capture
(* The signature: the only step that fills both ends of an inspection.     *)
LEMMA CompleteCheckType ==
    ASSUME TypeOK, NEW req \in requests, CompleteCheck(req)
    PROVE  TypeOK'
<1> DEFINE c == req.check
           signed == Material(c, req.actor, req.reviewed.revision,
                              inspection[c].dayEnd)
<1>1. /\ req \in Request /\ c \in Checks /\ req.actor \in Mecanicos
      /\ req.reviewed.revision \in Nat
  BY DEF TypeOK, Request, Snapshot
<1>2. visita[c].status # "FREE" /\ visita[c].unidad \in Unidades
  BY <1>1 DEF CompleteCheck, Signable, Writer, TypeOK
<1>3. inspection[c].dayEnd \in Nat
  BY <1>1 DEF TypeOK, InspectionRow
<1>4. signed \in Snapshot
  BY <1>1, <1>2, <1>3, MaterialType
<1>5. inspection' \in [Checks -> InspectionRow]
  <2>1. inspection' = [inspection EXCEPT ![c] =
          [inspection[c] EXCEPT !.completion = req, !.signedSnapshot = signed]]
    BY <1>1 DEF TypeOK, CompleteCheck
  <2>2. inspection[c] \in InspectionRow
    BY <1>1 DEF TypeOK
  <2> HIDE DEF signed
  <2> QED
    BY <1>1, <1>4, <2>1, <2>2, InspectionRowType DEF TypeOK
<1>6. visita' \in [Checks -> VisitaRow]
  <2>1. visita[c] \in VisitaRow
    BY <1>1 DEF TypeOK
  <2>2. [visita[c] EXCEPT !.status = "COMPLETED",
                          !.version = visita[c].version + 1] \in VisitaRow
    <3>1. \A row \in VisitaRow, n \in Nat :
            [row EXCEPT !.status = "COMPLETED", !.version = n] \in VisitaRow
      BY DEF VisitaRow
    <3>2. visita[c].version + 1 \in Nat
      BY <2>1 DEF VisitaRow
    <3> QED
      BY <2>1, <3>1, <3>2
  <2>3. visita' = [visita EXCEPT ![c] =
          [visita[c] EXCEPT !.status = "COMPLETED",
                            !.version = visita[c].version + 1]]
    BY <1>1 DEF TypeOK, CompleteCheck
  <2> QED
    BY <2>2, <2>3 DEF TypeOK
<1>7. \A d \in Checks : visita'[d].status # "FREE" => visita'[d].unidad \in Unidades
  BY <1>1, <1>2 DEF TypeOK, VisitaRow, CompleteCheck
<1>8. corrective' \in [Checks -> [Keys -> Nat]]
  BY <1>1 DEF TypeOK, CompleteCheck
<1>9. /\ outbox' \in [Checks -> Nat]
      /\ lastCompleted' \in [Unidades -> Checks \cup {NULL}]
      /\ acked' \subseteq requests'
  BY <1>1, <1>2 DEF TypeOK, CompleteCheck
<1> QED
  BY <1>5, <1>6, <1>7, <1>8, <1>9 DEF CompleteCheck, TypeOK, captureVars, envVars

LEMMA ReviewType ==
    ASSUME TypeOK, NEW c \in Checks, NEW m \in Mecanicos, Review(c, m)
    PROVE  TypeOK'
<1> DEFINE reviewed == visita[c].version + 1
           snap == Material(c, m, reviewed, today)
<1>1. visita[c].status # "FREE" /\ Touch(c)
  BY DEF Review, Writer
<1>2. reviewed \in Nat /\ today \in Nat
  BY DEF TypeOK, VisitaRow
<1>3. snap \in Snapshot
  BY <1>1, <1>2, MaterialType
<1>4. inspection' = [inspection EXCEPT ![c] =
        [inspection[c] EXCEPT !.dayEnd = today, !.reviewedVersion = reviewed,
                              !.reviewSnapshot = snap]]
  BY DEF TypeOK, Review
<1>5. inspection[c] \in InspectionRow
  BY DEF TypeOK
<1>6. inspection' \in [Checks -> InspectionRow]
  <2> HIDE DEF snap, reviewed
  <2> QED
    BY <1>2, <1>3, <1>4, <1>5, InspectionRowType DEF TypeOK
<1> QED
  BY <1>1, <1>6, TouchType
  DEF Review, TypeOK, Touch, captureVars, closingVars, envVars

LEMMA NextTypeOK == TypeOK /\ [Next]_vars => TypeOK'
<1> SUFFICES ASSUME TypeOK, [Next]_vars PROVE TypeOK'
  OBVIOUS
<1>1. ASSUME NEW c \in Checks, NEW u \in Unidades, CreateCheck(c, u)
      PROVE  TypeOK'
  <2>1. InsertCheck(c, u, "LOGISTICS_MANUAL")
    BY <1>1 DEF CreateCheck
  <2> QED
    BY <1>1, <2>1, InsertCheckType
    DEF CreateCheck, TypeOK, captureVars, closingVars, envVars
<1>2. ASSUME NEW c \in Checks, NEW u \in Unidades, GenerateDaily(c, u)
      PROVE  TypeOK'
  <2>1. InsertCheck(c, u, "DAILY_AUTOMATIC")
    BY <1>2 DEF GenerateDaily
  <2>2. generation' \in [Unidades -> SUBSET Nat]
    BY <1>2 DEF GenerateDaily, TypeOK
  <2> QED
    BY <1>2, <2>1, <2>2, InsertCheckType
    DEF GenerateDaily, TypeOK, captureVars, closingVars, envVars
<1>3. ASSUME NEW c \in Checks, NEW s \in Sujetos, Assign(c, s) PROVE TypeOK'
  BY <1>3, LifecycleType DEF Assign, Active
<1>4. ASSUME NEW c \in Checks, NEW m \in Mecanicos, Claim(c, m) PROVE TypeOK'
  BY <1>4, LifecycleType, CheckOrdersAssumption DEF Claim, Active
<1>5. ASSUME NEW c \in Checks, NEW m \in Mecanicos, Start(c, m) PROVE TypeOK'
  BY <1>5, LifecycleType, CheckOrdersAssumption DEF Start, Active
<1>6. ASSUME NEW c \in Checks, NEW m \in Mecanicos, Capture(c, m) PROVE TypeOK'
  BY <1>6, CaptureType
<1>7. ASSUME NEW up \in uploads, RegisterEvidence(up) PROVE TypeOK'
  <2>1. up.check \in Checks /\ up.foto \in Fotos /\ up.tags \in SUBSET Tags
    BY DEF TypeOK, Upload
  <2>2. visita[up.check].status # "FREE" /\ Touch(up.check)
    BY <1>7 DEF RegisterEvidence, Registrable, Writer
  <2>3. evidence' \in [Checks -> [Fotos ->
          [status : {"FREE", "TEMPORARY", "READY", "DELETED"}, tags : SUBSET Tags]]]
    BY <1>7, <2>1 DEF RegisterEvidence, TypeOK
  <2> QED
    BY <1>7, <2>1, <2>2, <2>3, TouchType
    DEF RegisterEvidence, TypeOK, Touch, closingVars, envVars
<1>8. ASSUME NEW up \in uploads, RegisterRefused(up) PROVE TypeOK'
  BY <1>8 DEF RegisterRefused, TypeOK, captureVars, closingVars, envVars
<1>9. ASSUME NEW c \in Checks, NEW m \in Mecanicos, Review(c, m) PROVE TypeOK'
  BY <1>9, ReviewType
<1>10. ASSUME NEW c \in Checks, NEW m \in Mecanicos, NEW key \in Llaves,
              RequestCompletion(c, m, key)
       PROVE  TypeOK'
  <2>1. inspection[c].reviewSnapshot \in Snapshot
    BY <1>10 DEF RequestCompletion, TypeOK, InspectionRow
  <2>2. requests' \subseteq Request
    BY <1>10, <2>1 DEF RequestCompletion, TypeOK, Request
  <2>3. acked' \subseteq requests'
    BY <1>10 DEF RequestCompletion, TypeOK, closingVars
  <2> QED
    BY <1>10, <2>2, <2>3
    DEF RequestCompletion, TypeOK, captureVars, closingVars, envVars
<1>11. ASSUME NEW req \in requests, CompleteCheck(req) PROVE TypeOK'
  BY <1>11, CompleteCheckType
<1>12. ASSUME NEW req \in requests, ReplayCompletion(req) PROVE TypeOK'
  BY <1>12 DEF ReplayCompletion, TypeOK, captureVars, envVars
<1>13. ASSUME NEW c \in Checks, NEW s \in Fuentes, RecordInvalidation(c, s)
       PROVE  TypeOK'
  BY <1>13 DEF RecordInvalidation, TypeOK, captureVars, closingVars, envVars
<1>14. ASSUME NEW u \in Unidades, NEW s \in Fuentes,
              CloseRequiringReinspection(u, s)
       PROVE  TypeOK'
  <2>1. lastCompleted[u] \in Checks
    BY <1>14 DEF CloseRequiringReinspection, TypeOK
  <2> QED
    BY <1>13, <1>14, <2>1 DEF CloseRequiringReinspection
<1>15. CASE Environment
  <2>1. CASE NextDay
    BY <2>1 DEF NextDay, TypeOK, captureVars, closingVars
  <2>2. ASSUME NEW u \in Unidades, NEW st \in EstadosUnidad, MoveUnit(u, st)
        PROVE  TypeOK'
    BY <2>2 DEF MoveUnit, TypeOK, captureVars, closingVars
  <2>3. ASSUME NEW u \in Unidades, NewPsiPolicy(u) PROVE TypeOK'
    <3>1. psiPolicy' \in [Unidades -> Nat]
      BY <2>3 DEF NewPsiPolicy, TypeOK
    <3> QED
      BY <2>3, <3>1 DEF NewPsiPolicy, TypeOK, captureVars, closingVars
  <2> QED
    BY <1>15, <2>1, <2>2, <2>3 DEF Environment
<1>16. CASE UNCHANGED vars
  BY <1>16 DEF vars, TypeOK, captureVars, closingVars, envVars
<1> QED
  BY <1>1, <1>2, <1>3, <1>4, <1>5, <1>6, <1>7, <1>8, <1>9, <1>10, <1>11,
     <1>12, <1>13, <1>14, <1>15, <1>16 DEF Next, Invalidate

(* Every reachable state has rows of the declared types. *)
THEOREM TypeCorrect == Spec => []TypeOK
BY InitTypeOK, NextTypeOK, PTL DEF Spec

-----------------------------------------------------------------------------
(* Every action is guarded so that it leaves the rows of a completed CHECK *)
(* alone: it writes a CHECK that is FREE, PENDING or ASSIGNED, or one in   *)
(* progress.                                                               *)
RowsUnchanged(c) ==
    /\ visita'[c] = visita[c]
    /\ inspection'[c] = inspection[c]
    /\ condition'[c] = condition[c]
    /\ finding'[c] = finding[c]
    /\ evidence'[c] = evidence[c]
    /\ corrective'[c] = corrective[c]
    /\ outbox'[c] = outbox[c]

(* A step writes the status and the effects of one CHECK only, and only    *)
(* completion makes it COMPLETED or has effects.                           *)
NotCompleting(c) ==
    /\ visita'[c].status # "COMPLETED"
    /\ corrective'[c] = corrective[c]
    /\ outbox'[c] = outbox[c]

LEMMA CaptureFrame ==
    ASSUME TypeOK, NEW c \in Checks, NEW m \in Mecanicos, Capture(c, m),
           NEW d \in Checks
    PROVE  /\ visita[d].status = "COMPLETED" => RowsUnchanged(d)
           /\ visita[d].status # "COMPLETED" => NotCompleting(d)
<1>1. CASE \E f \in Fotos, t \in SUBSET Tags \ {{}} : UploadEvidence(c, m, f, t)
  BY <1>1 DEF UploadEvidence, captureVars, closingVars, RowsUnchanged, NotCompleting
<1>2. ASSUME Writer(c, m), Touch(c),
             \A e \in Checks : e # c =>
                /\ condition'[e] = condition[e] /\ finding'[e] = finding[e]
                /\ evidence'[e] = evidence[e] /\ inspection'[e] = inspection[e]
      PROVE  /\ visita[d].status = "COMPLETED" => RowsUnchanged(d)
             /\ visita[d].status # "COMPLETED" => NotCompleting(d)
  <2>1. visita[c].status = "IN_PROGRESS"
    BY <1>2 DEF Writer
  <2>2. corrective'[d] = corrective[d] /\ outbox'[d] = outbox[d]
    BY <1>2 DEF Touch, closingVars
  <2>3. visita'[d].status = visita[d].status
    BY <1>2 DEF Touch, TypeOK, VisitaRow
  <2>4. d # c => visita'[d] = visita[d]
    BY <1>2 DEF Touch, TypeOK
  <2> QED
    BY <1>2, <2>1, <2>2, <2>3, <2>4 DEF RowsUnchanged, NotCompleting
<1>3. CASE \E r \in Lecturas : Condition(c, m, r)
  BY <1>2, <1>3 DEF Condition, TypeOK
<1>4. CASE \E k \in Keys, class \in Classifications : ClassifyFinding(c, m, k, class)
  BY <1>2, <1>4 DEF ClassifyFinding, TypeOK
<1>5. CASE \E f \in Fotos : ReserveEvidence(c, m, f)
  BY <1>2, <1>5 DEF ReserveEvidence, TypeOK
<1>6. CASE \E f \in Fotos : DeleteEvidence(c, m, f)
  BY <1>2, <1>6 DEF DeleteEvidence, TypeOK
<1> QED
  BY <1>1, <1>3, <1>4, <1>5, <1>6 DEF Capture

LEMMA StepFrame ==
    ASSUME TypeOK, [Next]_vars, NEW d \in Checks
    PROVE  /\ visita[d].status = "COMPLETED" => RowsUnchanged(d)
           /\ visita[d].status # "COMPLETED" =>
                \/ NotCompleting(d)
                \/ \E req \in requests : req.check = d /\ CompleteCheck(req)
<1> DEFINE Goal == /\ visita[d].status = "COMPLETED" => RowsUnchanged(d)
                   /\ visita[d].status # "COMPLETED" =>
                        \/ NotCompleting(d)
                        \/ \E req \in requests : req.check = d /\ CompleteCheck(req)
<1> SUFFICES Goal
  OBVIOUS
<1>1. ASSUME UNCHANGED <<visita, inspection, captureVars, corrective, outbox>>
      PROVE  Goal
  BY <1>1 DEF RowsUnchanged, NotCompleting, captureVars
<1>2. ASSUME NEW c \in Checks, NEW u \in Unidades, NEW src,
             InsertCheck(c, u, src), UNCHANGED <<captureVars, closingVars>>
      PROVE  Goal
  <2>1. visita[c].status = "FREE"
    BY <1>2 DEF InsertCheck
  <2>2. visita'[c].status = "PENDING"
    BY <1>2 DEF InsertCheck, TypeOK
  <2>3. d # c => visita'[d] = visita[d] /\ inspection'[d] = inspection[d]
    BY <1>2 DEF InsertCheck, TypeOK
  <2> QED
    BY <1>2, <2>1, <2>2, <2>3
    DEF RowsUnchanged, NotCompleting, captureVars, closingVars
<1>3. ASSUME NEW c \in Checks, NEW st \in Active, NEW s,
             visita[c].status \in Active, Lifecycle(c, st, s)
      PROVE  Goal
  <2>1. visita'[c].status \in Active
    BY <1>3 DEF Lifecycle, TypeOK
  <2>2. d # c => visita'[d] = visita[d]
    BY <1>3 DEF Lifecycle, TypeOK
  <2> QED
    BY <1>3, <2>1, <2>2
    DEF Lifecycle, Active, RowsUnchanged, NotCompleting, captureVars, closingVars
<1>4. ASSUME NEW c \in Checks, NEW m \in Mecanicos, Capture(c, m) PROVE Goal
  BY <1>4, CaptureFrame
<1>5. ASSUME NEW c \in Checks, NEW m, Writer(c, m), Touch(c),
             \A e \in Checks : e # c =>
                /\ inspection'[e] = inspection[e] /\ evidence'[e] = evidence[e],
             UNCHANGED <<condition, finding>>
      PROVE  Goal
  <2>1. visita[c].status = "IN_PROGRESS"
    BY <1>5 DEF Writer
  <2>2. visita'[d].status = visita[d].status
    BY <1>5 DEF Touch, TypeOK, VisitaRow
  <2>3. d # c => visita'[d] = visita[d]
    BY <1>5 DEF Touch, TypeOK
  <2> QED
    BY <1>5, <2>1, <2>2, <2>3 DEF Touch, closingVars, RowsUnchanged, NotCompleting
<1>6. ASSUME NEW up \in uploads, RegisterEvidence(up) PROVE Goal
  <2>1. up.check \in Checks
    BY DEF TypeOK, Upload
  <2> QED
    BY <1>5, <1>6, <2>1 DEF RegisterEvidence, Registrable, TypeOK
<1>7. ASSUME NEW c \in Checks, NEW m \in Mecanicos, Review(c, m) PROVE Goal
  BY <1>5, <1>7 DEF Review, TypeOK, captureVars
<1>8. ASSUME NEW req \in requests, CompleteCheck(req) PROVE Goal
  <2>1. req.check \in Checks /\ visita[req.check].status = "IN_PROGRESS"
    BY <1>8 DEF TypeOK, Request, CompleteCheck, Signable, Writer
  <2>2. d # req.check => RowsUnchanged(d)
    BY <1>8, <2>1 DEF CompleteCheck, TypeOK, RowsUnchanged, captureVars
  <2> QED
    BY <1>8, <2>1, <2>2 DEF RowsUnchanged, NotCompleting
<1> HIDE DEF Goal
<1>9. CASE Environment
  <2>1. UNCHANGED <<visita, inspection, captureVars, closingVars>>
    BY <1>9 DEF Environment, NextDay, MoveUnit, NewPsiPolicy
  <2> QED
    BY <1>1, <2>1 DEF closingVars
<1>10. CASE UNCHANGED vars
  BY <1>1, <1>10 DEF vars, captureVars, closingVars
<1>11. ASSUME NEW c \in Checks, NEW u \in Unidades,
              CreateCheck(c, u) \/ GenerateDaily(c, u)
       PROVE  Goal
  BY <1>2, <1>11 DEF CreateCheck, GenerateDaily
<1>12. ASSUME NEW c \in Checks, NEW s,
              Assign(c, s) \/ Claim(c, s) \/ Start(c, s)
       PROVE  Goal
  BY <1>3, <1>12 DEF Assign, Claim, Start, Active
<1>13. ASSUME NEW up \in uploads, RegisterRefused(up) PROVE Goal
  BY <1>1, <1>13 DEF RegisterRefused, closingVars
<1>14. ASSUME NEW c \in Checks, NEW m \in Mecanicos, NEW key \in Llaves,
              RequestCompletion(c, m, key)
       PROVE  Goal
  BY <1>1, <1>14 DEF RequestCompletion, closingVars
<1>15. ASSUME NEW req \in requests, ReplayCompletion(req) PROVE Goal
  BY <1>1, <1>15 DEF ReplayCompletion
<1>16. ASSUME NEW c, NEW s \in Fuentes, RecordInvalidation(c, s) PROVE Goal
  BY <1>1, <1>16 DEF RecordInvalidation, closingVars
<1>17. ASSUME NEW c, NEW s \in Fuentes,
              Invalidate(c, s) \/ CloseRequiringReinspection(c, s)
       PROVE  Goal
  BY <1>16, <1>17 DEF Invalidate, CloseRequiringReinspection
<1>18. CASE Next
  BY <1>4, <1>6, <1>7, <1>8, <1>9, <1>11, <1>12, <1>13, <1>14, <1>15, <1>17,
     <1>18 DEF Next
<1> QED
  BY <1>10, <1>18

-----------------------------------------------------------------------------
(* COMPLETED is final, whatever is still on its way.                       *)
THEOREM CompletedFinal == Spec => CompletedImmutable
<1> DEFINE Frozen == \A c \in Checks : visita[c].status = "COMPLETED" =>
                        /\ visita'[c] = visita[c]
                        /\ inspection'[c] = inspection[c]
                        /\ condition'[c] = condition[c]
                        /\ finding'[c] = finding[c]
                        /\ evidence'[c] = evidence[c]
                        /\ corrective'[c] = corrective[c]
<1>1. TypeOK /\ [Next]_vars => Frozen
  BY StepFrame DEF RowsUnchanged
<1>2. TypeOK /\ [Next]_vars => [Frozen]_vars
  BY <1>1
<1> QED
  BY <1>2, TypeCorrect, PTL DEF Spec, CompletedImmutable

(* The invariant behind the signature: the signed snapshot is the review   *)
(* it answers and the content of the tables.                               *)
THEOREM SignedContent == Spec => []SignedAsReviewed
<1>1. Init => SignedAsReviewed
  BY DEF Init, SignedAsReviewed
<1>2. ASSUME TypeOK, SignedAsReviewed, [Next]_vars PROVE SignedAsReviewed'
  <2> SUFFICES ASSUME NEW c \in Checks, visita'[c].status = "COMPLETED"
               PROVE  LET signed == inspection'[c].signedSnapshot IN
                      /\ signed # NULL
                      /\ signed = inspection'[c].reviewSnapshot
                      /\ signed.revision = inspection'[c].reviewedVersion
                      /\ visita'[c].version = inspection'[c].reviewedVersion + 1
                      /\ signed.signer = visita'[c].assignedUserId
                      /\ signed.condition = condition'[c]
                      /\ signed.findings = finding'[c]
                      /\ signed.evidence = {<<f, evidence'[c][f].tags>> : f \in Ready(c)'}
                      /\ Reviewable(c)'
    BY DEF SignedAsReviewed
  <2>1. CASE visita[c].status = "COMPLETED"
    <3>1. RowsUnchanged(c)
      BY <1>2, <2>1, StepFrame
    <3>2. Ready(c)' = Ready(c)
      BY <3>1 DEF RowsUnchanged, Ready
    <3>3. Reviewable(c)' = Reviewable(c)
      BY <3>1, <3>2 DEF RowsUnchanged, Reviewable
    <3> QED
      BY <1>2, <2>1, <3>1, <3>2, <3>3 DEF SignedAsReviewed, RowsUnchanged
  <2>2. CASE visita[c].status # "COMPLETED"
    <3>1. PICK req \in requests : req.check = c /\ CompleteCheck(req)
      BY <1>2, <2>2, StepFrame DEF NotCompleting
    <3> DEFINE signed == Material(c, req.actor, req.reviewed.revision,
                                  inspection[c].dayEnd)
    <3>2. Signable(c, req)
      BY <3>1 DEF CompleteCheck
    <3>3. /\ inspection'[c].signedSnapshot = signed
          /\ inspection'[c].reviewSnapshot = inspection[c].reviewSnapshot
          /\ inspection'[c].reviewedVersion = inspection[c].reviewedVersion
      BY <1>2, <3>1 DEF CompleteCheck, TypeOK, InspectionRow
    <3>4. /\ visita'[c].version = visita[c].version + 1
          /\ visita'[c].assignedUserId = visita[c].assignedUserId
      BY <1>2, <3>1 DEF CompleteCheck, TypeOK, VisitaRow
    <3>5. UNCHANGED <<condition, finding, evidence>>
      BY <3>1 DEF CompleteCheck, captureVars
    <3>6. /\ signed = inspection[c].reviewSnapshot
          /\ inspection[c].reviewedVersion = req.reviewed.revision
          /\ visita[c].version = req.reviewed.revision
          /\ visita[c].assignedUserId = req.actor
          /\ Reviewable(c)
      BY <3>2 DEF Signable, Writer
    <3>7. Reviewable(c)'
      BY <3>5, <3>6 DEF Reviewable, Ready
    <3>8. /\ signed.revision = req.reviewed.revision
          /\ signed.signer = req.actor
          /\ signed.condition = condition[c]
          /\ signed.findings = finding[c]
          /\ signed.evidence = {<<f, evidence[c][f].tags>> : f \in Ready(c)}
      BY DEF Material
    <3>9. signed # NULL
      <4>1. req.reviewed \in Snapshot
        BY <1>2 DEF TypeOK, Request
      <4>2. signed = req.reviewed
        BY <3>2 DEF Signable
      <4> QED
        BY <4>1, <4>2, NullAssumption
    <3> HIDE DEF signed
    <3> QED
      BY <3>3, <3>4, <3>5, <3>6, <3>7, <3>8, <3>9 DEF Ready
  <2> QED
    BY <2>1, <2>2
<1> QED
  BY <1>1, <1>2, TypeCorrect, PTL DEF Spec

(* One CHECK_COMPLETED event and one corrective order per REQUIRES_WORK    *)
(* finding, at the signature and never again.                              *)
THEOREM EffectsOnce == Spec => []CompletionEffectsOnce
<1>1. Init => CompletionEffectsOnce
  BY DEF Init, CompletionEffectsOnce
<1>2. ASSUME TypeOK, CompletionEffectsOnce, [Next]_vars, NEW c \in Checks
      PROVE  /\ outbox'[c] = IF visita'[c].status = "COMPLETED" THEN 1 ELSE 0
             /\ \A k \in Keys : corrective'[c][k] =
                  IF /\ visita'[c].status = "COMPLETED"
                     /\ inspection'[c].signedSnapshot.findings[k].classification
                          = "REQUIRES_WORK"
                  THEN 1 ELSE 0
  <2>1. CASE visita[c].status = "COMPLETED"
    BY <1>2, <2>1, StepFrame DEF CompletionEffectsOnce, RowsUnchanged
  <2>2. CASE visita[c].status # "COMPLETED" /\ NotCompleting(c)
    BY <1>2, <2>2 DEF CompletionEffectsOnce, NotCompleting
  <2>3. ASSUME visita[c].status # "COMPLETED",
               NEW req \in requests, req.check = c, CompleteCheck(req)
        PROVE  /\ outbox'[c] = 1 /\ visita'[c].status = "COMPLETED"
               /\ \A k \in Keys : corrective'[c][k] =
                    IF inspection'[c].signedSnapshot.findings[k].classification
                         = "REQUIRES_WORK"
                    THEN 1 ELSE 0
    <3>1. /\ outbox[c] = 0
          /\ \A k \in Keys : corrective[c][k] = 0
      BY <1>2, <2>3 DEF CompletionEffectsOnce
    <3>2. outbox'[c] = 1 /\ visita'[c].status = "COMPLETED"
      BY <1>2, <2>3, <3>1 DEF CompleteCheck, TypeOK, VisitaRow
    <3>3. \A k \in Keys : corrective'[c][k] = IF k \in RequiresWork(c) THEN 1 ELSE 0
      BY <1>2, <2>3, <3>1 DEF CompleteCheck, TypeOK
    <3>4. inspection'[c].signedSnapshot =
            Material(c, req.actor, req.reviewed.revision, inspection[c].dayEnd)
      BY <1>2, <2>3 DEF CompleteCheck, TypeOK, InspectionRow
    <3>5. inspection'[c].signedSnapshot.findings = finding[c]
      BY <3>4 DEF Material
    <3> QED
      BY <3>2, <3>3, <3>5 DEF RequiresWork
  <2> QED
    BY <1>2, <2>1, <2>2, <2>3, StepFrame
<1>3. TypeOK /\ CompletionEffectsOnce /\ [Next]_vars => CompletionEffectsOnce'
  BY <1>2 DEF CompletionEffectsOnce
<1> QED
  BY <1>1, <1>3, TypeCorrect, PTL DEF Spec

(* How a step changes the visitas rows: a CHECK is created for a unit      *)
(* without an active one, or no CHECK becomes active or changes unit.      *)
Creates(c, u) ==
    /\ FindActive(u) = {}
    /\ visita[c].status = "FREE"
    /\ visita'[c].unidad = u
    /\ \A d \in Checks : d # c => visita'[d] = visita[d]

NoneActivated ==
    \A d \in Checks : /\ visita'[d].status \in Active => visita[d].status \in Active
                      /\ visita'[d].unidad = visita[d].unidad

LEMMA ActiveStep ==
    ASSUME TypeOK, [Next]_vars
    PROVE  NoneActivated \/ \E c \in Checks, u \in Unidades : Creates(c, u)
<1>1. ASSUME UNCHANGED visita PROVE NoneActivated
  BY <1>1 DEF NoneActivated
<1>2. ASSUME NEW c \in Checks, NEW u \in Unidades,
             CreateCheck(c, u) \/ GenerateDaily(c, u)
      PROVE  Creates(c, u)
  BY <1>2 DEF CreateCheck, GenerateDaily, InsertCheck, TypeOK, Creates
<1>3. ASSUME NEW c \in Checks, NEW s, Assign(c, s) \/ Claim(c, s) \/ Start(c, s)
      PROVE  NoneActivated
  <2>1. PICK st : visita[c].status \in Active /\ Lifecycle(c, st, s)
    BY <1>3 DEF Assign, Claim, Start, Active
  <2>2. /\ visita'[c].unidad = visita[c].unidad
        /\ \A d \in Checks : d # c => visita'[d] = visita[d]
    BY <2>1 DEF Lifecycle, TypeOK, VisitaRow
  <2> QED
    BY <2>1, <2>2 DEF NoneActivated
<1>4. ASSUME NEW c \in Checks, Touch(c) PROVE NoneActivated
  <2>1. visita'[c].unidad = visita[c].unidad /\ visita'[c].status = visita[c].status
    BY <1>4 DEF Touch, TypeOK, VisitaRow
  <2>2. \A d \in Checks : d # c => visita'[d] = visita[d]
    BY <1>4 DEF Touch, TypeOK
  <2> QED
    BY <2>1, <2>2 DEF NoneActivated
<1>5. ASSUME NEW c \in Checks, NEW m \in Mecanicos, Capture(c, m) PROVE NoneActivated
  BY <1>1, <1>4, <1>5 DEF Capture, Condition, ClassifyFinding, ReserveEvidence,
                          UploadEvidence, DeleteEvidence
<1>6. ASSUME NEW up \in uploads, RegisterEvidence(up) PROVE NoneActivated
  BY <1>4, <1>6 DEF RegisterEvidence, TypeOK, Upload
<1>7. ASSUME NEW c \in Checks, NEW m \in Mecanicos, Review(c, m) PROVE NoneActivated
  BY <1>4, <1>7 DEF Review
<1>8. ASSUME NEW req \in requests, CompleteCheck(req) PROVE NoneActivated
  <2>1. req.check \in Checks
    BY DEF TypeOK, Request
  <2>2. visita'[req.check].status = "COMPLETED"
        /\ visita'[req.check].unidad = visita[req.check].unidad
    BY <1>8, <2>1 DEF CompleteCheck, TypeOK, VisitaRow
  <2>3. \A d \in Checks : d # req.check => visita'[d] = visita[d]
    BY <1>8, <2>1 DEF CompleteCheck, TypeOK
  <2> QED
    BY <2>2, <2>3 DEF NoneActivated, Active
<1>9. ASSUME NEW up \in uploads, RegisterRefused(up) PROVE NoneActivated
  BY <1>1, <1>9 DEF RegisterRefused
<1>10. ASSUME NEW c \in Checks, NEW m \in Mecanicos, NEW key \in Llaves,
              RequestCompletion(c, m, key)
       PROVE  NoneActivated
  BY <1>1, <1>10 DEF RequestCompletion
<1>11. ASSUME NEW req \in requests, ReplayCompletion(req) PROVE NoneActivated
  BY <1>1, <1>11 DEF ReplayCompletion
<1>12. ASSUME NEW c, NEW s \in Fuentes,
              Invalidate(c, s) \/ CloseRequiringReinspection(c, s)
       PROVE  NoneActivated
  BY <1>1, <1>12 DEF Invalidate, CloseRequiringReinspection, RecordInvalidation
<1>13. ASSUME Environment PROVE NoneActivated
  BY <1>1, <1>13 DEF Environment, NextDay, MoveUnit, NewPsiPolicy
<1>14. ASSUME UNCHANGED vars PROVE NoneActivated
  BY <1>1, <1>14 DEF vars
<1> QED
  BY <1>2, <1>3, <1>5, <1>6, <1>7, <1>8, <1>9, <1>10, <1>11, <1>12, <1>13,
     <1>14 DEF Next

(* The two creators and everything else never give a unit two active       *)
(* CHECKs.                                                                 *)
THEOREM OneActive == Spec => []OneActiveCheck
<1>1. Init => OneActiveCheck
  BY DEF Init, OneActiveCheck, IsActive, Active
<1>2. ASSUME TypeOK, OneActiveCheck, [Next]_vars PROVE OneActiveCheck'
  <2>1. CASE NoneActivated
    BY <1>2, <2>1 DEF NoneActivated, OneActiveCheck, IsActive
  <2>2. ASSUME NEW c \in Checks, NEW u \in Unidades, Creates(c, u)
        PROVE  OneActiveCheck'
    BY <1>2, <2>2 DEF Creates, OneActiveCheck, IsActive, FindActive
  <2> QED
    BY <1>2, <2>1, <2>2, ActiveStep
<1> QED
  BY <1>1, <1>2, TypeCorrect, PTL DEF Spec

-----------------------------------------------------------------------------
(* What the rest of the system sees of the CHECKs, a row at a time.        *)
SamePhase(d) ==
    /\ (visita'[d].status = "FREE") <=> (visita[d].status = "FREE")
    /\ (visita'[d].status = "COMPLETED") <=> (visita[d].status = "COMPLETED")

SameOwner(d) == visita'[d].unidad = visita[d].unidad

SameSignature(d) ==
    /\ inspection'[d].signedSnapshot = inspection[d].signedSnapshot
    /\ inspection'[d].completion = inspection[d].completion

Unseen ==
    /\ \A d \in Checks : SamePhase(d) /\ SameOwner(d) /\ SameSignature(d)
    /\ UNCHANGED <<corrective, outbox, lastCompleted, invalidation>>

(* A new row: the only step that gives a CHECK to a unit.                  *)
Inserts(c, u) ==
    /\ visita[c].status = "FREE" /\ FindActive(u) = {}
    /\ visita'[c].status = "PENDING" /\ visita'[c].unidad = u
    /\ \A d \in Checks : SameSignature(d)
    /\ \A d \in Checks \ {c} : SamePhase(d) /\ SameOwner(d)
    /\ UNCHANGED <<closingVars, invalidation>>

LEMMA InsertsStep ==
    ASSUME TypeOK, NEW c \in Checks, NEW u \in Unidades,
           CreateCheck(c, u) \/ GenerateDaily(c, u)
    PROVE  Inserts(c, u)
<1>1. PICK src : InsertCheck(c, u, src)
  BY DEF CreateCheck, GenerateDaily
<1>2. /\ FindActive(u) = {}
      /\ UNCHANGED <<closingVars, invalidation>>
  BY DEF CreateCheck, GenerateDaily
<1>3. /\ visita'[c].status = "PENDING" /\ visita'[c].unidad = u
      /\ \A d \in Checks \ {c} : visita'[d] = visita[d]
  BY <1>1 DEF InsertCheck, TypeOK
<1>4. \A d \in Checks : SameSignature(d)
  BY <1>1 DEF InsertCheck, TypeOK, InspectionRow, SameSignature
<1> QED
  BY <1>1, <1>2, <1>3, <1>4 DEF InsertCheck, Inserts, SamePhase, SameOwner

LEMMA LifecycleUnseen ==
    ASSUME TypeOK, NEW c \in Checks, NEW st \in Active, NEW s,
           visita[c].status \in Active, Lifecycle(c, st, s)
    PROVE  Unseen /\ acked' = acked
<1>1. /\ visita'[c].status = st /\ visita'[c].unidad = visita[c].unidad
      /\ \A d \in Checks \ {c} : visita'[d] = visita[d]
  BY DEF Lifecycle, TypeOK
<1>2. \A d \in Checks : SamePhase(d) /\ SameOwner(d)
  BY <1>1 DEF SamePhase, SameOwner, Active
<1> QED
  BY <1>2 DEF Lifecycle, Unseen, SameSignature, closingVars

(* Whatever a mechanic writes in a CHECK, and a review.                    *)
LEMMA TouchUnseen ==
    ASSUME TypeOK, NEW c \in Checks, Touch(c), \A d \in Checks : SameSignature(d)
    PROVE  Unseen /\ acked' = acked
<1>1. \A d \in Checks : visita'[d].status = visita[d].status /\ SameOwner(d)
  BY DEF Touch, TypeOK, VisitaRow, SameOwner
<1> QED
  BY <1>1 DEF Touch, Unseen, SamePhase, closingVars

LEMMA NothingUnseen ==
    ASSUME UNCHANGED <<visita, inspection, closingVars, invalidation>>
    PROVE  Unseen /\ acked' = acked
BY DEF Unseen, SamePhase, SameOwner, SameSignature, closingVars

(* A step creates a CHECK, completes one, answers a completion again,      *)
(* records an invalidation, or is not seen outside.                        *)
LEMMA StepKinds ==
    ASSUME TypeOK, [Next]_vars
    PROVE  \/ Unseen /\ acked' = acked
           \/ \E c \in Checks, u \in Unidades : Inserts(c, u)
           \/ \E r \in requests : CompleteCheck(r)
           \/ \E r \in requests : ReplayCompletion(r)
           \/ \E c \in Checks, s \in Fuentes :
                /\ RecordInvalidation(c, s)
                /\ \/ visita[c].status = "COMPLETED"
                   \/ \E u \in Unidades : lastCompleted[u] = c
<1>1. ASSUME NEW c \in Checks, NEW m \in Mecanicos, Capture(c, m)
      PROVE  Unseen /\ acked' = acked
  <2>1. UNCHANGED inspection
    BY <1>1 DEF Capture, Condition, ClassifyFinding, ReserveEvidence,
                UploadEvidence, DeleteEvidence
  <2>2. \A d \in Checks : SameSignature(d)
    BY <2>1 DEF SameSignature
  <2>3. CASE \E f \in Fotos, t \in SUBSET Tags \ {{}} : UploadEvidence(c, m, f, t)
    BY <2>3, NothingUnseen DEF UploadEvidence
  <2>4. CASE Touch(c)
    BY <2>2, <2>4, TouchUnseen
  <2> QED
    BY <1>1, <2>3, <2>4 DEF Capture, Condition, ClassifyFinding,
                            ReserveEvidence, DeleteEvidence
<1>2. ASSUME NEW up \in uploads, RegisterEvidence(up) PROVE Unseen /\ acked' = acked
  <2>1. up.check \in Checks /\ Touch(up.check) /\ UNCHANGED inspection
    BY <1>2 DEF RegisterEvidence, TypeOK, Upload
  <2>2. \A d \in Checks : SameSignature(d)
    BY <2>1 DEF SameSignature
  <2> QED
    BY <2>1, <2>2, TouchUnseen
<1>3. ASSUME NEW c \in Checks, NEW m \in Mecanicos, Review(c, m)
      PROVE  Unseen /\ acked' = acked
  <2>1. Touch(c)
    BY <1>3 DEF Review
  <2>2. \A d \in Checks : SameSignature(d)
    BY <1>3 DEF Review, TypeOK, InspectionRow, SameSignature
  <2> QED
    BY <2>1, <2>2, TouchUnseen
<1>4. ASSUME NEW c \in Checks, NEW s, Assign(c, s) \/ Claim(c, s) \/ Start(c, s)
      PROVE  Unseen /\ acked' = acked
  BY <1>4, LifecycleUnseen DEF Assign, Claim, Start, Active
<1>5. ASSUME NEW up \in uploads, RegisterRefused(up) PROVE Unseen /\ acked' = acked
  BY <1>5, NothingUnseen DEF RegisterRefused
<1>6. ASSUME NEW c \in Checks, NEW m \in Mecanicos, NEW key \in Llaves,
             RequestCompletion(c, m, key)
      PROVE  Unseen /\ acked' = acked
  BY <1>6, NothingUnseen DEF RequestCompletion
<1>7. ASSUME Environment PROVE Unseen /\ acked' = acked
  BY <1>7, NothingUnseen DEF Environment, NextDay, MoveUnit, NewPsiPolicy
<1>8. ASSUME UNCHANGED vars PROVE Unseen /\ acked' = acked
  BY <1>8, NothingUnseen DEF vars
<1>9. ASSUME NEW c \in Checks, NEW s \in Fuentes, Invalidate(c, s)
      PROVE  RecordInvalidation(c, s) /\ visita[c].status = "COMPLETED"
  BY <1>9 DEF Invalidate
<1>10. ASSUME NEW u \in Unidades, NEW s \in Fuentes,
              CloseRequiringReinspection(u, s)
       PROVE  lastCompleted[u] \in Checks /\ RecordInvalidation(lastCompleted[u], s)
  BY <1>10 DEF CloseRequiringReinspection, TypeOK
<1> QED
  BY <1>1, <1>2, <1>3, <1>4, <1>5, <1>6, <1>7, <1>8, <1>9, <1>10, InsertsStep
  DEF Next

-----------------------------------------------------------------------------
(* Behind the answers: a request answered with success is the completion   *)
(* its CHECK keeps, and two CHECKs never keep completions of one key.      *)
AnswersAreKept == \A r \in acked : inspection[r.check].completion = r

KeysAreSpentOnce ==
    \A c, d \in Checks :
        /\ inspection[c].completion # NULL
        /\ inspection[d].completion # NULL
        /\ inspection[c].completion.key = inspection[d].completion.key
        => c = d

Answers == AnswersAreKept /\ KeysAreSpentOnce

LEMMA AnswersStep ==
    ASSUME TypeOK, Answers, [Next]_vars
    PROVE  Answers'
<1>1. \A r \in acked : r \in Request /\ r.check \in Checks
  BY DEF TypeOK, Request
<1>2. ASSUME \A d \in Checks : SameSignature(d), acked' = acked
      PROVE  Answers'
  BY <1>1, <1>2 DEF SameSignature, Answers, AnswersAreKept, KeysAreSpentOnce
<1>3. ASSUME NEW req \in requests, CompleteCheck(req) PROVE Answers'
  <2>1. req \in Request /\ req.check \in Checks /\ req # NULL
    BY NullAssumption DEF TypeOK, Request
  <2>2. inspection'[req.check].completion = req
    BY <1>3, <2>1 DEF CompleteCheck, TypeOK, InspectionRow
  <2>3. \A d \in Checks \ {req.check} : inspection'[d] = inspection[d]
    BY <1>3, <2>1 DEF CompleteCheck, TypeOK
  <2>4. inspection[req.check].completion = NULL /\ acked' = acked \cup {req}
    BY <1>3 DEF CompleteCheck, Signable
  <2>5. \A d \in Checks : inspection[d].completion # NULL =>
           inspection[d].completion.key # req.key
    BY <1>3 DEF CompleteCheck, Signable
  <2>6. \A r \in acked : r.check # req.check
    BY <1>1, <2>4, NullAssumption DEF Answers, AnswersAreKept
  <2>7. AnswersAreKept'
    BY <1>1, <2>2, <2>3, <2>4, <2>6 DEF Answers, AnswersAreKept
  <2>8. KeysAreSpentOnce'
    BY <2>1, <2>2, <2>3, <2>5 DEF Answers, KeysAreSpentOnce
  <2> QED
    BY <2>7, <2>8 DEF Answers
<1>4. ASSUME NEW req \in requests, ReplayCompletion(req) PROVE Answers'
  BY <1>4 DEF ReplayCompletion, Answers, AnswersAreKept, KeysAreSpentOnce
<1>5. CASE \E c \in Checks, u \in Unidades : Inserts(c, u)
  BY <1>2, <1>5 DEF Inserts, closingVars
<1>6. CASE \E c \in Checks, s \in Fuentes : RecordInvalidation(c, s)
  BY <1>2, <1>6 DEF RecordInvalidation, SameSignature, closingVars
<1> QED
  BY <1>2, <1>3, <1>4, <1>5, <1>6, StepKinds DEF Unseen

(* Retries and second devices: one request per CHECK is ever answered with *)
(* success, and one CHECK per key.                                         *)
THEOREM OneAnswer == Spec => []OneAnsweredCompletion
<1>1. Init => Answers
  BY DEF Init, Answers, AnswersAreKept, KeysAreSpentOnce
<1>2. TypeOK /\ Answers /\ [Next]_vars => Answers'
  BY AnswersStep
<1>3. ASSUME TypeOK, Answers PROVE OneAnsweredCompletion
  <2> SUFFICES ASSUME NEW r \in acked, NEW q \in acked,
                      r.check = q.check \/ r.key = q.key
               PROVE  r = q
    BY DEF OneAnsweredCompletion
  <2>1. /\ r \in Request /\ r.check \in Checks /\ r # NULL
        /\ q \in Request /\ q.check \in Checks /\ q # NULL
    BY <1>3, NullAssumption DEF TypeOK, Request
  <2>2. inspection[r.check].completion = r /\ inspection[q.check].completion = q
    BY <1>3 DEF Answers, AnswersAreKept
  <2>3. r.check = q.check
    BY <1>3, <2>1, <2>2 DEF Answers, KeysAreSpentOnce
  <2> QED
    BY <2>2, <2>3
<1>4. TypeOK /\ Answers => OneAnsweredCompletion
  BY <1>3
<1> QED
  BY <1>1, <1>2, <1>4, TypeCorrect, PTL DEF Spec

-----------------------------------------------------------------------------
(* The mapping, a row at a time.                                           *)
ownerMap == [c \in Checks |-> visita[c].unidad]
signedMap == [c \in Checks |-> inspection[c].signedSnapshot]
correctivesMap == [c \in Checks |-> {k \in Keys : corrective[c][k] # 0}]
announcedMap == {c \in Checks : outbox[c] # 0}
voidedMap == {c \in Checks : Invalidated(c)}

contractVars == <<phaseMap, ownerMap, signedMap, correctivesMap, announcedMap,
                  lastCompleted, voidedMap, today>>

LEMMA PhaseIs ==
    ASSUME TypeOK, NEW c \in Checks
    PROVE  /\ phaseMap[c] = "FREE" <=> visita[c].status = "FREE"
           /\ phaseMap[c] = "SIGNED" <=> visita[c].status = "COMPLETED"
           /\ phaseMap[c] = "OPEN" <=> IsActive(c)
           /\ phaseMap[c] \in {"FREE", "OPEN", "SIGNED"}
<1>1. visita[c].status \in Active \cup {"FREE", "COMPLETED"}
  BY DEF TypeOK, VisitaRow
<1>2. CASE visita[c].status = "FREE"
  BY <1>2 DEF phaseMap, IsActive, Active
<1>3. CASE visita[c].status = "COMPLETED"
  BY <1>3 DEF phaseMap, IsActive, Active
<1>4. CASE visita[c].status \in Active
  BY <1>4 DEF phaseMap, IsActive, Active
<1> QED
  BY <1>1, <1>2, <1>3, <1>4

LEMMA PhaseStays ==
    ASSUME TypeOK, TypeOK', NEW c \in Checks, SamePhase(c)
    PROVE  phaseMap'[c] = phaseMap[c]
BY PhaseIs DEF SamePhase, phaseMap

LEMMA ContractInit == Init => Contract!CInit
<1> SUFFICES ASSUME Init PROVE Contract!CInit
  OBVIOUS
<1>1. phaseMap = [c \in Checks |-> "FREE"]
  BY DEF Init, phaseMap
<1>2. correctivesMap = [c \in Checks |-> {}]
  BY DEF Init, correctivesMap
<1>3. announcedMap = {}
  BY DEF Init, announcedMap
<1>4. voidedMap = {}
  BY CheckOrdersAssumption DEF Init, voidedMap, Invalidated
<1>5. /\ ownerMap = [c \in Checks |-> NULL]
      /\ signedMap = [c \in Checks |-> NULL]
      /\ lastCompleted = [u \in Unidades |-> NULL]
      /\ today = 1
  BY DEF Init, ownerMap, signedMap
<1> QED
  BY <1>1, <1>2, <1>3, <1>4, <1>5
  DEF Contract!CInit, ownerMap, signedMap, correctivesMap, announcedMap, voidedMap

(* The latest CHECK of a unit is a signed one.                             *)
LatestIsSigned ==
    \A u \in Unidades : lastCompleted[u] # NULL =>
        visita[lastCompleted[u]].status = "COMPLETED"

(* Only midnight moves the day, and it moves nothing else the contract     *)
(* speaks of.                                                              *)
LEMMA DayStep ==
    ASSUME TypeOK, [Next]_vars
    PROVE  \/ today' = today
           \/ today' = today + 1 /\ Unseen
<1> DEFINE Moves == today' = today \/ (today' = today + 1 /\ Unseen)
<1>1. ASSUME NEW c \in Checks, NEW m \in Mecanicos, Capture(c, m)
      PROVE  Moves
  BY <1>1 DEF Capture, Condition, ClassifyFinding, ReserveEvidence,
              UploadEvidence, DeleteEvidence, Touch, envVars
<1>2. ASSUME NEW c \in Checks, NEW u \in Unidades,
             CreateCheck(c, u) \/ GenerateDaily(c, u)
      PROVE  Moves
  BY <1>2 DEF CreateCheck, GenerateDaily, envVars
<1>3. ASSUME NEW c \in Checks, NEW s, Assign(c, s) \/ Claim(c, s) \/ Start(c, s)
      PROVE  Moves
  BY <1>3 DEF Assign, Claim, Start, Lifecycle, envVars
<1>4. ASSUME NEW up \in uploads, RegisterEvidence(up) \/ RegisterRefused(up)
      PROVE  Moves
  BY <1>4 DEF RegisterEvidence, RegisterRefused, Touch, envVars
<1>5. ASSUME NEW c \in Checks, NEW m \in Mecanicos,
             Review(c, m) \/ \E key \in Llaves : RequestCompletion(c, m, key)
      PROVE  Moves
  BY <1>5 DEF Review, RequestCompletion, Touch, envVars
<1>6. ASSUME NEW req \in requests, CompleteCheck(req) \/ ReplayCompletion(req)
      PROVE  Moves
  BY <1>6 DEF CompleteCheck, ReplayCompletion, envVars
<1>7. ASSUME Environment
      PROVE  Moves
  <2>1. CASE NextDay
    BY <2>1, NothingUnseen DEF NextDay
  <2>2. CASE \E u \in Unidades, st \in EstadosUnidad : MoveUnit(u, st)
    BY <2>2 DEF MoveUnit
  <2>3. CASE \E u \in Unidades : NewPsiPolicy(u)
    BY <2>3 DEF NewPsiPolicy
  <2> QED
    BY <1>7, <2>1, <2>2, <2>3 DEF Environment
<1>8. ASSUME UNCHANGED vars
      PROVE  Moves
  BY <1>8 DEF vars, envVars
<1>9. ASSUME NEW c \in Checks, NEW s \in Fuentes, Invalidate(c, s)
      PROVE  Moves
  BY <1>9 DEF Invalidate, RecordInvalidation, envVars
<1>10. ASSUME NEW u \in Unidades, NEW s \in Fuentes, CloseRequiringReinspection(u, s)
      PROVE  Moves
  BY <1>10 DEF CloseRequiringReinspection, RecordInvalidation, envVars
<1> HIDE DEF Moves
<1>11. Moves
  BY <1>1, <1>2, <1>3, <1>4, <1>5, <1>6, <1>7, <1>8, <1>9, <1>10
  DEF Next
<1> QED
  BY <1>11 DEF Moves

LEMMA ContractUnseen ==
    ASSUME TypeOK, TypeOK', Unseen
    PROVE  /\ UNCHANGED <<phaseMap, ownerMap, signedMap, correctivesMap,
                          announcedMap, lastCompleted, voidedMap>>
           /\ today' = today => UNCHANGED contractVars
           /\ today' = today + 1 => Contract!NewDay
<1>1. phaseMap' = phaseMap
  <2>1. \A c \in Checks : phaseMap'[c] = phaseMap[c]
    BY PhaseStays DEF Unseen
  <2> QED
    BY <2>1 DEF phaseMap
<1>2. ownerMap' = ownerMap /\ signedMap' = signedMap
  BY DEF Unseen, SameOwner, SameSignature, ownerMap, signedMap
<1>3. correctivesMap' = correctivesMap /\ announcedMap' = announcedMap
  BY DEF Unseen, correctivesMap, announcedMap
<1>4. voidedMap' = voidedMap /\ lastCompleted' = lastCompleted
  BY DEF Unseen, voidedMap, Invalidated
<1> QED
  BY <1>1, <1>2, <1>3, <1>4
  DEF contractVars, Contract!NewDay, ownerMap, signedMap, correctivesMap,
      announcedMap, voidedMap

LEMMA ContractOpen ==
    ASSUME TypeOK, TypeOK', NEW c \in Checks, NEW u \in Unidades, Inserts(c, u),
           today' = today
    PROVE  Contract!Open(c, u)
<1>1. phaseMap[c] = "FREE" /\ phaseMap'[c] = "OPEN"
  <2>1. phaseMap[c] = "FREE"
    BY PhaseIs DEF Inserts
  <2>2. phaseMap'[c] = "OPEN"
    BY DEF Inserts, phaseMap
  <2> QED
    BY <2>1, <2>2
<1>2. \A d \in Checks : ~(phaseMap[d] = "OPEN" /\ ownerMap[d] = u)
  BY PhaseIs DEF Inserts, FindActive, ownerMap
<1>3. phaseMap' = [phaseMap EXCEPT ![c] = "OPEN"]
  <2>1. \A d \in Checks \ {c} : phaseMap'[d] = phaseMap[d]
    BY PhaseStays DEF Inserts
  <2> QED
    BY <1>1, <2>1 DEF phaseMap
<1>4. ownerMap' = [ownerMap EXCEPT ![c] = u]
  BY DEF Inserts, SameOwner, ownerMap
<1>5. signedMap' = signedMap
  BY DEF Inserts, SameSignature, signedMap
<1>6. /\ correctivesMap' = correctivesMap /\ announcedMap' = announcedMap
      /\ voidedMap' = voidedMap /\ lastCompleted' = lastCompleted
  BY DEF Inserts, closingVars, correctivesMap, announcedMap, voidedMap, Invalidated
<1> QED
  BY <1>1, <1>2, <1>3, <1>4, <1>5, <1>6
  DEF Contract!Open, ownerMap, signedMap, correctivesMap, announcedMap, voidedMap

(* What a completion writes in the rows of its CHECK, and of no other.     *)
LEMMA CompletionWrites ==
    ASSUME TypeOK, NEW req \in requests, CompleteCheck(req)
    PROVE  LET c == req.check
           IN  /\ c \in Checks /\ visita[c].status = "IN_PROGRESS"
               /\ visita'[c].status = "COMPLETED" /\ visita'[c].unidad = visita[c].unidad
               /\ inspection'[c].signedSnapshot =
                     Material(c, req.actor, req.reviewed.revision, inspection[c].dayEnd)
               /\ \A d \in Checks \ {c} :
                     visita'[d] = visita[d] /\ inspection'[d] = inspection[d]
<1> DEFINE c == req.check
           shown == Material(c, req.actor, req.reviewed.revision, inspection[c].dayEnd)
           row == [visita[c] EXCEPT !.status = "COMPLETED", !.version = @ + 1]
           signed == [inspection[c] EXCEPT !.completion = req, !.signedSnapshot = shown]
<1>1. c \in Checks /\ visita[c].status = "IN_PROGRESS"
  BY DEF TypeOK, Request, CompleteCheck, Signable, Writer
<1>2. /\ visita \in [Checks -> VisitaRow] /\ visita[c] \in VisitaRow
      /\ inspection \in [Checks -> InspectionRow] /\ inspection[c] \in InspectionRow
  BY <1>1 DEF TypeOK
<1>3. visita' = [visita EXCEPT ![c] = row] /\ inspection' = [inspection EXCEPT ![c] = signed]
  BY DEF CompleteCheck
<1>4. row.status = "COMPLETED" /\ row.unidad = visita[c].unidad
  BY <1>2 DEF VisitaRow
<1>5. signed.signedSnapshot = shown
  BY <1>2 DEF InspectionRow
<1> HIDE DEF row, signed, shown, c, VisitaRow, InspectionRow
<1>6. visita'[c] = row /\ inspection'[c] = signed
      /\ \A d \in Checks \ {c} : visita'[d] = visita[d] /\ inspection'[d] = inspection[d]
  BY <1>1, <1>2, <1>3
<1> QED
  BY <1>1, <1>4, <1>5, <1>6 DEF c, shown

(* The one step of the contract that does four things.                     *)
LEMMA ContractSign ==
    ASSUME TypeOK, TypeOK', CompletionEffectsOnce, CompletionEffectsOnce',
           NEW req \in requests, CompleteCheck(req)
    PROVE  Contract!Sign(req.check)
<1> DEFINE c == req.check
<1>1. c \in Checks /\ visita[c].status = "IN_PROGRESS"
  BY CompletionWrites
<1>2. visita'[c].status = "COMPLETED" /\ visita'[c].unidad = visita[c].unidad
  BY CompletionWrites
<1>3. \A d \in Checks \ {c} : visita'[d] = visita[d] /\ inspection'[d] = inspection[d]
  BY CompletionWrites
<1>4. phaseMap[c] = "OPEN" /\ phaseMap'[c] = "SIGNED"
  <2>1. phaseMap[c] = "OPEN"
    BY <1>1, PhaseIs DEF IsActive, Active
  <2>2. phaseMap'[c] = "SIGNED"
    BY <1>1, <1>2 DEF phaseMap
  <2> QED
    BY <2>1, <2>2
<1>5. phaseMap' = [phaseMap EXCEPT ![c] = "SIGNED"]
  <2>1. \A d \in Checks \ {c} : phaseMap'[d] = phaseMap[d]
    BY <1>3, PhaseStays DEF SamePhase
  <2> QED
    BY <1>1, <1>4, <2>1 DEF phaseMap
<1>6. signedMap'[c] \in Snapshot
  <2>1. inspection'[c].signedSnapshot =
          Material(c, req.actor, req.reviewed.revision, inspection[c].dayEnd)
    BY CompletionWrites
  <2>2. /\ req.actor \in Mecanicos /\ req.reviewed.revision \in Nat
        /\ inspection[c].dayEnd \in Nat
    BY <1>1 DEF TypeOK, Request, Snapshot, InspectionRow
  <2>3. Material(c, req.actor, req.reviewed.revision, inspection[c].dayEnd) \in Snapshot
    BY <1>1, <2>2, MaterialType
  <2> QED
    BY <1>1, <2>1, <2>3 DEF signedMap
<1>7. signedMap' = [signedMap EXCEPT ![c] = signedMap'[c]]
  BY <1>1, <1>3 DEF signedMap
<1>8. correctivesMap' = [correctivesMap EXCEPT ![c] = SignedWork(signedMap'[c])]
  <2>1. \A d \in Checks \ {c} : corrective'[d] = corrective[d]
    BY <1>1, ZenonT(60) DEF CompleteCheck, TypeOK
  <2>2. \A k \in Keys : corrective'[c][k] =
          IF inspection'[c].signedSnapshot.findings[k].classification = "REQUIRES_WORK"
          THEN 1 ELSE 0
    BY <1>1, <1>2 DEF CompletionEffectsOnce
  <2>3. correctivesMap'[c] = SignedWork(signedMap'[c])
    BY <1>1, <2>2 DEF correctivesMap, SignedWork, signedMap
  <2> QED
    BY <1>1, <2>1, <2>3 DEF correctivesMap
<1>9. announcedMap' = announcedMap \cup {c}
  <2>1. outbox'[c] = 1 /\ \A d \in Checks \ {c} : outbox'[d] = outbox[d]
    BY <1>1, <1>2, ZenonT(60) DEF CompleteCheck, TypeOK, CompletionEffectsOnce
  <2> QED
    BY <1>1, <2>1 DEF announcedMap
<1>10. lastCompleted' = [lastCompleted EXCEPT ![ownerMap[c]] = c]
  BY <1>1 DEF CompleteCheck, ownerMap
<1>11. ownerMap' = ownerMap
  BY <1>2, <1>3 DEF ownerMap
<1>12. voidedMap' = voidedMap
  BY DEF CompleteCheck, voidedMap, Invalidated
<1>13. today <= SignedUntil(signedMap'[c]) /\ today' = today
  <2>1. signedMap'[c] =
          Material(c, req.actor, req.reviewed.revision, inspection[c].dayEnd)
    BY <1>1, CompletionWrites DEF signedMap
  <2>2. SignedUntil(signedMap'[c]) = inspection[c].dayEnd
    BY <2>1 DEF SignedUntil, Material
  <2>3. today <= inspection[c].dayEnd /\ today' = today
    BY DEF CompleteCheck, Signable, envVars
  <2> QED
    BY <2>2, <2>3
<1> QED
  BY <1>4, <1>5, <1>6, <1>7, <1>8, <1>9, <1>10, <1>11, <1>12, <1>13
  DEF Contract!Sign, ownerMap, signedMap, correctivesMap, announcedMap, voidedMap

LEMMA ContractVoid ==
    ASSUME TypeOK, NEW c \in Checks, NEW s \in Fuentes, RecordInvalidation(c, s),
           visita[c].status = "COMPLETED"
    PROVE  Contract!Void(c)
<1>1. phaseMap[c] = "SIGNED"
  BY PhaseIs
<1>2. voidedMap' = voidedMap \cup {c}
  <2>1. invalidation'[s] = c /\ invalidation[s] = NULL
    BY DEF RecordInvalidation, TypeOK
  <2>2. \A t \in Fuentes \ {s} : invalidation'[t] = invalidation[t]
    BY DEF RecordInvalidation, TypeOK
  <2>3. NULL \notin Checks
    BY CheckOrdersAssumption
  <2> QED
    BY <2>1, <2>2, <2>3 DEF voidedMap, Invalidated
<1>3. UNCHANGED <<phaseMap, ownerMap, signedMap, correctivesMap, announcedMap,
                  lastCompleted, today>>
  BY DEF RecordInvalidation, closingVars, envVars, phaseMap, ownerMap, signedMap,
         correctivesMap, announcedMap
<1> QED
  BY <1>1, <1>2, <1>3
  DEF Contract!Void, ownerMap, signedMap, correctivesMap, announcedMap, voidedMap

LEMMA LatestIsSignedStep ==
    ASSUME TypeOK, TypeOK', LatestIsSigned, [Next]_vars
    PROVE  LatestIsSigned'
<1>1. \A u \in Unidades : lastCompleted[u] # NULL => lastCompleted[u] \in Checks
  BY DEF TypeOK
<1>2. CASE Unseen
  BY <1>1, <1>2 DEF Unseen, SamePhase, LatestIsSigned
<1>3. ASSUME NEW c \in Checks, NEW u \in Unidades, Inserts(c, u)
      PROVE  LatestIsSigned'
  BY <1>1, <1>3 DEF Inserts, SamePhase, closingVars, LatestIsSigned
<1>4. ASSUME NEW req \in requests, CompleteCheck(req) PROVE LatestIsSigned'
  <2>1. req.check \in Checks
    BY DEF TypeOK, Request
  <2>2. \A d \in Checks : visita'[d].status = "COMPLETED"
                            <=> visita[d].status = "COMPLETED" \/ d = req.check
    BY <1>4, <2>1, CompletionWrites
  <2>3. \A u \in Unidades : lastCompleted'[u] \in {lastCompleted[u], req.check}
    BY <1>4 DEF CompleteCheck, TypeOK
  <2> QED
    BY <1>1, <2>1, <2>2, <2>3 DEF LatestIsSigned
<1>5. ASSUME UNCHANGED <<visita, lastCompleted>> PROVE LatestIsSigned'
  BY <1>5 DEF LatestIsSigned
<1> QED
  BY <1>2, <1>3, <1>4, <1>5, StepKinds
  DEF ReplayCompletion, RecordInvalidation, closingVars

(* Every step of the orders is one the contract allows, or none of them.   *)
LEMMA ContractStep ==
    ASSUME TypeOK, TypeOK', CompletionEffectsOnce, CompletionEffectsOnce',
           LatestIsSigned, [Next]_vars
    PROVE  [Contract!CNext]_contractVars
<1>1. CASE Unseen
  BY <1>1, ContractUnseen, DayStep DEF Contract!CNext
<1>2. ASSUME NEW c \in Checks, NEW u \in Unidades, Inserts(c, u), ~Unseen
      PROVE  Contract!CNext
  BY <1>2, ContractOpen, DayStep DEF Contract!CNext
<1>3. ASSUME NEW req \in requests, CompleteCheck(req) PROVE Contract!CNext
  <2>1. req.check \in Checks
    BY DEF TypeOK, Request
  <2> QED
    BY <1>3, <2>1, ContractSign DEF Contract!CNext
<1>4. ASSUME NEW req \in requests, ReplayCompletion(req)
      PROVE  UNCHANGED contractVars
  <2>1. Unseen
    BY <1>4 DEF ReplayCompletion, Unseen, SamePhase, SameOwner, SameSignature
  <2> QED
    BY <1>4, <2>1, ContractUnseen DEF ReplayCompletion, envVars
<1>5. ASSUME NEW c \in Checks, NEW s \in Fuentes, RecordInvalidation(c, s),
             \/ visita[c].status = "COMPLETED"
             \/ \E u \in Unidades : lastCompleted[u] = c
      PROVE  Contract!CNext
  <2>1. visita[c].status = "COMPLETED"
    BY <1>5, CheckOrdersAssumption DEF LatestIsSigned
  <2> QED
    BY <1>5, <2>1, ContractVoid DEF Contract!CNext
<1> QED
  BY <1>1, <1>2, <1>3, <1>4, <1>5, StepKinds

(* Retries, late uploads, races and invalidations included: what the rest  *)
(* of the system sees of the CHECKs is what their contract promises.       *)
THEOREM KeepsContract == Spec => ImplementsContract
<1>1. Init => LatestIsSigned
  BY DEF Init, LatestIsSigned
<1>2. TypeOK /\ TypeOK' /\ LatestIsSigned /\ [Next]_vars => LatestIsSigned'
  BY LatestIsSignedStep
<1>3. TypeOK /\ TypeOK' /\ CompletionEffectsOnce /\ CompletionEffectsOnce'
        /\ LatestIsSigned /\ [Next]_vars
        => [Contract!CNext]_contractVars
  BY ContractStep
<1>4. Contract!CSpec <=> Contract!CInit /\ [][Contract!CNext]_contractVars
  BY DEF Contract!CSpec, Contract!cvars, contractVars, ownerMap, signedMap,
         correctivesMap, announcedMap, voidedMap
<1> QED
  BY <1>1, <1>2, <1>3, <1>4, ContractInit, TypeCorrect, EffectsOnce, PTL
  DEF Spec, ImplementsContract
=============================================================================
