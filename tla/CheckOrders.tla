---------------------------- MODULE CheckOrders ----------------------------
(***************************************************************************)
(* The life of the CHECK orders (vehicle inspections) of a facility, as    *)
(* CanonicalOrdersService runs it: creation by Logistics and by the daily  *)
(* generator, assignment, capture of condition, findings and photos,       *)
(* review, signed completion with its corrective orders, invalidation.     *)
(*                                                                         *)
(* A variable is a table.  Every command runs in one transaction holding   *)
(* the row lock of its CHECK (or the advisory lock of its unit), so it is  *)
(* one action; the two commands that work on the object storage before     *)
(* their transaction are split where they release the database.           *)
(***************************************************************************)
EXTENDS CheckFindings

CONSTANTS
    Unidades,       \* vehicles
    Checks,         \* identifiers of CHECK orders
    Mecanicos,      \* subjects that hold the role MECANICO
    Sujetos,        \* what `assignedActorId` may name; not only mechanics
    Fotos,          \* identifiers of evidence reservations, per CHECK
    Tags,           \* required evidence tags
    Fuentes,        \* sourceEventIds of invalidations
    Llaves,         \* idempotency keys of completion requests
    Lecturas,       \* condition payloads: [fluids, tires]
    Politicas,      \* successive PSI policies of a unit, a sequence
    EstadosUnidad,  \* states of a unit the rest of the system brings about
    MinFotos, MaxFotos,
    NULL,
    MaxDia, MaxVersion, MaxSolicitudes   \* bounds of the instance

Keys == UNION {SourceKeys(r) : r \in Lecturas}

ASSUME CheckOrdersAssumption ==
    /\ Mecanicos \subseteq Sujetos
    /\ EstadosUnidad \subseteq {"EN_PATIO", "FUERA", "INACTIVA"}
    /\ "EN_PATIO" \in EstadosUnidad
    /\ \A r \in Lecturas : SourceKeys(r) = Keys
    /\ Politicas # << >>
    /\ {MinFotos, MaxFotos, MaxDia, MaxVersion, MaxSolicitudes} \subseteq Nat
    /\ NULL \notin Unidades \cup Checks \cup Sujetos \cup Classifications

VARIABLES
    visita,         \* visitas rows of type CHECK
    inspection,     \* check_inspections
    condition,      \* check_conditions
    finding,        \* check_findings, by source key
    evidence,       \* check_evidence, by reservation
    uploads,        \* registerEvidence calls past their upload
    requests,       \* complete calls past their signature upload
    acked,          \* complete calls that were answered with success
    corrective,     \* CORRECTIVE visitas created from a CHECK's finding
    outbox,         \* CHECK_COMPLETED rows of the outbox
    lastCompleted,  \* per unit, the COMPLETED CHECK of latest completed_at
    generation,     \* readiness_generations: days generated, per unit
    invalidation,   \* check_invalidations, by source event
    psiPolicy,      \* index in Politicas of a unit's latest PSI policy
    unitState,      \* administrative and physical state of a unit
    today           \* operational day of the facility

captureVars == <<condition, finding, evidence>>
closingVars == <<acked, corrective, outbox, lastCompleted>>
envVars == <<psiPolicy, unitState, today>>
vars == <<visita, inspection, captureVars, uploads, requests, closingVars,
          generation, invalidation, envVars>>

-----------------------------------------------------------------------------
Active == {"PENDING", "ASSIGNED", "IN_PROGRESS"}

IsActive(c) == visita[c].status \in Active

NoFinding == [severity |-> "NONE", revision |-> 0, classification |-> NULL,
              classificationRevision |-> 0, evidenceRefs |-> {}]

NoCondition == [revision |-> 0, reading |-> NULL, result |-> NULL]

Policy(c) == Politicas[psiPolicy[visita[c].unidad]]

Ready(c) == {f \in Fotos : evidence[c][f].status = "READY"}

Reserved(c) == {f \in Fotos : evidence[c][f].status \in {"TEMPORARY", "READY"}}

Invalidated(c) == \E s \in Fuentes : invalidation[s] = c

(* What SignedCheckReadPort calls a valid last CHECK.  `dayEnd` is the day *)
(* at whose end the signature expires.                                     *)
Valid(c) == today <= inspection[c].dayEnd /\ ~Invalidated(c)

HasValid(u) == IF lastCompleted[u] = NULL THEN FALSE ELSE Valid(lastCompleted[u])

-----------------------------------------------------------------------------
Init ==
    /\ visita = [c \in Checks |-> [unidad |-> NULL, status |-> "FREE",
                                   assignedUserId |-> NULL, version |-> 0]]
    /\ inspection = [c \in Checks |->
         [source |-> NULL, operationalDate |-> 0, dayEnd |-> 0,
          reviewedVersion |-> 0, reviewSnapshot |-> NULL,
          signedSnapshot |-> NULL, completion |-> NULL]]
    /\ condition = [c \in Checks |-> NoCondition]
    /\ finding = [c \in Checks |-> [k \in Keys |-> NoFinding]]
    /\ evidence = [c \in Checks |-> [f \in Fotos |->
                                       [status |-> "FREE", tags |-> {}]]]
    /\ uploads = {} /\ requests = {} /\ acked = {}
    /\ corrective = [c \in Checks |-> [k \in Keys |-> 0]]
    /\ outbox = [c \in Checks |-> 0]
    /\ lastCompleted = [u \in Unidades |-> NULL]
    /\ generation = [u \in Unidades |-> {}]
    /\ invalidation = [s \in Fuentes |-> NULL]
    /\ psiPolicy = [u \in Unidades |-> 1]
    /\ unitState = [u \in Unidades |-> "EN_PATIO"]
    /\ today = 1

(* The rows a new CHECK starts with. *)
InsertCheck(c, u, src) ==
    /\ visita[c].status = "FREE"
    /\ visita' = [visita EXCEPT ![c] = [unidad |-> u, status |-> "PENDING",
                                        assignedUserId |-> NULL, version |-> 1]]
    /\ inspection' = [inspection EXCEPT ![c].source = src,
                                        ![c].operationalDate = today,
                                        ![c].dayEnd = today]

FindActive(u) == {c \in Checks : IsActive(c) /\ visita[c].unidad = u}

(* Mutant: manual creation does not look for an active CHECK. *)
CreateCheckUnguarded(c, u) ==
    /\ unitState[u] # "INACTIVA"
    /\ InsertCheck(c, u, "LOGISTICS_MANUAL")
    /\ UNCHANGED <<captureVars, uploads, requests, closingVars, generation,
                   invalidation, envVars>>

CreateCheck(c, u) ==
    /\ unitState[u] # "INACTIVA"
    /\ FindActive(u) = {}
    /\ InsertCheck(c, u, "LOGISTICS_MANUAL")
    /\ UNCHANGED <<captureVars, uploads, requests, closingVars, generation,
                   invalidation, envVars>>

(* The transaction of one unit in the scheduler's tick, which CheckScheduler *)
(* models; its outcomes SKIPPED_* and ALREADY_GENERATED change nothing.      *)
GenerateDaily(c, u) ==
    /\ unitState[u] = "EN_PATIO"
    /\ FindActive(u) = {}
    /\ ~HasValid(u)
    /\ today \notin generation[u]
    /\ InsertCheck(c, u, "DAILY_AUTOMATIC")
    /\ generation' = [generation EXCEPT ![u] = @ \cup {today}]
    /\ UNCHANGED <<captureVars, uploads, requests, closingVars,
                   invalidation, envVars>>

-----------------------------------------------------------------------------
(* Assignment and start.  `expectedVersion` is optional in every DTO: a    *)
(* caller that omits it, or sends the current one, is served.              *)
Lifecycle(c, status, subject) ==
    /\ visita[c].version < MaxVersion
    /\ visita' = [visita EXCEPT ![c] =
         [unidad |-> @.unidad, status |-> status, assignedUserId |-> subject,
          version |-> @.version + 1]]
    /\ UNCHANGED <<inspection, captureVars, uploads, requests, closingVars,
                   generation, invalidation, envVars>>

Assign(c, s) ==
    /\ visita[c].status = "PENDING"
    /\ Lifecycle(c, "ASSIGNED", s)

Claim(c, m) ==
    /\ visita[c].status = "PENDING"
    /\ visita[c].assignedUserId = NULL
    /\ Lifecycle(c, "ASSIGNED", m)

Start(c, m) ==
    /\ visita[c].status = "ASSIGNED"
    /\ visita[c].assignedUserId = m
    /\ Lifecycle(c, "IN_PROGRESS", m)

-----------------------------------------------------------------------------
(* evidenceWriter and the guards of condition: the assigned mechanic of a  *)
(* CHECK in progress.                                                      *)
Writer(c, m) ==
    /\ visita[c].status = "IN_PROGRESS"
    /\ visita[c].assignedUserId = m

(* Every write of content is a new version of the CHECK. *)
Touch(c) ==
    /\ visita[c].version < MaxVersion
    /\ visita' = [visita EXCEPT ![c].version = @ + 1]
    /\ UNCHANGED <<requests, closingVars, generation, invalidation, envVars>>

Condition(c, m, reading) ==
    LET rev == condition[c].revision + 1 IN
    /\ Writer(c, m)
    /\ condition' = [condition EXCEPT ![c] =
         [revision |-> rev, reading |-> reading,
          result |-> DerivedResult(reading, Policy(c))]]
    /\ finding' = [finding EXCEPT ![c] = [k \in Keys |->
         [NoFinding EXCEPT !.severity = Severity(reading, Policy(c), k),
                           !.revision = rev]]]
    /\ Touch(c)
    /\ UNCHANGED <<inspection, evidence, uploads>>

ClassifyFinding(c, m, k, class) ==
    /\ Writer(c, m)
    /\ finding[c][k].severity # "NONE"
    /\ finding[c][k].revision = condition[c].revision
    /\ finding' = [finding EXCEPT ![c][k] =
         [@ EXCEPT !.classification = class,
                   !.classificationRevision = condition[c].revision,
                   !.evidenceRefs = IF class = "REQUIRES_WORK"
                                    THEN Ready(c) ELSE {}]]
    /\ Touch(c)
    /\ UNCHANGED <<inspection, condition, evidence, uploads>>

ReserveEvidence(c, m, f) ==
    /\ Writer(c, m)
    /\ Cardinality(Reserved(c)) < MaxFotos
    /\ evidence[c][f].status = "FREE"
    /\ evidence' = [evidence EXCEPT ![c][f] = [status |-> "TEMPORARY", tags |-> {}]]
    /\ Touch(c)
    /\ UNCHANGED <<inspection, condition, finding, uploads>>

(* registerEvidence up to the end of its upload: nothing is locked yet.    *)
UploadEvidence(c, m, f, tags) ==
    /\ Writer(c, m)
    /\ evidence[c][f].status = "TEMPORARY"
    /\ uploads' = uploads \cup {[check |-> c, actor |-> m, foto |-> f,
                                 tags |-> tags]}
    /\ UNCHANGED <<visita, inspection, captureVars, requests, closingVars,
                   generation, invalidation, envVars>>

(* The transaction of registerEvidence, which checks everything again.     *)
Registrable(up) ==
    /\ Writer(up.check, up.actor)
    /\ evidence[up.check][up.foto].status = "TEMPORARY"

RegisterEvidence(up) ==
    /\ Registrable(up)
    /\ evidence' = [evidence EXCEPT ![up.check][up.foto] =
                                      [status |-> "READY", tags |-> up.tags]]
    /\ uploads' = uploads \ {up}
    /\ Touch(up.check)
    /\ UNCHANGED <<inspection, condition, finding>>

RegisterRefused(up) ==
    /\ ~Registrable(up)
    /\ uploads' = uploads \ {up}
    /\ UNCHANGED <<visita, inspection, captureVars, requests, closingVars,
                   generation, invalidation, envVars>>

(* Mutant: the assigned mechanic may delete photos at any time. *)
DeleteEvidenceAnyStatus(c, m, f) ==
    /\ visita[c].assignedUserId = m
    /\ f \in Reserved(c)
    /\ evidence' = [evidence EXCEPT ![c][f] = [status |-> "DELETED", tags |-> {}]]
    /\ Touch(c)
    /\ UNCHANGED <<inspection, condition, finding, uploads>>

DeleteEvidence(c, m, f) ==
    /\ Writer(c, m)
    /\ f \in Reserved(c)
    /\ evidence' = [evidence EXCEPT ![c][f] = [status |-> "DELETED", tags |-> {}]]
    /\ Touch(c)
    /\ UNCHANGED <<inspection, condition, finding, uploads>>

-----------------------------------------------------------------------------
(* reviewMaterial: its three refusals, and the snapshot it hashes.  The    *)
(* hash is collision free, so the snapshot stands for it.                  *)
Reviewable(c) ==
    /\ condition[c].revision > 0
    /\ EvidenceReadiness(Ready(c), [f \in Fotos |-> evidence[c][f].tags],
                         Tags, MinFotos, MaxFotos)
    /\ \A k \in Keys : finding[c][k].severity # "NONE" =>
         /\ finding[c][k].classification # NULL
         /\ finding[c][k].classificationRevision = condition[c].revision

Material(c, m, revision, dayEnd) ==
    [revision |-> revision, dayEnd |-> dayEnd, signer |-> m,
     condition |-> condition[c], policy |-> psiPolicy[visita[c].unidad],
     evidence |-> {<<f, evidence[c][f].tags>> : f \in Ready(c)},
     findings |-> finding[c]]

(* The review fixes how long the signature will be good: to the end of the *)
(* day of the review (checkDueAt under the daily-only policy).             *)
Review(c, m) ==
    LET reviewed == visita[c].version + 1 IN
    /\ Writer(c, m)
    /\ Reviewable(c)
    /\ inspection' = [inspection EXCEPT
         ![c].dayEnd = today,
         ![c].reviewedVersion = reviewed,
         ![c].reviewSnapshot = Material(c, m, reviewed, today)]
    /\ Touch(c)
    /\ UNCHANGED <<captureVars, uploads>>

(* complete before its transaction: the client sends the review it was     *)
(* shown, the signature is stored.  A request may be processed late, and   *)
(* more than once: it stays in `requests`.                                 *)
RequestCompletion(c, m, key) ==
    /\ visita[c].status # "FREE"
    /\ inspection[c].reviewSnapshot # NULL
    /\ inspection[c].completion = NULL
    /\ Cardinality(requests) < MaxSolicitudes
    /\ requests' = requests \cup
         {[check |-> c, actor |-> m, key |-> key,
           reviewed |-> inspection[c].reviewSnapshot]}
    /\ UNCHANGED <<visita, inspection, captureVars, uploads, closingVars,
                   generation, invalidation, envVars>>

(* Mutant: the version of the order is not compared.                       *)
SignableAnyVersion(c, req) ==
    /\ inspection[c].completion = NULL
    /\ Writer(c, req.actor)
    /\ inspection[c].reviewSnapshot = req.reviewed
    /\ Reviewable(c)
    /\ today <= inspection[c].dayEnd
    /\ Material(c, req.actor, req.reviewed.revision, inspection[c].dayEnd)
         = req.reviewed
    /\ \A d \in Checks : inspection[d].completion # NULL =>
         inspection[d].completion.key # req.key

(* Mutant: a review of another day can still be signed.                    *)
SignableExpired(c, req) ==
    /\ inspection[c].completion = NULL
    /\ Writer(c, req.actor)
    /\ visita[c].version = req.reviewed.revision
    /\ inspection[c].reviewedVersion = req.reviewed.revision
    /\ inspection[c].reviewSnapshot = req.reviewed
    /\ Reviewable(c)
    /\ Material(c, req.actor, req.reviewed.revision, inspection[c].dayEnd)
         = req.reviewed
    /\ \A d \in Checks : inspection[d].completion # NULL =>
         inspection[d].completion.key # req.key

(* Every refusal of the completion transaction. *)
Signable(c, req) ==
    /\ inspection[c].completion = NULL
    /\ Writer(c, req.actor)
    /\ visita[c].version = req.reviewed.revision
    /\ inspection[c].reviewedVersion = req.reviewed.revision
    /\ inspection[c].reviewSnapshot = req.reviewed
    /\ Reviewable(c)
    /\ today <= inspection[c].dayEnd
    /\ Material(c, req.actor, req.reviewed.revision, inspection[c].dayEnd)
         = req.reviewed
    /\ \A d \in Checks : inspection[d].completion # NULL =>
         inspection[d].completion.key # req.key  \* check_completion_key_uidx

(* Mutant: whatever was classified becomes a corrective order. *)
RequiresWorkClassified(c) == {k \in Keys : finding[c][k].classification # NULL}

RequiresWork(c) == {k \in Keys : finding[c][k].classification = "REQUIRES_WORK"}

CompleteCheck(req) ==
    LET c == req.check IN
    /\ Signable(c, req)
    /\ visita' = [visita EXCEPT ![c].status = "COMPLETED", ![c].version = @ + 1]
    /\ inspection' = [inspection EXCEPT ![c].completion = req,
                                        ![c].signedSnapshot =
         Material(c, req.actor, req.reviewed.revision, inspection[c].dayEnd)]
    /\ corrective' = [corrective EXCEPT ![c] =
         [k \in Keys |-> IF k \in RequiresWork(c) THEN @[k] + 1 ELSE @[k]]]
    /\ outbox' = [outbox EXCEPT ![c] = @ + 1]
    /\ lastCompleted' = [lastCompleted EXCEPT ![visita[c].unidad] = c]
    /\ acked' = acked \cup {req}
    /\ UNCHANGED <<captureVars, uploads, requests, generation, invalidation,
                   envVars>>

(* Mutant: a replay compares the key and not the content of the request. *)
ReplayCompletionByKey(req) ==
    /\ inspection[req.check].completion # NULL
    /\ inspection[req.check].completion.key = req.key
    /\ acked' = acked \cup {req}
    /\ UNCHANGED <<visita, inspection, captureVars, uploads, requests,
                   corrective, outbox, lastCompleted, generation,
                   invalidation, envVars>>

(* A retry of the request that completed the CHECK is answered with that   *)
(* completion; any other is refused with CHECK_ALREADY_COMPLETED.          *)
ReplayCompletion(req) ==
    /\ inspection[req.check].completion = req
    /\ acked' = acked \cup {req}
    /\ UNCHANGED <<visita, inspection, captureVars, uploads, requests,
                   corrective, outbox, lastCompleted, generation,
                   invalidation, envVars>>

-----------------------------------------------------------------------------
RecordInvalidation(c, s) ==
    /\ invalidation[s] = NULL
    /\ invalidation' = [invalidation EXCEPT ![s] = c]
    /\ UNCHANGED <<visita, inspection, captureVars, uploads, requests,
                   closingVars, generation, envVars>>

Invalidate(c, s) ==
    /\ visita[c].status = "COMPLETED"
    /\ RecordInvalidation(c, s)

(* The tail of VisitasService.close for an order that requires             *)
(* reinspection: it voids the last signed CHECK if that has not expired.   *)
CloseRequiringReinspection(u, s) ==
    /\ lastCompleted[u] # NULL
    /\ today <= inspection[lastCompleted[u]].dayEnd
    /\ RecordInvalidation(lastCompleted[u], s)

-----------------------------------------------------------------------------
(* What the rest of the system does to what the CHECKs read. *)
NextDay ==
    /\ today < MaxDia
    /\ today' = today + 1
    /\ UNCHANGED <<visita, inspection, captureVars, uploads, requests,
                   closingVars, generation, invalidation, psiPolicy, unitState>>

MoveUnit(u, st) ==
    /\ unitState[u] # st
    /\ unitState' = [unitState EXCEPT ![u] = st]
    /\ UNCHANGED <<visita, inspection, captureVars, uploads, requests,
                   closingVars, generation, invalidation, psiPolicy, today>>

NewPsiPolicy(u) ==
    /\ psiPolicy[u] + 1 \in DOMAIN Politicas
    /\ psiPolicy' = [psiPolicy EXCEPT ![u] = @ + 1]
    /\ UNCHANGED <<visita, inspection, captureVars, uploads, requests,
                   closingVars, generation, invalidation, unitState, today>>

Environment ==
    \/ NextDay
    \/ \E u \in Unidades, st \in EstadosUnidad : MoveUnit(u, st)
    \/ \E u \in Unidades : NewPsiPolicy(u)

Capture(c, m) ==
    \/ \E r \in Lecturas : Condition(c, m, r)
    \/ \E k \in Keys, class \in Classifications : ClassifyFinding(c, m, k, class)
    \/ \E f \in Fotos : ReserveEvidence(c, m, f)
    \/ \E f \in Fotos, t \in SUBSET Tags \ {{}} : UploadEvidence(c, m, f, t)
    \/ \E f \in Fotos : DeleteEvidence(c, m, f)

Next ==
    \/ \E c \in Checks, u \in Unidades : CreateCheck(c, u)
    \/ \E c \in Checks, u \in Unidades : GenerateDaily(c, u)
    \/ \E c \in Checks, s \in Sujetos : Assign(c, s)
    \/ \E c \in Checks, m \in Mecanicos : Claim(c, m)
    \/ \E c \in Checks, m \in Mecanicos : Start(c, m)
    \/ \E c \in Checks, m \in Mecanicos : Capture(c, m)
    \/ \E up \in uploads : RegisterEvidence(up)
    \/ \E up \in uploads : RegisterRefused(up)
    \/ \E c \in Checks, m \in Mecanicos : Review(c, m)
    \/ \E c \in Checks, m \in Mecanicos, key \in Llaves :
         RequestCompletion(c, m, key)
    \/ \E req \in requests : CompleteCheck(req)
    \/ \E req \in requests : ReplayCompletion(req)
    \/ \E c \in Checks, s \in Fuentes : Invalidate(c, s)
    \/ \E u \in Unidades, s \in Fuentes : CloseRequiringReinspection(u, s)
    \/ Environment

Spec == Init /\ [][Next]_vars

-----------------------------------------------------------------------------
Finding == [severity : Severities, revision : Nat,
            classification : Classifications \cup {NULL},
            classificationRevision : Nat, evidenceRefs : SUBSET Fotos]

ConditionRow == [revision : Nat, reading : Lecturas \cup {NULL},
                 result : Results \cup {NULL}]

Snapshot == [revision : Nat, dayEnd : Nat, signer : Mecanicos,
             condition : ConditionRow, policy : Nat,
             evidence : SUBSET (Fotos \X SUBSET Tags),
             findings : [Keys -> Finding]]

Request == [check : Checks, actor : Mecanicos, key : Llaves, reviewed : Snapshot]

(* The absence of a row is none of the rows. *)
ASSUME NullAssumption == NULL \notin Snapshot /\ NULL \notin Request

Upload == [check : Checks, actor : Mecanicos, foto : Fotos, tags : SUBSET Tags]

VisitaRow == [unidad : Unidades \cup {NULL},
              status : Active \cup {"FREE", "COMPLETED"},
              assignedUserId : Sujetos \cup {NULL}, version : Nat]

InspectionRow == [source : {"LOGISTICS_MANUAL", "DAILY_AUTOMATIC", NULL},
                  operationalDate : Nat, dayEnd : Nat, reviewedVersion : Nat,
                  reviewSnapshot : Snapshot \cup {NULL},
                  signedSnapshot : Snapshot \cup {NULL},
                  completion : Request \cup {NULL}]

(* The rows of every table have the columns and the values the entities    *)
(* declare, and a CHECK that exists belongs to a unit.                     *)
TypeOK ==
    /\ visita \in [Checks -> VisitaRow]
    /\ inspection \in [Checks -> InspectionRow]
    /\ condition \in [Checks -> ConditionRow]
    /\ finding \in [Checks -> [Keys -> Finding]]
    /\ evidence \in [Checks -> [Fotos ->
         [status : {"FREE", "TEMPORARY", "READY", "DELETED"}, tags : SUBSET Tags]]]
    /\ uploads \subseteq Upload
    /\ requests \subseteq Request
    /\ acked \subseteq requests
    /\ corrective \in [Checks -> [Keys -> Nat]]
    /\ outbox \in [Checks -> Nat]
    /\ lastCompleted \in [Unidades -> Checks \cup {NULL}]
    /\ generation \in [Unidades -> SUBSET Nat]
    /\ invalidation \in [Fuentes -> Checks \cup {NULL}]
    /\ psiPolicy \in [Unidades -> Nat]
    /\ unitState \in [Unidades -> EstadosUnidad]
    /\ today \in Nat
    /\ \A c \in Checks : visita[c].status # "FREE" => visita[c].unidad \in Unidades

(* Manual creation and the daily generator, racing, never leave a unit     *)
(* with two CHECKs in progress at once (ACTIVE_CHECK_ALREADY_EXISTS).      *)
OneActiveCheck ==
    \A c, d \in Checks :
        IsActive(c) /\ IsActive(d) /\ visita[c].unidad = visita[d].unidad => c = d

(* What a completed CHECK carries as signed is what its mechanic reviewed, *)
(* and is still what its tables hold; and the signature is the very next   *)
(* version after that review, so nothing was written in between, not even  *)
(* something written and then undone ("edits invalidate review token and   *)
(* signature candidate").                                                  *)
SignedAsReviewed ==
    \A c \in Checks : visita[c].status = "COMPLETED" =>
        LET signed == inspection[c].signedSnapshot IN
        /\ signed # NULL
        /\ signed = inspection[c].reviewSnapshot
        /\ signed.revision = inspection[c].reviewedVersion
        /\ visita[c].version = inspection[c].reviewedVersion + 1
        /\ signed.signer = visita[c].assignedUserId
        /\ signed.condition = condition[c]
        /\ signed.findings = finding[c]
        /\ signed.evidence = {<<f, evidence[c][f].tags>> : f \in Ready(c)}
        /\ Reviewable(c)

(* Completion takes effect exactly once whatever is retried: one           *)
(* CHECK_COMPLETED event, and one CORRECTIVE order for each finding signed *)
(* as REQUIRES_WORK and for no other; before the signature there is none.  *)
CompletionEffectsOnce ==
    \A c \in Checks :
        /\ outbox[c] = IF visita[c].status = "COMPLETED" THEN 1 ELSE 0
        /\ \A k \in Keys : corrective[c][k] =
             IF /\ visita[c].status = "COMPLETED"
                /\ inspection[c].signedSnapshot.findings[k].classification
                     = "REQUIRES_WORK"
             THEN 1 ELSE 0

(* Of several completion requests for a CHECK, from retries or from a      *)
(* second device, only one is ever answered with success, and no           *)
(* idempotency key is spent on two CHECKs.                                 *)
OneAnsweredCompletion ==
    \A r, q \in acked : (r.check = q.check \/ r.key = q.key) => r = q

(* COMPLETED is final: the order, its inspection, condition, findings,     *)
(* evidence and corrective orders never change again, whatever uploads or  *)
(* requests are still on their way.                                        *)
CompletedImmutable ==
    [][\A c \in Checks : visita[c].status = "COMPLETED" =>
         /\ visita'[c] = visita[c]
         /\ inspection'[c] = inspection[c]
         /\ condition'[c] = condition[c]
         /\ finding'[c] = finding[c]
         /\ evidence'[c] = evidence[c]
         /\ corrective'[c] = corrective[c]]_vars

=============================================================================
