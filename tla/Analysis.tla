------------------------------ MODULE Analysis ------------------------------
(***************************************************************************)
(* Services that a workshop outside did for one vehicle, as                *)
(* MaintenanceAnalysisService records them: registered, completed,         *)
(* corrected after a signed preview, given attachments, and distributed    *)
(* over the documents that bill them.  A cost line may claim pieces of an  *)
(* external cost operation of the inventory, so that they are not counted  *)
(* twice.                                                                  *)
(*                                                                         *)
(* Each command is one READ COMMITTED transaction under advisory locks     *)
(* taken one at a time: its key, the document, the services, the cost      *)
(* lines, the cost operations claimed.  It reads as it goes and writes,    *)
(* with its receipt, at the end.  A preview takes the locks of lines and   *)
(* operations only, and writes nothing but the token it signs.  The locks  *)
(* of work lines, sorted too and taken between those of cost lines and of  *)
(* operations, are left out with the work lines.                           *)
(***************************************************************************)
EXTENDS Naturals, FiniteSets, Functions

CONSTANTS
    Services,    \* identifiers of services
    Lines,       \* identifiers of cost lines
    Ops,         \* external cost operations of the vehicle
    Groups,      \* identifiers of documents
    Keys,        \* command identifiers of one subject
    Requests,    \* HTTP requests
    Quantity,    \* pieces of an operation
    Bodies,      \* what a form may hold: contents of some lines
    MaxBegun,    \* requests begun in a behaviour
    NULL

Claim == [op : Ops, from : Nat, to : Nat]

Content == [money : Nat \cup {NULL}, claims : SUBSET Claim]

ASSUME AnalysisAssumption ==
    /\ Services \subseteq Nat \ {0}
    /\ Lines \subseteq Nat /\ Ops \subseteq Nat
    /\ IsFiniteSet(Lines) /\ IsFiniteSet(Keys) /\ IsFiniteSet(Requests)
    /\ Quantity \in [Ops -> Nat]
    /\ \A b \in Bodies : DOMAIN b \subseteq Lines /\ b \in [DOMAIN b -> Content]
    /\ NULL \notin Groups \cup Keys \cup Nat

VARIABLES
    version,      \* maintenance_external_services.version, 0 for no service
    line,         \* maintenance_service_cost_lines with their claims
    document,     \* maintenance_document_groups
    allocation,   \* maintenance_document_allocations
    receipts,     \* maintenance_command_receipts
    previews,     \* tokens signed by previewCorrection
    req,          \* requests in progress
    begun         \* requests so far

tables == <<version, line, document, allocation, receipts>>
vars == <<tables, previews, req, begun>>

-----------------------------------------------------------------------------
NoContent == [money |-> NULL, claims |-> {}]
NoLine == [service |-> 0, version |-> 0, content |-> NoContent]
(* A document; whether the services of the lines it kept were locked when  *)
(* it was saved (history).                                                 *)
NoDocument == [version |-> 0, total |-> 0, guarded |-> TRUE]
NoAllocation == [group |-> NULL, version |-> 0]
NoBody == [l \in {} |-> NoContent]

NoToken == [service |-> 0, version |-> 0, before |-> NoBody, after |-> NoBody]

(* What a request says; a document names lines and their total.            *)
NoInput == [kind |-> "NONE", service |-> 0, group |-> NULL, version |-> 0,
            body |-> NoBody, token |-> NoToken, lines |-> {}, total |-> 0]

NoReceipt == [input |-> NoInput, service |-> 0, group |-> NULL]

NoRequest == [phase |-> "READY", holds |-> {}, pending |-> {}, key |-> NULL,
              input |-> NoInput, service |-> 0, group |-> NULL,
              body |-> NoBody, before |-> NoBody, read |-> [l \in {} |-> 0]]

LinesOf(s) == {l \in Lines : line[l].service = s}

(* row.data.costLines of a service.                                        *)
BodyOf(s) == [l \in LinesOf(s) |-> line[l].content]

Amount(l) == IF line[l].content.money = NULL THEN 0 ELSE line[l].content.money

Total(ls) == SumFunction([l \in ls |-> Amount(l)])

Recorded(ls) == \A l \in ls : line[l].service # 0 /\ line[l].content.money # NULL

Allocated(g) == {l \in Lines : allocation[l].group = g}

ClaimsOf(b) == UNION {b[l].claims : l \in DOMAIN b}

Overlap(c, d) == c.op = d.op /\ c.from < d.to /\ d.from < c.to

Init ==
    /\ version = [s \in Services |-> 0]
    /\ line = [l \in Lines |-> NoLine]
    /\ document = [g \in Groups |-> NoDocument]
    /\ allocation = [l \in Lines |-> NoAllocation]
    /\ receipts = [k \in Keys |-> NoReceipt]
    /\ previews = {}
    /\ req = [p \in Requests |-> NoRequest]
    /\ begun = 0

-----------------------------------------------------------------------------
(* Advisory locks of the transaction, released when it ends.               *)
CommandLock(k) == <<"command", k>>
DocumentLock(g) == <<"document", g>>
ServiceLocks(ss) == {<<"service", s>> : s \in ss}
LineLocks(b) == {<<"cost-line", l>> : l \in DOMAIN b}

(* Mutant: two claims of one operation are verified at the same time. *)
ClaimLocksNone(b) == {}

ClaimLocks(b) == {<<"claim", c.op>> : c \in ClaimsOf(b)}

(* Mutant: the references are locked in the order of the form. *)
WantedAny(p) == req[p].pending

(* The references of a stage are sorted before they are locked.            *)
Wanted(p) == {l \in req[p].pending : \A m \in req[p].pending \ {l} : l[2] < m[2]}

Acquire(p, l) ==
    /\ l \in Wanted(p)
    /\ \A q \in Requests : l \notin req[q].holds
    /\ req' = [req EXCEPT ![p].holds = @ \cup {l}, ![p].pending = @ \ {l}]
    /\ UNCHANGED <<tables, previews, begun>>

At(p, phase) == req[p].phase = phase /\ req[p].pending = {}

Is(p, kinds) == req[p].input.kind \in kinds

Goes(p, phase, locks) ==
    req' = [req EXCEPT ![p].phase = phase, ![p].pending = locks]

Ends(p) == req' = [req EXCEPT ![p] = NoRequest]

(* Refused by a check, cut off by a timeout or lost with the process: the  *)
(* transaction rolls back and its locks are released.                      *)
Abort(p) ==
    /\ req[p].phase # "READY"
    /\ Ends(p)
    /\ UNCHANGED <<tables, previews, begun>>

-----------------------------------------------------------------------------
(* What pages send: they name the version they show, and a document the    *)
(* sum of the lines they show.                                             *)
CreateForm(b) == [NoInput EXCEPT !.kind = "CREATE", !.body = b]

ServiceForm(kind, s, b) ==
    [NoInput EXCEPT !.kind = kind, !.service = s, !.version = version[s], !.body = b]

AttachForm(s) == [NoInput EXCEPT !.kind = "ATTACH", !.service = s]

CorrectForm(t, b) ==
    [ServiceForm("CORRECT", t.service, b) EXCEPT !.token = t]

DocumentForm(g, ls) ==
    [NoInput EXCEPT !.kind = "DOCUMENT", !.group = g, !.lines = ls, !.total = Total(ls),
                    !.version = IF g = NULL THEN 0 ELSE document[g].version]

Registered == {s \in Services : version[s] > 0}

Revisable == {g \in Groups : document[g].version > 0}

Begin(p, request) ==
    /\ begun' = begun + 1
    /\ req' = [req EXCEPT ![p] = request]
    /\ UNCHANGED <<tables, previews>>

(* A command arrives with its key.                                         *)
Command(p, k, x) ==
    Begin(p, [NoRequest EXCEPT !.phase = "RECEIPT", !.key = k, !.input = x,
                               !.pending = {CommandLock(k)}])

(* previewCorrection locks neither a key nor the service.                  *)
Preview(p, s, b) ==
    Begin(p, [NoRequest EXCEPT !.phase = "ROW", !.service = s,
                               !.input = ServiceForm("PREVIEW", s, b)])

(* The key was used: the same answer again, or IDEMPOTENCY_CONFLICT.       *)
Replay(p) ==
    /\ At(p, "RECEIPT")
    /\ receipts[req[p].key] # NoReceipt
    /\ Ends(p)
    /\ UNCHANGED <<tables, previews, begun>>

(* Mutant: a receipt is written but never looked for. *)
UnusedNever(p) == TRUE

Unused(p) == receipts[req[p].key] = NoReceipt

(* randomUUID gives every new service an identifier of its own.            *)
StartCreate(p, s) ==
    /\ At(p, "RECEIPT") /\ Unused(p) /\ Is(p, {"CREATE"})
    /\ version[s] = 0 /\ \A q \in Requests : req[q].service # s
    /\ req' = [req EXCEPT ![p].phase = "LINES", ![p].service = s,
                          ![p].body = req[p].input.body,
                          ![p].pending = LineLocks(req[p].input.body)]
    /\ UNCHANGED <<tables, previews, begun>>

StartService(p) ==
    /\ At(p, "RECEIPT") /\ Unused(p) /\ Is(p, {"COMPLETE", "CORRECT", "ATTACH"})
    /\ req' = [req EXCEPT ![p].phase = "ROW", ![p].service = req[p].input.service,
                          ![p].pending = ServiceLocks({req[p].input.service})]
    /\ UNCHANGED <<tables, previews, begun>>

StartDocument(p, g) ==
    /\ At(p, "RECEIPT") /\ Unused(p) /\ Is(p, {"DOCUMENT"})
    /\ IF req[p].input.group = NULL
       THEN document[g].version = 0 /\ \A q \in Requests : req[q].group # g
       ELSE g = req[p].input.group
    /\ req' = [req EXCEPT ![p].phase = "ROW", ![p].group = g,
                          ![p].pending = {DocumentLock(g)}]
    /\ UNCHANGED <<tables, previews, begun>>

-----------------------------------------------------------------------------
(* The service row is read and its version compared.                       *)
ReadsRow(p, s, b, checked) ==
    /\ At(p, "ROW")
    /\ checked => req[p].input.version = version[s]
    /\ req' = [req EXCEPT ![p].phase = "LINES", ![p].body = b, ![p].before = BodyOf(s),
                          ![p].pending = LineLocks(b)]
    /\ UNCHANGED <<tables, previews, begun>>

(* completeCost: the same lines and claims, and only pending amounts get a *)
(* value.                                                                  *)
Completes(old, new) ==
    /\ DOMAIN new = DOMAIN old
    /\ \A l \in DOMAIN old :
         /\ new[l].claims = old[l].claims
         /\ old[l].money # NULL => new[l].money = old[l].money
    /\ \E l \in DOMAIN old : old[l].money = NULL /\ new[l].money # NULL

CompleteRow(p) ==
    LET s == req[p].service
        b == req[p].input.body IN
    /\ Is(p, {"COMPLETE"})
    /\ Completes(BodyOf(s), b)
    /\ ReadsRow(p, s, b, TRUE)

(* The token was signed for this service, this version and this content.   *)
ShownNow(p) ==
    LET t == req[p].input.token IN
    /\ t.service = req[p].service
    /\ t.version = version[t.service]
    /\ t.after = req[p].input.body

CorrectRow(p) ==
    /\ Is(p, {"CORRECT"})
    /\ ShownNow(p)
    /\ ReadsRow(p, req[p].service, req[p].input.body, TRUE)

PreviewRow(p) ==
    /\ Is(p, {"PREVIEW"})
    /\ ReadsRow(p, req[p].service, req[p].input.body, TRUE)

(* attach saves the row as it is, with one attachment more: it names no    *)
(* version and verifies no line.                                           *)
AttachRow(p) ==
    LET s == req[p].service IN
    /\ At(p, "ROW") /\ Is(p, {"ATTACH"})
    /\ req' = [req EXCEPT ![p].phase = "SAVE", ![p].body = BodyOf(s),
                          ![p].before = BodyOf(s)]
    /\ UNCHANGED <<tables, previews, begun>>

(* A line belongs to one service for as long as it exists.                 *)
VerifyLines(p) ==
    LET b == req[p].body IN
    /\ At(p, "LINES")
    /\ \A l \in DOMAIN b : line[l].service \in {0, req[p].service}
    /\ req' = [req EXCEPT ![p].phase = "CLAIMS", ![p].pending = ClaimLocks(b)]
    /\ UNCHANGED <<tables, previews, begun>>

(* validateClaims over the claims of the form and those of other services. *)
ValidClaims(b, s) ==
    /\ \A c \in ClaimsOf(b) : c.from < c.to /\ c.to <= Quantity[c.op]
    /\ \A l, m \in DOMAIN b : \A c \in b[l].claims, d \in b[m].claims :
         l # m \/ c # d => ~Overlap(c, d)
    /\ \A l \in DOMAIN b, m \in Lines \ LinesOf(s) :
         \A c \in b[l].claims, d \in line[m].content.claims : ~Overlap(c, d)

VerifyClaims(p) ==
    /\ At(p, "CLAIMS") /\ ~Is(p, {"PREVIEW"})
    /\ ValidClaims(req[p].body, req[p].service)
    /\ Goes(p, "SAVE", {})
    /\ UNCHANGED <<tables, previews, begun>>

(* Mutant: the preview shows as before the lines it was sent. *)
SignPreviewAsSent(p) ==
    /\ At(p, "CLAIMS") /\ Is(p, {"PREVIEW"})
    /\ ValidClaims(req[p].body, req[p].service)
    /\ previews' = previews \cup
         {[service |-> req[p].service, version |-> req[p].input.version,
           before |-> req[p].body, after |-> req[p].body]}
    /\ Ends(p)
    /\ UNCHANGED <<tables, begun>>

(* The preview ends by signing what it compared.                           *)
SignPreview(p) ==
    /\ At(p, "CLAIMS") /\ Is(p, {"PREVIEW"})
    /\ ValidClaims(req[p].body, req[p].service)
    /\ previews' = previews \cup
         {[service |-> req[p].service, version |-> req[p].input.version,
           before |-> req[p].before, after |-> req[p].body]}
    /\ Ends(p)
    /\ UNCHANGED <<tables, begun>>

Receive(p) ==
    receipts' = [receipts EXCEPT ![req[p].key] =
        [input |-> req[p].input, service |-> req[p].service, group |-> req[p].group]]

(* RECONCILIATION_REQUIRED, or the foreign key of the allocation.          *)
KeepsAllocated(p) ==
    \A l \in LinesOf(req[p].service) :
        allocation[l] # NoAllocation => l \in DOMAIN req[p].body

(* The version of a line is that of the service that last changed it.      *)
LineVersion(l, s, b) ==
    IF line[l].service = s /\ line[l].content = b[l] THEN line[l].version ELSE version[s] + 1

(* persistService and the receipt, in one commit: the row with its next    *)
(* version, its lines and its claims.                                      *)
Save(p) ==
    LET s == req[p].service
        b == req[p].body IN
    /\ At(p, "SAVE") /\ ~Is(p, {"DOCUMENT"})
    /\ KeepsAllocated(p)
    /\ version' = [version EXCEPT ![s] = @ + 1]
    /\ line' = [l \in Lines |->
         IF l \in DOMAIN b
         THEN [service |-> s, version |-> LineVersion(l, s, b), content |-> b[l]]
         ELSE IF line[l].service = s THEN NoLine ELSE line[l]]
    /\ Receive(p)
    /\ Ends(p)
    /\ UNCHANGED <<document, allocation, previews, begun>>

-----------------------------------------------------------------------------
(* documentGroup.  The lines are read once to know their services, and     *)
(* again when every one of these is locked.                                *)
DocumentRow(p) ==
    LET x == req[p].input IN
    /\ At(p, "ROW") /\ Is(p, {"DOCUMENT"})
    /\ x.version = document[req[p].group].version
    /\ Recorded(x.lines)
    /\ Goes(p, "REVIEW", ServiceLocks({line[l].service : l \in x.lines}))
    /\ UNCHANGED <<tables, previews, begun>>

(* The allocations add up to the document.                                 *)
Reconciles(p, ls) == Total(ls) = req[p].input.total

(* Lines that were removed while the document waited are not missed, and   *)
(* one that was given to another service meanwhile is read without the     *)
(* lock of that service.                                                   *)
Review(p) ==
    LET ls == {l \in req[p].input.lines : line[l].service # 0} IN
    /\ At(p, "REVIEW")
    /\ Recorded(ls)
    /\ \A l \in ls : allocation[l].group \in {NULL, req[p].group}
    /\ Reconciles(p, ls)
    /\ req' = [req EXCEPT ![p].phase = "SAVE", ![p].read = [l \in ls |-> line[l].version]]
    /\ UNCHANGED <<tables, previews, begun>>

(* Every line read is of a service that this document has locked.          *)
Guarded(p) ==
    \A l \in DOMAIN req[p].read : <<"service", line[l].service>> \in req[p].holds

(* Mutant: the old allocations are deleted after the new ones are written. *)
SaveDocumentDeletesLast(p) ==
    LET g == req[p].group
        read == req[p].read IN
    /\ At(p, "SAVE") /\ Is(p, {"DOCUMENT"})
    /\ \A l \in DOMAIN read : line[l].service # 0 /\ allocation[l].group \in {NULL, g}
    /\ document' = [document EXCEPT ![g] =
         [version |-> @.version + 1, total |-> req[p].input.total,
          guarded |-> Guarded(p)]]
    /\ allocation' = [l \in Lines |->
         IF l \in DOMAIN read \/ allocation[l].group = g THEN NoAllocation ELSE allocation[l]]
    /\ Receive(p)
    /\ Ends(p)
    /\ UNCHANGED <<version, line, previews, begun>>

(* The allocations are replaced; their keys admit lines that exist and     *)
(* that no other document has.                                             *)
SaveDocument(p) ==
    LET g == req[p].group
        read == req[p].read IN
    /\ At(p, "SAVE") /\ Is(p, {"DOCUMENT"})
    /\ \A l \in DOMAIN read : line[l].service # 0 /\ allocation[l].group \in {NULL, g}
    /\ document' = [document EXCEPT ![g] =
         [version |-> @.version + 1, total |-> req[p].input.total,
          guarded |-> Guarded(p)]]
    /\ allocation' = [l \in Lines |->
         IF l \in DOMAIN read THEN [group |-> g, version |-> read[l]]
         ELSE IF allocation[l].group = g THEN NoAllocation ELSE allocation[l]]
    /\ Receive(p)
    /\ Ends(p)
    /\ UNCHANGED <<version, line, previews, begun>>

-----------------------------------------------------------------------------
Sends(p, k) ==
    \/ \E b \in Bodies : Command(p, k, CreateForm(b))
    \/ \E s \in Registered, b \in Bodies : Command(p, k, ServiceForm("COMPLETE", s, b))
    \/ \E t, u \in previews : Command(p, k, CorrectForm(t, u.after))
    \/ \E s \in Registered : Command(p, k, AttachForm(s))
    \/ \E g \in Revisable \cup {NULL}, ls \in SUBSET Lines \ {{}} :
          Recorded(ls) /\ Command(p, k, DocumentForm(g, ls))

Repeats(p, k) ==
    /\ receipts[k] # NoReceipt
    /\ Command(p, k, receipts[k].input)

(* After a lost answer a command is sent again with its key.               *)
Asks(p) ==
    /\ req[p] = NoRequest
    /\ begun < MaxBegun
    /\ \/ \E k \in Keys : Repeats(p, k) \/ (receipts[k] = NoReceipt /\ Sends(p, k))
       \/ \E s \in Registered, b \in Bodies : Preview(p, s, b)

Starts(p) ==
    \/ Replay(p)
    \/ \E s \in Services : StartCreate(p, s)
    \/ StartService(p)
    \/ \E g \in Groups : StartDocument(p, g)

Works(p) ==
    \/ CompleteRow(p)
    \/ CorrectRow(p)
    \/ PreviewRow(p)
    \/ AttachRow(p)
    \/ VerifyLines(p)
    \/ VerifyClaims(p)
    \/ SignPreview(p)
    \/ Save(p)
    \/ DocumentRow(p)
    \/ Review(p)
    \/ SaveDocument(p)

Next ==
    \E p \in Requests :
        \/ Asks(p)
        \/ \E l \in req[p].pending : Acquire(p, l)
        \/ Starts(p)
        \/ Works(p)
        \/ Abort(p)

Spec == Init /\ [][Next]_vars

-----------------------------------------------------------------------------
(* No piece of an external operation is counted in two cost lines, or      *)
(* twice in one: "dos escritores no pueden asignar el mismo componente     *)
(* financiero a dos contribuciones".  Services are verified one by one,    *)
(* and each sees only what others committed.                               *)
ClaimsDisjoint ==
    \A l, m \in Lines :
        \A c \in line[l].content.claims, d \in line[m].content.claims :
            l # m \/ c # d => ~Overlap(c, d)

(* A correction about to be saved replaces exactly what its preview showed *)
(* as before by what it showed as after, although the preview held no lock *)
(* and other commands ran in between.                                      *)
CorrectsWhatWasShown ==
    \A p \in Requests :
        At(p, "SAVE") /\ Is(p, {"CORRECT"}) =>
            /\ BodyOf(req[p].service) = req[p].input.token.before
            /\ req[p].body = req[p].input.token.after

(* A document is saved with the lines it keeps as they are at that moment, *)
(* and is their sum until one of them changes, which its version tells:    *)
(* for lines whose services were locked all along.                         *)
DocumentsReconcile ==
    /\ \A p \in Requests : At(p, "SAVE") /\ Is(p, {"DOCUMENT"}) /\ Guarded(p) =>
         /\ \A l \in DOMAIN req[p].read : req[p].read[l] = line[l].version
         /\ Reconciles(p, DOMAIN req[p].read)
    /\ \A g \in Groups :
         /\ document[g].version > 0 /\ document[g].guarded
         /\ \A l \in Allocated(g) : allocation[l].version = line[l].version
         => Total(Allocated(g)) = document[g].total

(* Every version of a service and of a document has the receipt of one     *)
(* command: what a client repeats after a lost answer, or twice at a time, *)
(* happens once.                                                           *)
OneReceiptPerVersion ==
    /\ \A s \in Services :
         version[s] = Cardinality({k \in Keys : receipts[k].service = s})
    /\ \A g \in Groups :
         document[g].version = Cardinality({k \in Keys : receipts[k].group = g})

(* No requests wait for each other in a circle, although documents lock    *)
(* several services and forms name lines and operations in any order.      *)
NoLockCircle ==
    \A ps \in SUBSET Requests :
        ps # {} => \E p \in ps :
            \/ req[p].pending = {}
            \/ \E l \in Wanted(p) : \A q \in ps : l \notin req[q].holds
=============================================================================
