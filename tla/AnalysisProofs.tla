--------------------------- MODULE AnalysisProofs ---------------------------
(* Theorems about Analysis, for any services, lines, operations, forms and *)
(* requests.                                                               *)
EXTENDS Analysis, SumTheorems

Verified == {"CREATE", "COMPLETE", "CORRECT"}
Updates == {"COMPLETE", "CORRECT", "ATTACH"}

(* BodyOf and ValidClaims, over given rows of the table of lines.          *)
LinesIn(ln, s) == {l \in Lines : ln[l].service = s}
BodyIn(ln, s) == [l \in LinesIn(ln, s) |-> ln[l].content]

ApartFrom(ln, b, s) ==
    \A l \in DOMAIN b, m \in Lines \ LinesIn(ln, s) :
        \A c \in b[l].claims, d \in ln[m].content.claims : ~Overlap(c, d)

ApartWithin(b) ==
    \A l, m \in DOMAIN b : \A c \in b[l].claims, d \in b[m].claims :
        l # m \/ c # d => ~Overlap(c, d)

-----------------------------------------------------------------------------
(* The inductive invariant.  It is stated of given rows, so that a step is *)
(* an implication between two of its instances.                            *)
Shape(r) ==
    r = [phase |-> r.phase, holds |-> r.holds, pending |-> r.pending, key |-> r.key,
         input |-> r.input, service |-> r.service, group |-> r.group, body |-> r.body,
         before |-> r.before, read |-> r.read]

(* A form names a service that exists; a correction, a token that was      *)
(* signed.                                                                 *)
GoodInput(x, v, pv) ==
    /\ x.kind \in Updates \cup {"PREVIEW"} => x.service \in Services /\ v[x.service] > 0
    /\ x.kind = "CORRECT" => x.token \in pv

(* A new service is nobody's; the others exist.                            *)
GoodService(r, v) ==
    /\ r.service \in Services \cup {0}
    /\ r.service # 0 => IF r.input.kind = "CREATE" THEN v[r.service] = 0 ELSE v[r.service] > 0

(* Which kinds of request are in which phases.                             *)
GoodPhase(r) ==
    /\ r.phase = "ROW" /\ r.input.kind \in Updates \cup {"PREVIEW"} => r.service \in Services
    /\ r.phase = "REVIEW" => r.input.kind = "DOCUMENT"
    /\ r.phase \in {"LINES", "CLAIMS"} =>
         r.input.kind \in Verified \cup {"PREVIEW"} /\ r.service \in Services
    /\ r.phase = "SAVE" =>
         /\ r.input.kind \in Verified \cup {"ATTACH", "DOCUMENT"}
         /\ r.input.kind # "DOCUMENT" => r.service \in Services

(* What is locked: the service, then the lines, then the operations.       *)
GoodLocks(r) ==
    /\ r.input.kind \in Updates /\ r.phase = "ROW" =>
         <<"service", r.service>> \in r.holds \cup r.pending
    /\ r.input.kind \in Updates /\ r.phase \in {"LINES", "CLAIMS", "SAVE"} =>
         <<"service", r.service>> \in r.holds
    /\ r.input.kind \in Verified /\ r.phase = "LINES" =>
         LineLocks(r.body) \subseteq r.holds \cup r.pending
    /\ r.input.kind \in Verified /\ r.phase \in {"CLAIMS", "SAVE"} =>
         /\ LineLocks(r.body) \subseteq r.holds
         /\ ClaimLocks(r.body) \subseteq r.holds \cup r.pending
    /\ r.phase = "SAVE" => r.pending = {}

(* What was verified under those locks is still so.                        *)
GoodLines(r, ln) ==
    /\ r.input.kind \in Verified /\ r.phase \in {"CLAIMS", "SAVE"} =>
         \A l \in DOMAIN r.body : l \in Lines => ln[l].service \in {0, r.service}
    /\ r.input.kind \in Verified /\ r.phase = "SAVE" =>
         ApartWithin(r.body) /\ ApartFrom(ln, r.body, r.service)
    /\ r.input.kind = "ATTACH" /\ r.phase = "SAVE" => r.body = BodyIn(ln, r.service)

(* What a preview read holds for as long as the version it read.           *)
Current(v, ln, s, ver, before) ==
    /\ s \in Services /\ ver \in Nat /\ ver <= v[s] /\ v[s] > 0
    /\ ver = v[s] => before = BodyIn(ln, s)

GoodShown(r, v, ln) ==
    /\ r.input.kind = "PREVIEW" /\ r.phase \in {"LINES", "CLAIMS"} =>
         Current(v, ln, r.service, r.input.version, r.before)
    /\ r.input.kind = "CORRECT" /\ r.phase \in {"LINES", "CLAIMS", "SAVE"} =>
         /\ r.input.token.service = r.service
         /\ r.input.token.version = v[r.service]
         /\ r.input.token.after = r.body

GoodRequest(r, v, ln, pv) ==
    /\ Shape(r)
    /\ GoodInput(r.input, v, pv)
    /\ GoodService(r, v)
    /\ GoodPhase(r)
    /\ GoodLocks(r)
    /\ GoodLines(r, ln)
    /\ GoodShown(r, v, ln)

(* No lock is held twice, and a new service has one creator.               *)
Apart(r1, r2) ==
    /\ r1.holds \cap r2.holds = {}
    /\ r1.input.kind = "CREATE" /\ r1.service # 0 => r2.service # r1.service
    /\ r2.input.kind = "CREATE" /\ r2.service # 0 => r1.service # r2.service

GoodTokens(v, ln, pv) ==
    \A t \in pv : Current(v, ln, t.service, t.version, t.before)

Disjoint(ln) ==
    \A l, m \in Lines :
        \A c \in ln[l].content.claims, d \in ln[m].content.claims :
            l # m \/ c # d => ~Overlap(c, d)

IInv ==
    /\ version \in [Services -> Nat]
    /\ DOMAIN req = Requests /\ DOMAIN receipts = Keys
    /\ \A p \in Requests : GoodRequest(req[p], version, line, previews)
    /\ \A p, q \in Requests : p # q => Apart(req[p], req[q])
    /\ \A k \in Keys : GoodInput(receipts[k].input, version, previews)
    /\ GoodTokens(version, line, previews)
    /\ Disjoint(line)

-----------------------------------------------------------------------------
LEMMA Readings ==
  /\ \A s : BodyOf(s) = BodyIn(line, s)
  /\ \A b, s : ValidClaims(b, s) => ApartWithin(b) /\ ApartFrom(line, b, s)
  /\ ClaimsDisjoint <=> Disjoint(line)
BY DEF BodyOf, BodyIn, LinesOf, LinesIn, ValidClaims, ApartWithin, ApartFrom,
       ClaimsDisjoint, Disjoint

LEMMA InitGood == Init => IInv
<1> SUFFICES ASSUME Init PROVE IInv
  OBVIOUS
<1>1. \A p \in Requests : GoodRequest(req[p], version, line, previews)
  BY DEF Init, GoodRequest, Shape, GoodInput, GoodService, GoodPhase, GoodLocks, GoodLines,
         GoodShown, NoRequest, NoInput, Verified, Updates
<1>2. \A p, q \in Requests : Apart(req[p], req[q])
  BY DEF Init, Apart, NoRequest, NoInput
<1>3. \A k \in Keys : GoodInput(receipts[k].input, version, previews)
  BY DEF Init, GoodInput, NoReceipt, NoInput, Updates
<1>4. Disjoint(line)
  BY DEF Init, Disjoint, NoLine, NoContent
<1>5. /\ version \in [Services -> Nat] /\ DOMAIN req = Requests
      /\ DOMAIN receipts = Keys /\ GoodTokens(version, line, previews)
  BY DEF Init, GoodTokens
<1> QED BY <1>1, <1>2, <1>3, <1>4, <1>5 DEF IInv

(* A request that is not there disturbs nobody.                            *)
LEMMA NoRequestGood ==
  ASSUME NEW v, NEW ln, NEW pv
  PROVE  /\ GoodRequest(NoRequest, v, ln, pv)
         /\ \A r : Apart(NoRequest, r)
BY DEF GoodRequest, Shape, GoodInput, GoodService, GoodPhase, GoodLocks, GoodLines,
       GoodShown, NoRequest, NoInput, Verified, Updates, Apart

(* Tokens are only added.                                                  *)
LEMMA MoreTokens ==
  ASSUME NEW r, NEW v, NEW ln, NEW pv, NEW pw, pv \subseteq pw, GoodRequest(r, v, ln, pv)
  PROVE  GoodRequest(r, v, ln, pw)
BY DEF GoodRequest, GoodInput

(* A request is not disturbed by what another one, or its own end, leaves  *)
(* unchanged.                                                              *)
LEMMA RequestStep ==
  ASSUME IInv, NEW p \in Requests, UNCHANGED <<version, line, receipts>>,
         previews \subseteq previews', GoodTokens(version, line, previews'),
         req' = [req EXCEPT ![p] = req'[p]],
         GoodRequest(req'[p], version, line, previews'),
         \A q \in Requests \ {p} : Apart(req'[p], req[q])
  PROVE  IInv'
<1>1. \A q \in Requests : GoodRequest(req'[q], version', line', previews')
  <2> SUFFICES ASSUME NEW q \in Requests, q # p
               PROVE  GoodRequest(req'[q], version, line, previews')
    OBVIOUS
  <2>1. req'[q] = req[q] BY DEF IInv
  <2>2. GoodRequest(req[q], version, line, previews) BY DEF IInv
  <2> QED BY <2>1, <2>2, MoreTokens
<1>2. \A q1, q2 \in Requests : q1 # q2 => Apart(req'[q1], req'[q2])
  <2>1. \A q \in Requests \ {p} : req'[q] = req[q] BY DEF IInv
  <2>2. \A q1, q2 \in Requests : q1 # q2 => Apart(req[q1], req[q2]) BY DEF IInv
  <2>3. \A r1, r2 : Apart(r1, r2) => Apart(r2, r1) BY DEF Apart
  <2> QED BY <2>1, <2>2, <2>3
<1>3. \A k \in Keys : GoodInput(receipts'[k].input, version', previews')
  BY DEF IInv, GoodInput
<1>4. DOMAIN req' = Requests BY DEF IInv
<1> QED BY <1>1, <1>2, <1>3, <1>4 DEF IInv

-----------------------------------------------------------------------------
(* A request that keeps its locks and its service, or ends.                *)
LEMMA Moves ==
  ASSUME IInv, NEW p \in Requests, UNCHANGED <<version, line, receipts, previews>>,
         req' = [req EXCEPT ![p] = req'[p]],
         GoodRequest(req'[p], version, line, previews),
         req'[p].holds = req[p].holds, req'[p].input = req[p].input,
         req'[p].service = req[p].service
  PROVE  IInv'
<1>1. \A q \in Requests \ {p} : Apart(req'[p], req[q])
  BY DEF IInv, Apart
<1>2. GoodTokens(version, line, previews)
  BY DEF IInv
<1> QED BY <1>1, <1>2, RequestStep

LEMMA EndsGood ==
  ASSUME IInv, NEW p \in Requests, Ends(p), UNCHANGED <<version, line, receipts>>,
         previews \subseteq previews', GoodTokens(version, line, previews')
  PROVE  IInv'
<1>1. req'[p] = NoRequest /\ req' = [req EXCEPT ![p] = req'[p]]
  BY DEF Ends, IInv
<1> QED BY <1>1, NoRequestGood, RequestStep

LEMMA AcquireGood ==
  ASSUME IInv, NEW p \in Requests, NEW l \in req[p].pending, Acquire(p, l)
  PROVE  IInv'
<1> DEFINE r == req[p]
<1>1. GoodRequest(r, version, line, previews)
  BY DEF IInv
<1>2. /\ req'[p].holds = r.holds \cup {l} /\ req'[p].pending = r.pending \ {l}
      /\ req'[p].phase = r.phase /\ req'[p].input = r.input /\ req'[p].body = r.body
      /\ req'[p].service = r.service /\ req'[p].before = r.before
      /\ Shape(req'[p])
      /\ req' = [req EXCEPT ![p] = req'[p]]
  BY <1>1 DEF Acquire, GoodRequest, Shape, IInv
<1>3. UNCHANGED <<version, line, receipts, previews>>
  BY DEF Acquire, tables
<1>4. GoodLocks(req'[p])
  BY <1>1, <1>2 DEF GoodRequest, GoodLocks
<1>5. GoodRequest(req'[p], version, line, previews)
  BY <1>1, <1>2, <1>4 DEF GoodRequest, GoodInput, GoodService, GoodPhase, GoodLines, GoodShown
<1>6. \A q \in Requests \ {p} : Apart(req'[p], req[q])
  BY <1>2 DEF IInv, Apart, Acquire
<1>7. GoodTokens(version, line, previews)
  BY DEF IInv
<1> QED BY <1>2, <1>3, <1>5, <1>6, <1>7, RequestStep

(* What the pages send names what exists.                                  *)
LEMMA FormsGood ==
  ASSUME IInv
  PROVE  /\ \A b : GoodInput(CreateForm(b), version, previews)
         /\ \A s \in Registered : \A b :
               /\ GoodInput(ServiceForm("COMPLETE", s, b), version, previews)
               /\ GoodInput(ServiceForm("PREVIEW", s, b), version, previews)
               /\ GoodInput(AttachForm(s), version, previews)
         /\ \A t \in previews : \A b : GoodInput(CorrectForm(t, b), version, previews)
         /\ \A g, ls : GoodInput(DocumentForm(g, ls), version, previews)
<1>1. \A t \in previews : t.service \in Services /\ version[t.service] > 0
  BY DEF IInv, GoodTokens, Current
<1> QED BY <1>1 DEF GoodInput, Updates, CreateForm, ServiceForm, AttachForm,
                    CorrectForm, DocumentForm, NoInput, Registered

LEMMA CommandGood ==
  ASSUME IInv, NEW p \in Requests, NEW k, NEW x, Command(p, k, x),
         GoodInput(x, version, previews)
  PROVE  IInv'
<1>1. /\ req'[p] = [NoRequest EXCEPT !.phase = "RECEIPT", !.key = k, !.input = x,
                                     !.pending = {CommandLock(k)}]
      /\ req' = [req EXCEPT ![p] = req'[p]]
      /\ UNCHANGED <<version, line, receipts, previews>>
  BY DEF Command, Begin, tables, IInv
<1>2. GoodRequest(req'[p], version, line, previews)
  BY <1>1 DEF GoodRequest, Shape, GoodService, GoodPhase, GoodLocks, GoodLines,
              GoodShown, NoRequest
<1>3. \A r : Apart(req'[p], r)
  BY <1>1 DEF Apart, NoRequest
<1>4. GoodTokens(version, line, previews)
  BY DEF IInv
<1> QED BY <1>1, <1>2, <1>3, <1>4, RequestStep

LEMMA PreviewGood ==
  ASSUME IInv, NEW p \in Requests, NEW s \in Registered, NEW b, Preview(p, s, b)
  PROVE  IInv'
<1> DEFINE x == ServiceForm("PREVIEW", s, b)
<1>1. GoodInput(x, version, previews) /\ x.kind = "PREVIEW"
  BY FormsGood DEF ServiceForm, NoInput
<1>2. /\ req'[p] = [NoRequest EXCEPT !.phase = "ROW", !.service = s, !.input = x]
      /\ req' = [req EXCEPT ![p] = req'[p]]
      /\ UNCHANGED <<version, line, receipts, previews>>
  BY DEF Preview, Begin, tables, IInv
<1>3. s \in Services /\ version[s] > 0
  BY DEF Registered
<1> HIDE DEF x
<1>4. GoodRequest(req'[p], version, line, previews)
  BY <1>1, <1>2, <1>3 DEF GoodRequest, Shape, GoodService, GoodPhase, GoodLocks, GoodLines,
                          GoodShown, NoRequest, Updates, Verified
<1>5. \A q \in Requests \ {p} : Apart(req'[p], req[q])
  <2> SUFFICES ASSUME NEW q \in Requests, req[q].input.kind = "CREATE", req[q].service # 0
               PROVE  s # req[q].service
    BY <1>1, <1>2 DEF Apart, NoRequest
  <2>1. version[req[q].service] = 0
    BY DEF IInv, GoodRequest, GoodService
  <2> QED BY <1>3, <2>1
<1>6. GoodTokens(version, line, previews)
  BY DEF IInv
<1> QED BY <1>2, <1>4, <1>5, <1>6, RequestStep

LEMMA AsksGood ==
  ASSUME IInv, NEW p \in Requests, Asks(p)
  PROVE  IInv'
<1>1. CASE \E s \in Registered, b \in Bodies : Preview(p, s, b)
  BY <1>1, PreviewGood
<1>2. ASSUME NEW k \in Keys, Repeats(p, k)
      PROVE  IInv'
  BY <1>2, CommandGood DEF Repeats, IInv
<1>3. ASSUME NEW k \in Keys, Sends(p, k)
      PROVE  IInv'
  <2>1. ASSUME NEW b \in Bodies, Command(p, k, CreateForm(b)) PROVE IInv'
    BY <2>1, FormsGood, CommandGood DEF CreateForm, NoInput
  <2>2. ASSUME NEW s \in Registered, NEW b \in Bodies, Command(p, k, ServiceForm("COMPLETE", s, b))
        PROVE  IInv'
    BY <2>2, FormsGood, CommandGood DEF ServiceForm, NoInput
  <2>3. ASSUME NEW t \in previews, NEW u \in previews, Command(p, k, CorrectForm(t, u.after))
        PROVE  IInv'
    BY <2>3, FormsGood, CommandGood DEF CorrectForm, ServiceForm, NoInput
  <2>4. ASSUME NEW s \in Registered, Command(p, k, AttachForm(s)) PROVE IInv'
    BY <2>4, FormsGood, CommandGood DEF AttachForm, NoInput
  <2>5. ASSUME NEW g, NEW ls, Command(p, k, DocumentForm(g, ls)) PROVE IInv'
    BY <2>5, FormsGood, CommandGood DEF DocumentForm, NoInput
  <2> QED BY <1>3, <2>1, <2>2, <2>3, <2>4, <2>5 DEF Sends
<1> QED BY <1>1, <1>2, <1>3 DEF Asks

-----------------------------------------------------------------------------
LEMMA StartCreateGood ==
  ASSUME IInv, NEW p \in Requests, NEW s \in Services, StartCreate(p, s)
  PROVE  IInv'
<1> DEFINE r == req[p]
<1>1. GoodRequest(r, version, line, previews)
  BY DEF IInv
<1>2. /\ req'[p].holds = r.holds /\ req'[p].pending = LineLocks(r.input.body)
      /\ req'[p].phase = "LINES" /\ req'[p].input = r.input /\ req'[p].body = r.input.body
      /\ req'[p].service = s /\ Shape(req'[p]) /\ r.input.kind = "CREATE"
      /\ req' = [req EXCEPT ![p] = req'[p]]
  BY <1>1 DEF StartCreate, GoodRequest, Shape, IInv, Is
<1>3. /\ UNCHANGED <<version, line, receipts, previews>>
      /\ version[s] = 0 /\ \A q \in Requests : req[q].service # s
  BY DEF StartCreate, tables
<1>4. GoodLocks(req'[p])
  BY <1>2 DEF GoodLocks, Updates, Verified
<1>5. GoodRequest(req'[p], version, line, previews)
  BY <1>1, <1>2, <1>3, <1>4 DEF GoodRequest, GoodInput, GoodService, GoodPhase, GoodLines,
                                GoodShown, Verified, Updates
<1>6. \A q \in Requests \ {p} : Apart(req'[p], req[q])
  BY <1>2, <1>3 DEF IInv, Apart
<1>7. GoodTokens(version, line, previews)
  BY DEF IInv
<1> QED BY <1>2, <1>3, <1>5, <1>6, <1>7, RequestStep

LEMMA StartServiceGood ==
  ASSUME IInv, NEW p \in Requests, StartService(p)
  PROVE  IInv'
<1> DEFINE r == req[p]
           s == r.input.service
<1>1. GoodRequest(r, version, line, previews)
  BY DEF IInv
<1>2. /\ req'[p].holds = r.holds /\ req'[p].pending = ServiceLocks({s})
      /\ req'[p].phase = "ROW" /\ req'[p].input = r.input
      /\ req'[p].service = s /\ Shape(req'[p]) /\ r.input.kind \in Updates
      /\ req' = [req EXCEPT ![p] = req'[p]]
  BY <1>1 DEF StartService, GoodRequest, Shape, IInv, Is, Updates
<1>3. /\ UNCHANGED <<version, line, receipts, previews>>
  BY DEF StartService, tables
<1>4. s \in Services /\ version[s] > 0
  BY <1>1, <1>2 DEF GoodRequest, GoodInput
<1>5. GoodLocks(req'[p])
  BY <1>2 DEF GoodLocks, ServiceLocks
<1>6. GoodRequest(req'[p], version, line, previews)
  BY <1>1, <1>2, <1>4, <1>5 DEF GoodRequest, GoodInput, GoodService, GoodPhase, GoodLines,
                                GoodShown, Updates
<1>7. \A q \in Requests \ {p} : Apart(req'[p], req[q])
  <2> SUFFICES ASSUME NEW q \in Requests \ {p}
               PROVE  Apart(req'[p], req[q])
    OBVIOUS
  <2>1. Apart(r, req[q]) /\ GoodService(req[q], version)
    BY DEF IInv, GoodRequest
  <2>2. req[q].input.kind = "CREATE" /\ req[q].service # 0 => req[q].service # s
    BY <2>1, <1>4 DEF GoodService
  <2> QED BY <2>1, <2>2, <1>2 DEF Apart, Updates
<1>8. GoodTokens(version, line, previews)
  BY DEF IInv
<1> QED BY <1>2, <1>3, <1>6, <1>7, <1>8, RequestStep

LEMMA StartDocumentGood ==
  ASSUME IInv, NEW p \in Requests, NEW g \in Groups, StartDocument(p, g)
  PROVE  IInv'
<1> DEFINE r == req[p]
<1>1. GoodRequest(r, version, line, previews)
  BY DEF IInv
<1>2. /\ req'[p].holds = r.holds /\ req'[p].service = r.service /\ req'[p].phase = "ROW"
      /\ req'[p].input = r.input /\ Shape(req'[p]) /\ r.input.kind = "DOCUMENT"
      /\ req' = [req EXCEPT ![p] = req'[p]]
  BY <1>1 DEF StartDocument, GoodRequest, Shape, IInv, Is
<1>3. /\ UNCHANGED <<version, line, receipts, previews>>
  BY DEF StartDocument, tables
<1>4. GoodRequest(req'[p], version, line, previews)
  BY <1>1, <1>2 DEF GoodRequest, GoodInput, GoodService, GoodPhase, GoodLines,
                    GoodLocks, GoodShown, Updates, Verified
<1> QED BY <1>2, <1>3, <1>4, Moves

(* Reading the row keeps the lock of the service and asks for the lines'.  *)
LEMMA ReadsRowGood ==
  ASSUME IInv, NEW p \in Requests, NEW b, ReadsRow(p, req[p].service, b, TRUE),
         req[p].input.kind \in {"COMPLETE", "CORRECT", "PREVIEW"},
         req[p].input.kind = "CORRECT" =>
           /\ req[p].input.token.service = req[p].service
           /\ req[p].input.token.version = version[req[p].service]
           /\ req[p].input.token.after = b
  PROVE  IInv'
<1> DEFINE r == req[p]
<1>1. GoodRequest(r, version, line, previews)
  BY DEF IInv
<1>2. /\ req'[p].holds = r.holds /\ req'[p].pending = LineLocks(b)
      /\ req'[p].phase = "LINES" /\ req'[p].input = r.input /\ req'[p].body = b
      /\ req'[p].service = r.service /\ req'[p].before = BodyOf(r.service)
      /\ Shape(req'[p]) /\ req' = [req EXCEPT ![p] = req'[p]]
  BY <1>1 DEF ReadsRow, GoodRequest, Shape, IInv
<1>3. /\ UNCHANGED <<version, line, receipts, previews>>
      /\ r.phase = "ROW" /\ r.pending = {} /\ r.input.version = version[r.service]
  BY DEF ReadsRow, tables, At
<1>4. r.service \in Services /\ version[r.service] > 0 /\ version[r.service] \in Nat
  BY <1>1, <1>3, AnalysisAssumption DEF GoodRequest, GoodPhase, GoodService, Updates, IInv
<1>5. GoodLocks(req'[p])
  BY <1>1, <1>2, <1>3 DEF GoodRequest, GoodLocks
<1>6. GoodShown(req'[p], version, line)
  BY <1>2, <1>3, <1>4, Readings DEF GoodShown, Current
<1>7. GoodRequest(req'[p], version, line, previews)
  BY <1>1, <1>2, <1>4, <1>5, <1>6 DEF GoodRequest, GoodInput, GoodService, GoodPhase, GoodLines,
                                      Verified
<1> QED BY <1>2, <1>3, <1>7, Moves

LEMMA AttachRowGood ==
  ASSUME IInv, NEW p \in Requests, AttachRow(p)
  PROVE  IInv'
<1> DEFINE r == req[p]
<1>1. GoodRequest(r, version, line, previews)
  BY DEF IInv
<1>2. /\ req'[p].holds = r.holds /\ req'[p].pending = r.pending
      /\ req'[p].phase = "SAVE" /\ req'[p].input = r.input /\ req'[p].body = BodyOf(r.service)
      /\ req'[p].service = r.service /\ Shape(req'[p]) /\ req' = [req EXCEPT ![p] = req'[p]]
  BY <1>1 DEF AttachRow, GoodRequest, Shape, IInv
<1>3. /\ UNCHANGED <<version, line, receipts, previews>>
      /\ r.phase = "ROW" /\ r.pending = {} /\ r.input.kind = "ATTACH"
  BY DEF AttachRow, tables, At, Is
<1>4. r.service \in Services
  BY <1>1, <1>3 DEF GoodRequest, GoodPhase, Updates
<1>5. GoodLocks(req'[p])
  BY <1>1, <1>2, <1>3 DEF GoodRequest, GoodLocks, Updates, Verified
<1>6. GoodLines(req'[p], line)
  BY <1>2, <1>3, Readings DEF GoodLines, Verified
<1>7. GoodRequest(req'[p], version, line, previews)
  BY <1>1, <1>2, <1>3, <1>4, <1>5, <1>6 DEF GoodRequest, GoodInput, GoodService, GoodPhase,
                                            GoodShown
<1> QED BY <1>2, <1>3, <1>7, Moves

LEMMA VerifyLinesGood ==
  ASSUME IInv, NEW p \in Requests, VerifyLines(p)
  PROVE  IInv'
<1> DEFINE r == req[p]
<1>1. GoodRequest(r, version, line, previews)
  BY DEF IInv
<1>2. /\ req'[p].holds = r.holds /\ req'[p].pending = ClaimLocks(r.body)
      /\ req'[p].phase = "CLAIMS" /\ req'[p].input = r.input /\ req'[p].body = r.body
      /\ req'[p].service = r.service /\ req'[p].before = r.before
      /\ Shape(req'[p]) /\ req' = [req EXCEPT ![p] = req'[p]]
  BY <1>1 DEF VerifyLines, GoodRequest, Shape, IInv
<1>3. /\ UNCHANGED <<version, line, receipts, previews>>
      /\ r.phase = "LINES" /\ r.pending = {}
      /\ \A l \in DOMAIN r.body : line[l].service \in {0, r.service}
  BY DEF VerifyLines, tables, At
<1>4. GoodLocks(req'[p])
  BY <1>1, <1>2, <1>3 DEF GoodRequest, GoodLocks
<1>5. GoodLines(req'[p], line)
  BY <1>2, <1>3 DEF GoodLines
<1>6. GoodRequest(req'[p], version, line, previews)
  BY <1>1, <1>2, <1>3, <1>4, <1>5 DEF GoodRequest, GoodInput, GoodService, GoodPhase, GoodShown
<1> QED BY <1>2, <1>3, <1>6, Moves

LEMMA VerifyClaimsGood ==
  ASSUME IInv, NEW p \in Requests, VerifyClaims(p)
  PROVE  IInv'
<1> DEFINE r == req[p]
<1>1. GoodRequest(r, version, line, previews)
  BY DEF IInv
<1>2. /\ req'[p].holds = r.holds /\ req'[p].pending = {}
      /\ req'[p].phase = "SAVE" /\ req'[p].input = r.input /\ req'[p].body = r.body
      /\ req'[p].service = r.service /\ req'[p].before = r.before
      /\ Shape(req'[p]) /\ req' = [req EXCEPT ![p] = req'[p]]
  BY <1>1 DEF VerifyClaims, Goes, GoodRequest, Shape, IInv
<1>3. /\ UNCHANGED <<version, line, receipts, previews>>
      /\ r.phase = "CLAIMS" /\ r.pending = {} /\ r.input.kind # "PREVIEW"
      /\ ValidClaims(r.body, r.service)
  BY DEF VerifyClaims, tables, At, Is
<1>4. r.input.kind \in Verified /\ r.service \in Services
  BY <1>1, <1>3 DEF GoodRequest, GoodPhase
<1>5. GoodLocks(req'[p])
  BY <1>1, <1>2, <1>3 DEF GoodRequest, GoodLocks
<1>6. GoodLines(req'[p], line)
  BY <1>1, <1>2, <1>3, <1>4, Readings DEF GoodRequest, GoodLines, Verified
<1>7. GoodPhase(req'[p])
  BY <1>2, <1>4 DEF GoodPhase
<1>8. GoodRequest(req'[p], version, line, previews)
  BY <1>1, <1>2, <1>3, <1>5, <1>6, <1>7 DEF GoodRequest, GoodInput, GoodService, GoodShown
<1> QED BY <1>2, <1>3, <1>8, Moves

LEMMA SignPreviewGood ==
  ASSUME IInv, NEW p \in Requests, SignPreview(p)
  PROVE  IInv'
<1> DEFINE r == req[p]
           t == [service |-> r.service, version |-> r.input.version,
                 before |-> r.before, after |-> r.body]
<1>1. /\ UNCHANGED <<version, line, receipts>> /\ previews' = previews \cup {t} /\ Ends(p)
      /\ r.phase = "CLAIMS" /\ r.input.kind = "PREVIEW"
  BY DEF SignPreview, tables, At, Is
<1>2. Current(version, line, t.service, t.version, t.before)
  BY <1>1 DEF IInv, GoodRequest, GoodShown
<1> HIDE DEF t
<1>3. GoodTokens(version, line, previews')
  BY <1>1, <1>2 DEF IInv, GoodTokens
<1> QED BY <1>1, <1>3, EndsGood

(* A document passes its phases without touching services or lines.        *)
LEMMA DocumentGood ==
  ASSUME IInv, NEW p \in Requests, DocumentRow(p) \/ Review(p)
  PROVE  IInv'
<1> DEFINE r == req[p]
<1>1. GoodRequest(r, version, line, previews)
  BY DEF IInv
<1>2. /\ req'[p].holds = r.holds /\ req'[p].input = r.input /\ req'[p].service = r.service
      /\ req'[p].phase \in {"REVIEW", "SAVE"} /\ (req'[p].phase = "SAVE" => req'[p].pending = {})
      /\ Shape(req'[p]) /\ req' = [req EXCEPT ![p] = req'[p]]
  <2>1. CASE DocumentRow(p)
    <3> DEFINE m == ServiceLocks({line[l].service : l \in req[p].input.lines})
    <3>1. req' = [req EXCEPT ![p].phase = "REVIEW", ![p].pending = m]
      BY <2>1 DEF DocumentRow, Goes
    <3> HIDE DEF m
    <3> QED BY <1>1, <3>1 DEF GoodRequest, Shape, IInv
  <2>2. CASE Review(p)
    <3> DEFINE m == [l \in {l \in req[p].input.lines : line[l].service # 0} |-> line[l].version]
    <3>1. req' = [req EXCEPT ![p].phase = "SAVE", ![p].read = m] /\ r.pending = {}
      BY <2>2 DEF Review, At
    <3> HIDE DEF m
    <3> QED BY <1>1, <3>1 DEF GoodRequest, Shape, IInv
  <2> QED BY <2>1, <2>2
<1>3. UNCHANGED <<version, line, receipts, previews>>
  BY DEF DocumentRow, Review, tables
<1>4. r.input.kind = "DOCUMENT"
  <2>1. CASE DocumentRow(p)
    BY <2>1 DEF DocumentRow, Is
  <2>2. CASE Review(p)
    BY <1>1, <2>2 DEF Review, At, GoodRequest, GoodPhase
  <2> QED BY <2>1, <2>2
<1>5. GoodRequest(req'[p], version, line, previews)
  BY <1>1, <1>2, <1>4 DEF GoodRequest, GoodInput, GoodService, GoodPhase, GoodLines,
                          GoodLocks, GoodShown, Updates, Verified
<1> QED BY <1>2, <1>3, <1>5, Moves

(* A receipt keeps the form of its request.                                *)
LEMMA SaveDocumentGood ==
  ASSUME IInv, NEW p \in Requests, SaveDocument(p)
  PROVE  IInv'
<1>1. /\ req' = [req EXCEPT ![p] = NoRequest]
      /\ UNCHANGED <<version, line, previews>>
  BY DEF SaveDocument, Ends
<1>2. /\ DOMAIN receipts' = Keys
      /\ \A k \in Keys : receipts'[k].input \in {receipts[k].input, req[p].input}
  BY DEF SaveDocument, Receive, IInv
<1>3. \A k \in Keys : GoodInput(receipts'[k].input, version, previews)
  BY <1>2 DEF IInv, GoodRequest
<1>4. \A q \in Requests : GoodRequest(req'[q], version, line, previews)
  BY <1>1, NoRequestGood DEF IInv
<1>5. \A q1, q2 \in Requests : q1 # q2 => Apart(req'[q1], req'[q2])
  <2>1. \A r : Apart(NoRequest, r) /\ Apart(r, NoRequest)
    BY NoRequestGood DEF Apart
  <2> QED BY <1>1, <2>1 DEF IInv
<1>6. DOMAIN req' = Requests
  BY <1>1 DEF IInv
<1> QED BY <1>1, <1>2, <1>3, <1>4, <1>5, <1>6 DEF IInv
-----------------------------------------------------------------------------
(* What a save does to the lines, and what it leaves alone.                *)
Written(ln, new, b, s) ==
    \A l \in Lines :
        /\ l \in DOMAIN b => new[l].service = s /\ new[l].content = b[l]
        /\ l \notin DOMAIN b /\ ln[l].service = s => new[l] = NoLine
        /\ l \notin DOMAIN b /\ ln[l].service # s => new[l] = ln[l]

Advances(v, w, s) ==
    /\ v \in [Services -> Nat]
    /\ w = [v EXCEPT ![s] = @ + 1]

(* The lines saved were free or its own; an attachment leaves the contents *)
(* as they are.                                                            *)
Saveable(r, ln) ==
    /\ r.service \in Services
    /\ \A l \in Lines : l \in DOMAIN r.body => ln[l].service \in {0, r.service}
    /\ r.input.kind = "ATTACH" => r.body = BodyIn(ln, r.service)
    /\ r.input.kind # "ATTACH" =>
         /\ LineLocks(r.body) \subseteq r.holds /\ ClaimLocks(r.body) \subseteq r.holds
         /\ ApartWithin(r.body) /\ ApartFrom(ln, r.body, r.service)
    /\ r.input.kind = "CREATE" \/ <<"service", r.service>> \in r.holds

LEMMA SaveableNow ==
  ASSUME IInv, NEW p \in Requests, req[p].phase = "SAVE", req[p].input.kind # "DOCUMENT"
  PROVE  Saveable(req[p], line)
<1> DEFINE r == req[p]
<1>1. GoodRequest(r, version, line, previews)
  BY DEF IInv
<1>2. r.service \in Services /\ r.input.kind \in Verified \cup {"ATTACH"} /\ r.pending = {}
  BY <1>1 DEF GoodRequest, GoodPhase, GoodLocks
<1>3. CASE r.input.kind = "ATTACH"
  <2>1. r.body = BodyIn(line, r.service) /\ <<"service", r.service>> \in r.holds
    BY <1>1, <1>3 DEF GoodRequest, GoodLines, GoodLocks, Updates
  <2>2. \A l \in DOMAIN r.body : line[l].service = r.service
    BY <2>1 DEF BodyIn, LinesIn
  <2> QED BY <1>2, <1>3, <2>1, <2>2 DEF Saveable
<1>4. CASE r.input.kind \in Verified
  <2>1. /\ \A l \in Lines : l \in DOMAIN r.body => line[l].service \in {0, r.service}
        /\ ApartWithin(r.body) /\ ApartFrom(line, r.body, r.service)
    BY <1>1, <1>4 DEF GoodRequest, GoodLines
  <2>2. LineLocks(r.body) \subseteq r.holds /\ ClaimLocks(r.body) \subseteq r.holds
    BY <1>1, <1>2, <1>4 DEF GoodRequest, GoodLocks
  <2>3. r.input.kind = "CREATE" \/ <<"service", r.service>> \in r.holds
    BY <1>1, <1>4 DEF GoodRequest, GoodLocks, Updates, Verified
  <2> QED BY <1>2, <1>4, <2>1, <2>2, <2>3 DEF Saveable, Verified
<1> QED BY <1>2, <1>3, <1>4

(* The other services keep their lines.                                    *)
LEMMA OthersUntouched ==
  ASSUME NEW r, NEW ln, NEW new, Saveable(r, ln), Written(ln, new, r.body, r.service),
         NEW u \in Services, u # r.service
  PROVE  BodyIn(new, u) = BodyIn(ln, u)
<1>1. u # 0
  BY AnalysisAssumption
<1>2. \A l \in Lines : (new[l].service = u <=> ln[l].service = u)
                       /\ (ln[l].service = u => new[l] = ln[l])
  BY <1>1 DEF Saveable, Written, NoLine
<1>3. LinesIn(new, u) = LinesIn(ln, u)
  BY <1>2 DEF LinesIn
<1>4. \A l \in LinesIn(ln, u) : new[l].content = ln[l].content
  BY <1>2 DEF LinesIn
<1> QED BY <1>3, <1>4 DEF BodyIn

(* No piece becomes claimed twice.                                         *)
LEMMA StaysDisjoint ==
  ASSUME NEW r, NEW ln, NEW new, Saveable(r, ln), Written(ln, new, r.body, r.service),
         Disjoint(ln)
  PROVE  Disjoint(new)
<1> DEFINE b == r.body
           s == r.service
<1>1. \A c, d : Overlap(c, d) => Overlap(d, c)
  BY DEF Overlap
<1>2. NoLine.content.claims = {}
  BY DEF NoLine, NoContent
<1>3. CASE r.input.kind = "ATTACH"
  <2>1. \A l \in Lines : (l \in DOMAIN b <=> ln[l].service = s)
                         /\ (l \in DOMAIN b => b[l] = ln[l].content)
    BY <1>3 DEF Saveable, BodyIn, LinesIn
  <2>2. \A l \in Lines : new[l].content = ln[l].content
    BY <2>1 DEF Written
  <2> QED BY <2>2 DEF Disjoint
<1>4. CASE r.input.kind # "ATTACH"
  <2> SUFFICES ASSUME NEW l \in Lines, NEW m \in Lines, NEW c \in new[l].content.claims,
                      NEW d \in new[m].content.claims, l # m \/ c # d
               PROVE  ~Overlap(c, d)
    BY DEF Disjoint
  <2>1. ApartWithin(b) /\ ApartFrom(ln, b, s)
    BY <1>4 DEF Saveable
  <2>2. \A n \in Lines : \A e : n \notin DOMAIN b /\ e \in new[n].content.claims =>
            ln[n].service # s /\ new[n] = ln[n]
    BY <1>2 DEF Written
  <2>3. \A n \in Lines : n \in DOMAIN b => new[n].content = b[n]
    BY DEF Written
  <2>4. CASE l \in DOMAIN b /\ m \in DOMAIN b
    BY <2>1, <2>3, <2>4 DEF ApartWithin
  <2>5. CASE l \in DOMAIN b /\ m \notin DOMAIN b
    BY <2>1, <2>2, <2>3, <2>5 DEF ApartFrom, LinesIn
  <2>6. CASE l \notin DOMAIN b /\ m \in DOMAIN b
    BY <1>1, <2>1, <2>2, <2>3, <2>6 DEF ApartFrom, LinesIn
  <2>7. CASE l \notin DOMAIN b /\ m \notin DOMAIN b
    BY <2>2, <2>7 DEF Disjoint
  <2> QED BY <2>4, <2>5, <2>6, <2>7
<1> QED BY <1>3, <1>4
(* A preview read before a save shows an older version.                    *)
LEMMA StaysCurrent ==
  ASSUME NEW r, NEW v, NEW w, NEW ln, NEW new, Saveable(r, ln),
         Written(ln, new, r.body, r.service), Advances(v, w, r.service),
         NEW s, NEW ver, NEW before, Current(v, ln, s, ver, before)
  PROVE  Current(w, new, s, ver, before)
<1>1. r.service \in Services
  BY DEF Saveable
<1>2. CASE s = r.service
  BY <1>1, <1>2 DEF Current, Advances
<1>3. CASE s # r.service
  <2>1. s \in Services /\ BodyIn(new, s) = BodyIn(ln, s) /\ w[s] = v[s]
    BY <1>3, OthersUntouched DEF Current, Advances
  <2> QED BY <2>1 DEF Current
<1> QED BY <1>2, <1>3

(* What another request verified under its locks is not disturbed.         *)
LEMMA LinesStayGood ==
  ASSUME NEW r, NEW q, NEW ln, NEW new, Saveable(r, ln),
         Written(ln, new, r.body, r.service), Apart(r, q),
         q.service \in Services \cup {0}, GoodPhase(q), GoodLocks(q), GoodLines(q, ln)
  PROVE  GoodLines(q, new)
<1> DEFINE b == r.body
           s == r.service
           b2 == q.body
           s2 == q.service
<1>0. s \in Services /\ s # 0
  BY AnalysisAssumption DEF Saveable
<1>1. \A l \in Lines : l \in DOMAIN b => ln[l].service \in {0, s}
  BY DEF Saveable
<1>2. ASSUME q.input.kind \in Verified, q.phase \in {"CLAIMS", "SAVE"}
      PROVE  \A l \in DOMAIN b2 : l \in Lines => new[l].service \in {0, s2}
  <2> SUFFICES ASSUME NEW l \in DOMAIN b2, l \in Lines PROVE new[l].service \in {0, s2}
    OBVIOUS
  <2>1. ln[l].service \in {0, s2} /\ <<"cost-line", l>> \in q.holds
    BY <1>2 DEF GoodLines, GoodLocks, LineLocks
  <2>2. CASE l \notin DOMAIN b
    BY <2>1, <2>2 DEF Written, NoLine
  <2>3. CASE l \in DOMAIN b /\ r.input.kind # "ATTACH"
    <3>1. <<"cost-line", l>> \in r.holds
      BY <2>3 DEF Saveable, LineLocks
    <3> QED BY <2>1, <3>1 DEF Apart
  <2>4. CASE l \in DOMAIN b /\ r.input.kind = "ATTACH"
    <3>1. ln[l].service = s
      BY <2>4 DEF Saveable, BodyIn, LinesIn
    <3>2. s2 = s /\ new[l].service = s
      BY <1>0, <2>1, <2>4, <3>1 DEF Written
    <3> QED BY <3>2
  <2> QED BY <2>2, <2>3, <2>4
<1>3. ASSUME q.input.kind \in Verified, q.phase = "SAVE"
      PROVE  ApartFrom(new, b2, s2)
  <2> SUFFICES ASSUME NEW l \in DOMAIN b2, NEW m \in Lines \ LinesIn(new, s2),
                      NEW c \in b2[l].claims, NEW d \in new[m].content.claims
               PROVE  ~Overlap(c, d)
    BY DEF ApartFrom
  <2>1. ApartFrom(ln, b2, s2)
    BY <1>3 DEF GoodLines
  <2>2. CASE m \notin DOMAIN b
    <3>1. new[m] = ln[m]
      BY <2>2 DEF Written, NoLine, NoContent
    <3> QED BY <2>1, <3>1 DEF ApartFrom, LinesIn
  <2>3. CASE m \in DOMAIN b /\ r.input.kind # "ATTACH"
    <3>1. <<"claim", d.op>> \in r.holds
      <4>1. d \in b[m].claims
        BY <2>3 DEF Written
      <4>2. d \in ClaimsOf(b)
        BY <2>3, <4>1 DEF ClaimsOf
      <4> QED BY <2>3, <4>2 DEF Saveable, ClaimLocks
    <3>2. <<"claim", c.op>> \in q.holds
      <4>1. c \in ClaimsOf(b2)
        BY DEF ClaimsOf
      <4>2. ClaimLocks(b2) \subseteq q.holds
        BY <1>3 DEF GoodLocks
      <4> QED BY <4>1, <4>2 DEF ClaimLocks
    <3>3. c.op # d.op
      BY <3>1, <3>2 DEF Apart
    <3> QED BY <3>3 DEF Overlap
  <2>4. CASE m \in DOMAIN b /\ r.input.kind = "ATTACH"
    <3>1. ln[m].service = s /\ b[m] = ln[m].content
      BY <2>4 DEF Saveable, BodyIn, LinesIn
    <3>2. new[m].service = s /\ new[m].content = ln[m].content
      BY <2>4, <3>1 DEF Written
    <3>3. m \in Lines \ LinesIn(ln, s2)
      BY <3>1, <3>2 DEF LinesIn
    <3> QED BY <2>1, <3>2, <3>3 DEF ApartFrom
  <2> QED BY <2>2, <2>3, <2>4
<1>4. ASSUME q.input.kind = "ATTACH", q.phase = "SAVE"
      PROVE  b2 = BodyIn(new, s2)
  <2>1. b2 = BodyIn(ln, s2) /\ <<"service", s2>> \in q.holds /\ s2 \in Services
    BY <1>4 DEF GoodLines, GoodLocks, GoodPhase, Updates
  <2>2. s2 # s
    BY <1>0, <2>1 DEF Saveable, Apart
  <2> QED BY <2>1, <2>2, OthersUntouched
<1>5. q.input.kind \in Verified /\ q.phase = "SAVE" => ApartWithin(b2)
  BY DEF GoodLines
<1> QED BY <1>2, <1>3, <1>4, <1>5 DEF GoodLines

LEMMA RequestStaysGood ==
  ASSUME NEW r, NEW q, NEW v, NEW w, NEW ln, NEW new, NEW pv, Saveable(r, ln),
         Written(ln, new, r.body, r.service), Advances(v, w, r.service),
         Apart(r, q), r.service # 0, GoodRequest(q, v, ln, pv)
  PROVE  GoodRequest(q, w, new, pv)
<1> DEFINE s == r.service
<1>0. s \in Services
  BY DEF Saveable
<1>1. \A u \in Services : v[u] \in Nat /\ w[u] \in Nat /\ (v[u] > 0 => w[u] > 0)
                          /\ (u # s => w[u] = v[u])
  BY <1>0 DEF Advances
<1>2. GoodInput(q.input, w, pv)
  BY <1>1 DEF GoodRequest, GoodInput
<1>3. GoodService(q, w)
  <2>1. q.service \in Services \cup {0} /\ GoodService(q, v)
    BY DEF GoodRequest, GoodService
  <2>2. CASE q.service = 0
    BY <2>1, <2>2 DEF GoodService
  <2>3. CASE q.service # 0 /\ q.input.kind = "CREATE"
    BY <1>1, <2>1, <2>3 DEF GoodService, Apart
  <2>4. CASE q.service # 0 /\ q.input.kind # "CREATE"
    BY <1>1, <2>1, <2>4 DEF GoodService
  <2> QED BY <2>2, <2>3, <2>4
<1>4. GoodLines(q, new)
  BY LinesStayGood DEF GoodRequest, GoodService
<1>5. GoodShown(q, w, new)
  <2>1. ASSUME q.input.kind = "PREVIEW", q.phase \in {"LINES", "CLAIMS"}
        PROVE  Current(w, new, q.service, q.input.version, q.before)
    <3>1. Current(v, ln, q.service, q.input.version, q.before)
      BY <2>1 DEF GoodRequest, GoodShown
    <3> QED BY <3>1, StaysCurrent
  <2>2. ASSUME q.input.kind = "CORRECT", q.phase \in {"LINES", "CLAIMS", "SAVE"}
        PROVE  w[q.service] = v[q.service]
    <3>1. <<"service", q.service>> \in q.holds /\ q.service \in Services
      BY <2>2 DEF GoodRequest, GoodLocks, GoodPhase, Updates
    <3>2. q.service # s
      BY <3>1 DEF Saveable, Apart
    <3> QED BY <1>1, <3>1, <3>2
  <2> QED BY <2>1, <2>2 DEF GoodRequest, GoodShown
<1> QED BY <1>2, <1>3, <1>4, <1>5 DEF GoodRequest
LEMMA SaveGood ==
  ASSUME IInv, NEW p \in Requests, Save(p)
  PROVE  IInv'
<1> DEFINE r == req[p]
           s == r.service
<1>1. r.phase = "SAVE" /\ r.input.kind # "DOCUMENT"
  BY DEF Save, At, Is
<1>2. Saveable(r, line)
  BY <1>1, SaveableNow
<1>3. s \in Services /\ s # 0
  BY <1>2, AnalysisAssumption DEF Saveable
<1>4. Written(line, line', r.body, s)
  BY DEF Save, Written
<1>5. /\ version' = [version EXCEPT ![s] = @ + 1]
      /\ version \in [Services -> Nat] /\ version' \in [Services -> Nat]
      /\ req' = [req EXCEPT ![p] = NoRequest]
      /\ UNCHANGED previews
      /\ Advances(version, version', s)
  BY <1>3 DEF Save, Ends, IInv, Advances
<1>6. \A q \in Requests : GoodRequest(req'[q], version', line', previews')
  <2> SUFFICES ASSUME NEW q \in Requests
               PROVE  GoodRequest(req'[q], version', line', previews)
    BY <1>5
  <2>1. CASE q = p
    BY <1>5, <2>1, NoRequestGood DEF IInv
  <2>2. CASE q # p
    <3>1. req'[q] = req[q]
      BY <1>5, <2>2 DEF IInv
    <3>2. Apart(r, req[q]) /\ GoodRequest(req[q], version, line, previews)
      BY <2>2 DEF IInv
    <3> QED BY <1>2, <1>3, <1>4, <1>5, <3>1, <3>2, RequestStaysGood
  <2> QED BY <2>1, <2>2
<1>7. \A q1, q2 \in Requests : q1 # q2 => Apart(req'[q1], req'[q2])
  <2>1. \A x : Apart(NoRequest, x) /\ Apart(x, NoRequest)
    BY NoRequestGood DEF Apart
  <2> QED BY <1>5, <2>1 DEF IInv
<1>8. \A k \in Keys : GoodInput(receipts'[k].input, version', previews')
  <2>1. \A k \in Keys : receipts'[k].input \in {receipts[k].input, r.input}
    BY DEF Save, Receive, IInv
  <2>2. \A k \in Keys : GoodInput(receipts'[k].input, version, previews)
    BY <2>1 DEF IInv, GoodRequest
  <2>3. \A u \in Services : version[u] > 0 => version'[u] > 0
    BY <1>3, <1>5
  <2> QED BY <1>5, <2>2, <2>3 DEF GoodInput
<1>9. GoodTokens(version', line', previews')
  <2> SUFFICES ASSUME NEW t \in previews
               PROVE  Current(version', line', t.service, t.version, t.before)
    BY <1>5 DEF GoodTokens
  <2>1. Current(version, line, t.service, t.version, t.before)
    BY DEF IInv, GoodTokens
  <2> QED BY <1>2, <1>4, <1>5, <2>1, StaysCurrent
<1>10. Disjoint(line')
  <2>1. Disjoint(line)
    BY DEF IInv
  <2> QED BY <1>2, <1>4, <2>1, StaysDisjoint
<1>11. DOMAIN req' = Requests /\ DOMAIN receipts' = Keys
  BY <1>5 DEF IInv, Save, Receive
<1> QED BY <1>5, <1>6, <1>7, <1>8, <1>9, <1>10, <1>11 DEF IInv

-----------------------------------------------------------------------------
LEMMA IdleGood ==
  ASSUME IInv, NEW p \in Requests, Replay(p) \/ Abort(p)
  PROVE  IInv'
<1>1. Ends(p) /\ UNCHANGED <<version, line, receipts, previews>>
  BY DEF Replay, Abort, tables
<1>2. GoodTokens(version, line, previews)
  BY DEF IInv
<1> QED BY <1>1, <1>2, EndsGood

LEMMA RowsGood ==
  ASSUME IInv, NEW p \in Requests, CompleteRow(p) \/ CorrectRow(p) \/ PreviewRow(p)
  PROVE  IInv'
<1>1. CASE CompleteRow(p)
  BY <1>1, ReadsRowGood DEF CompleteRow, Is
<1>2. CASE CorrectRow(p)
  BY <1>2, ReadsRowGood DEF CorrectRow, ShownNow, Is
<1>3. CASE PreviewRow(p)
  BY <1>3, ReadsRowGood DEF PreviewRow, Is
<1> QED BY <1>1, <1>2, <1>3

LEMMA StepGood == IInv /\ [Next]_vars => IInv'
<1> SUFFICES ASSUME IInv, [Next]_vars PROVE IInv'
  OBVIOUS
<1>1. CASE UNCHANGED vars
  BY <1>1 DEF vars, tables, IInv
<1>2. CASE Next
  <2>1. PICK p \in Requests :
           \/ Asks(p)
           \/ \E l \in req[p].pending : Acquire(p, l)
           \/ Starts(p)
           \/ Works(p)
           \/ Abort(p)
    BY <1>2 DEF Next
  <2>2. CASE Asks(p)
    BY <2>2, AsksGood
  <2>3. CASE \E l \in req[p].pending : Acquire(p, l)
    BY <2>3, AcquireGood
  <2>4. CASE Starts(p)
    BY <2>4, IdleGood, StartCreateGood, StartServiceGood, StartDocumentGood DEF Starts
  <2>5. CASE Works(p)
    BY <2>5, RowsGood, AttachRowGood, VerifyLinesGood, VerifyClaimsGood, SignPreviewGood,
       SaveGood, DocumentGood, SaveDocumentGood DEF Works
  <2>6. CASE Abort(p)
    BY <2>6, IdleGood
  <2> QED BY <2>1, <2>2, <2>3, <2>4, <2>5, <2>6
<1> QED BY <1>1, <1>2

LEMMA Inductive == Spec => []IInv
<1>1. Init => IInv
  BY InitGood
<1>2. IInv /\ [Next]_vars => IInv'
  BY StepGood
<1> QED BY <1>1, <1>2, PTL DEF Spec

(* No piece of an external operation of the inventory is ever counted by   *)
(* two cost lines, or twice by one, however the services, lines and        *)
(* operations are named and whatever the forms hold.                       *)
THEOREM ClaimsAreDisjoint == Spec => []ClaimsDisjoint
<1>1. IInv => ClaimsDisjoint
  BY Readings DEF IInv
<1> QED BY <1>1, Inductive, PTL

(* A correction replaces what its preview showed: the version in the token *)
(* is that of the row under the lock of the service, and every save of a   *)
(* service gives it another version.                                       *)
THEOREM CorrectionsAreThoseShown == Spec => []CorrectsWhatWasShown
<1>1. IInv => CorrectsWhatWasShown
  <2> SUFFICES ASSUME IInv, NEW p \in Requests, At(p, "SAVE"), Is(p, {"CORRECT"})
               PROVE  /\ BodyOf(req[p].service) = req[p].input.token.before
                      /\ req[p].body = req[p].input.token.after
    BY DEF CorrectsWhatWasShown
  <2> DEFINE t == req[p].input.token
  <2>1. /\ t \in previews /\ t.service = req[p].service
        /\ t.version = version[req[p].service] /\ t.after = req[p].body
    BY DEF IInv, GoodRequest, GoodInput, GoodShown, At, Is
  <2>2. Current(version, line, t.service, t.version, t.before)
    BY <2>1 DEF IInv, GoodTokens
  <2>3. t.before = BodyIn(line, t.service)
    BY <2>1, <2>2 DEF Current
  <2> QED BY <2>1, <2>3, Readings
<1> QED BY <1>1, Inductive, PTL
-----------------------------------------------------------------------------
(* The second invariant, of what requests lock, keys and documents.        *)
OfForm(b) == DOMAIN b \subseteq Lines /\ \A l \in DOMAIN b : b[l].claims \subseteq Claim

GoodForm(x) == x.lines \subseteq Lines /\ OfForm(x.body)

(* A command that has passed its receipt holds its key, which is unused.   *)
GoodKey(r, rc) ==
    r.phase # "READY" /\ r.input.kind # "PREVIEW" =>
      /\ r.key \in Keys /\ CommandLock(r.key) \in r.holds \cup r.pending
      /\ r.phase # "RECEIPT" => CommandLock(r.key) \in r.holds /\ rc[r.key] = NoReceipt

GoodGroup(r) ==
    /\ r.input.kind # "DOCUMENT" => r.group = NULL
    /\ r.input.kind = "DOCUMENT" => r.service = 0
    /\ r.input.kind = "DOCUMENT" /\ r.phase \notin {"READY", "RECEIPT"} => r.group \in Groups

(* Locks are taken in stages, and within a stage in the order of numbers.  *)
Level(l) ==
    IF l[1] = "command" THEN 1 ELSE IF l[1] = "document" THEN 2
    ELSE IF l[1] = "service" THEN 3 ELSE IF l[1] = "cost-line" THEN 4 ELSE 5

Stage(r) ==
    IF r.phase = "RECEIPT" THEN 1 ELSE IF r.phase = "ROW" /\ r.input.kind = "DOCUMENT" THEN 2
    ELSE IF r.phase \in {"ROW", "REVIEW"} THEN 3 ELSE IF r.phase = "LINES" THEN 4 ELSE 5

Before(h, l) == Level(h) < Level(l) \/ (Level(h) = Level(l) /\ Level(l) >= 3 /\ h[2] < l[2])

Numbered(l) == l = <<l[1], l[2]>> /\ l[2] \in Nat

InOrder(r) ==
    /\ \A l \in r.pending : Level(l) = Stage(r)
    /\ \A h \in r.holds : Level(h) <= Stage(r)
    /\ \A h \in r.holds, l \in r.pending : Before(h, l)
    /\ Stage(r) <= 2 => \A l, m \in r.pending : l = m
    /\ \A l \in r.holds \cup r.pending : Level(l) >= 3 => Numbered(l)
    /\ \A l, m \in r.pending : l[1] = m[1]

(* The services that are locked exist.                                     *)
Owned(r, v) ==
    \A s : <<"service", s>> \in r.holds \cup r.pending => s \in Services /\ v[s] > 0

GoodForms(r) == GoodForm(r.input) /\ (r.phase \in {"LINES", "CLAIMS"} => OfForm(r.body))

AmountIn(ln, l) == IF ln[l].content.money = NULL THEN 0 ELSE ln[l].content.money
TotalIn(ln, ls) == SumFunction([l \in ls |-> AmountIn(ln, l)])
GuardedIn(r, ln) == \A l \in DOMAIN r.read : <<"service", ln[l].service>> \in r.holds

(* What a document read under the locks of the services is still so.       *)
GoodRead(r, ln) ==
    r.phase = "SAVE" /\ r.input.kind = "DOCUMENT" =>
      /\ DOMAIN r.read \subseteq Lines
      /\ GuardedIn(r, ln) => /\ \A l \in DOMAIN r.read : r.read[l] = ln[l].version
                             /\ TotalIn(ln, DOMAIN r.read) = r.input.total

Sound(r, v, ln, rc) ==
    /\ GoodKey(r, rc) /\ GoodGroup(r) /\ InOrder(r) /\ Owned(r, v)
    /\ GoodForms(r) /\ GoodRead(r, ln)

Rows(v, ln) ==
    \A l \in Lines : ln[l].service # 0 =>
       /\ ln[l].service \in Services
       /\ ln[l].version \in Nat /\ 0 < ln[l].version /\ ln[l].version <= v[ln[l].service]

AllocatedIn(al, g) == {l \in Lines : al[l].group = g}

(* The version of a line tells whether it is as it was when it was         *)
(* allocated: allocated lines stay, and their versions only grow.          *)
Billed(ln, dc, al) ==
    /\ \A l \in Lines : al[l].group \in Groups => ln[l].service # 0
    /\ \A g \in Groups : dc[g].guarded =>
         /\ \A l \in AllocatedIn(al, g) : al[l].version \in Nat /\ al[l].version <= ln[l].version
         /\ dc[g].version > 0 /\ (\A l \in AllocatedIn(al, g) : al[l].version = ln[l].version)
            => TotalIn(ln, AllocatedIn(al, g)) = dc[g].total

Counted(v, dc, rc) ==
    /\ \A s \in Services : v[s] = Cardinality({k \in Keys : rc[k].service = s})
    /\ \A g \in Groups : dc[g].version = Cardinality({k \in Keys : rc[k].group = g})

Answers(rc) == \A k \in Keys : rc[k].input.kind # "PREVIEW" /\ GoodForm(rc[k].input)

DInv ==
    /\ \A p \in Requests : Sound(req[p], version, line, receipts)
    /\ Answers(receipts)
    /\ \A t \in previews : OfForm(t.after)
    /\ Rows(version, line)
    /\ DOMAIN document = Groups
    /\ Billed(line, document, allocation)
    /\ Counted(version, document, receipts)

LEMMA NoRequestSound ==
  ASSUME NEW v, NEW ln, NEW rc
  PROVE  Sound(NoRequest, v, ln, rc)
BY DEF Sound, GoodKey, GoodGroup, InOrder, Owned, GoodForms, GoodForm, OfForm, GoodRead,
       NoRequest, NoInput, NoBody

LEMMA InitDInv == Init => DInv
<1> SUFFICES ASSUME Init PROVE DInv
  OBVIOUS
<1>1. \A p \in Requests : Sound(req[p], version, line, receipts)
  BY NoRequestSound DEF Init
<1>2. Answers(receipts)
  BY DEF Init, Answers, NoReceipt, NoInput, GoodForm, OfForm, NoBody
<1>3. Rows(version, line)
  BY DEF Init, Rows, NoLine
<1>4. 0 \notin Services /\ NULL \notin Groups
  BY AnalysisAssumption
<1>5. Billed(line, document, allocation)
  BY <1>4 DEF Init, Billed, NoAllocation, NoDocument, AllocatedIn
<1>6. Counted(version, document, receipts)
  <2>1. \A s \in Services : {k \in Keys : receipts[k].service = s} = {}
    BY <1>4 DEF Init, NoReceipt
  <2>2. \A g \in Groups : {k \in Keys : receipts[k].group = g} = {}
    BY <1>4 DEF Init, NoReceipt
  <2> QED BY <2>1, <2>2, FS_EmptySet DEF Init, Counted, NoDocument
<1> QED BY <1>1, <1>2, <1>3, <1>5, <1>6 DEF DInv, Init

(* A step of one request that leaves the tables alone.                     *)
LEMMA SoundStep ==
  ASSUME IInv, DInv, NEW p \in Requests, UNCHANGED tables,
         req' = [req EXCEPT ![p] = req'[p]],
         Sound(req'[p], version, line, receipts),
         \A t \in previews' : OfForm(t.after)
  PROVE  DInv'
<1>1. UNCHANGED <<version, line, document, allocation, receipts>> BY DEF tables
<1>2. \A q \in Requests : Sound(req'[q], version, line, receipts)
  BY DEF IInv, DInv
<1> QED BY <1>1, <1>2 DEF DInv

(* A command that has its key goes on to another phase, which takes locks  *)
(* of a later stage.                                                       *)
LEMMA Advance ==
  ASSUME NEW r, NEW r2, NEW v, NEW ln, NEW rc, Sound(r, v, ln, rc),
         r.phase # "READY", r.pending = {}, r2.phase # "RECEIPT",
         r2.holds = r.holds, r2.key = r.key, r2.input = r.input,
         r.phase = "RECEIPT" => rc[r.key] = NoReceipt,
         Stage(r) <= Stage(r2), r2.pending # {} => Stage(r) < Stage(r2),
         \A l \in r2.pending : Level(l) = Stage(r2),
         \A l \in r2.pending : Stage(r2) >= 3 => Numbered(l),
         Stage(r2) <= 2 => \A l, m \in r2.pending : l = m,
         \A l, m \in r2.pending : l[1] = m[1],
         \A s : <<"service", s>> \in r2.pending => s \in Services /\ v[s] > 0
  PROVE  GoodKey(r2, rc) /\ InOrder(r2) /\ Owned(r2, v)
<1>1. GoodKey(r2, rc)
  BY DEF Sound, GoodKey
<1>2. Owned(r2, v)
  BY DEF Sound, Owned
<1>3. InOrder(r2)
  <2>1. \A h \in r.holds : Level(h) <= Stage(r) /\ (Level(h) >= 3 => Numbered(h))
    BY DEF Sound, InOrder
  <2>2. /\ \A l : Level(l) \in 1..5
        /\ Stage(r) \in 1..5 /\ Stage(r2) \in 1..5
    BY DEF Level, Stage
  <2> QED BY <2>1, <2>2 DEF InOrder, Before
<1> QED BY <1>1, <1>2, <1>3

LEMMA AcquireSound ==
  ASSUME IInv, DInv, NEW p \in Requests, NEW l \in req[p].pending, Acquire(p, l)
  PROVE  DInv'
<1> DEFINE r == req[p]
<1>1. GoodRequest(r, version, line, previews) /\ Sound(r, version, line, receipts)
  BY DEF IInv, DInv
<1>2. /\ req'[p].holds = r.holds \cup {l} /\ req'[p].pending = r.pending \ {l}
      /\ req'[p].phase = r.phase /\ req'[p].input = r.input /\ req'[p].body = r.body
      /\ req'[p].service = r.service /\ req'[p].key = r.key /\ req'[p].group = r.group
      /\ req' = [req EXCEPT ![p] = req'[p]]
  BY <1>1 DEF Acquire, GoodRequest, Shape, IInv
<1>3. /\ UNCHANGED tables /\ UNCHANGED previews
      /\ \A m \in r.pending \ {l} : l[2] < m[2]
  BY DEF Acquire, Wanted
<1>4. r.phase # "SAVE"
  BY <1>1 DEF GoodRequest, GoodLocks
<1>5. InOrder(req'[p])
  <2>1. Stage(req'[p]) = Stage(r) BY <1>2 DEF Stage
  <2>2. Stage(r) \in 1..5 /\ \A m : Level(m) \in 1..5 BY DEF Stage, Level
  <2>3. InOrder(r) BY <1>1 DEF Sound
  <2>4. \A m \in r.pending \ {l} : Before(l, m)
    BY <1>3, <2>2, <2>3 DEF InOrder, Before
  <2> HIDE DEF r
  <2>5. r.pending \ {l} \subseteq r.pending /\ l \in r.pending BY DEF r
  <2>6. \A h \in req'[p].holds : Level(h) <= Stage(r)
    BY <1>2, <2>2, <2>3, <2>5 DEF InOrder
  <2>7. \A h \in req'[p].holds, m \in req'[p].pending : Before(h, m)
    BY <1>2, <2>3, <2>4, <2>5 DEF InOrder
  <2> QED BY <1>2, <2>1, <2>3, <2>5, <2>6, <2>7 DEF InOrder
<1>6. Sound(req'[p], version, line, receipts)
  <2>1. GoodKey(req'[p], receipts) BY <1>1, <1>2 DEF Sound, GoodKey
  <2>2. GoodGroup(req'[p]) BY <1>1, <1>2 DEF Sound, GoodGroup
  <2>3. Owned(req'[p], version) BY <1>1, <1>2 DEF Sound, Owned
  <2>4. GoodForms(req'[p]) BY <1>1, <1>2 DEF Sound, GoodForms
  <2>5. GoodRead(req'[p], line) BY <1>2, <1>4 DEF GoodRead
  <2> QED BY <1>5, <2>1, <2>2, <2>3, <2>4, <2>5 DEF Sound
<1> QED BY <1>2, <1>3, <1>6, SoundStep DEF DInv
LEMMA CommandSound ==
  ASSUME IInv, DInv, NEW p \in Requests, NEW k \in Keys, NEW x, Command(p, k, x),
         x.kind # "PREVIEW", GoodForm(x)
  PROVE  DInv'
<1> DEFINE lock == CommandLock(k)
<1>1. /\ req'[p] = [NoRequest EXCEPT !.phase = "RECEIPT", !.key = k, !.input = x,
                                     !.pending = {lock}]
      /\ req' = [req EXCEPT ![p] = req'[p]]
      /\ UNCHANGED tables /\ UNCHANGED previews
  BY DEF Command, Begin, IInv
<1>2. lock[1] = "command" /\ \A s : lock # <<"service", s>>
  BY DEF CommandLock
<1> HIDE DEF lock
<1>3. /\ req'[p].phase = "RECEIPT" /\ req'[p].key = k /\ req'[p].input = x
      /\ req'[p].pending = {lock} /\ req'[p].holds = {}
      /\ req'[p].service = 0 /\ req'[p].group = NULL
  BY <1>1 DEF NoRequest
<1>4. GoodKey(req'[p], receipts) BY <1>3 DEF GoodKey, lock
<1>5. InOrder(req'[p]) BY <1>2, <1>3 DEF InOrder, Level, Stage
<1>6. Owned(req'[p], version) BY <1>2, <1>3 DEF Owned
<1>7. Sound(req'[p], version, line, receipts)
  BY <1>3, <1>4, <1>5, <1>6 DEF Sound, GoodGroup, GoodForms, GoodRead
<1> QED BY <1>1, <1>7, SoundStep DEF DInv

LEMMA PreviewSound ==
  ASSUME IInv, DInv, NEW p \in Requests, NEW s \in Registered, NEW b, OfForm(b), Preview(p, s, b)
  PROVE  DInv'
<1> DEFINE x == ServiceForm("PREVIEW", s, b)
<1>1. GoodForm(x) /\ x.kind = "PREVIEW"
  BY DEF ServiceForm, NoInput, GoodForm
<1>2. /\ req'[p] = [NoRequest EXCEPT !.phase = "ROW", !.service = s, !.input = x]
      /\ req' = [req EXCEPT ![p] = req'[p]]
      /\ UNCHANGED tables /\ UNCHANGED previews
  BY DEF Preview, Begin, IInv
<1> HIDE DEF x
<1>3. Sound(req'[p], version, line, receipts)
  BY <1>1, <1>2 DEF Sound, GoodKey, GoodGroup, InOrder, Owned, GoodForms, GoodRead, NoRequest
<1> QED BY <1>2, <1>3, SoundStep DEF DInv

LEMMA BodiesGood == \A b \in Bodies : OfForm(b)
<1> SUFFICES ASSUME NEW b \in Bodies PROVE OfForm(b)
  OBVIOUS
<1>1. DOMAIN b \subseteq Lines /\ b \in [DOMAIN b -> Content]
  BY AnalysisAssumption
<1>2. \A l \in DOMAIN b : b[l] \in Content
  BY <1>1
<1> QED BY <1>1, <1>2 DEF OfForm, Content

LEMMA AsksSound ==
  ASSUME IInv, DInv, NEW p \in Requests, Asks(p)
  PROVE  DInv'
<1>1. CASE \E s \in Registered, b \in Bodies : Preview(p, s, b)
  BY <1>1, PreviewSound, BodiesGood
<1>2. ASSUME NEW k \in Keys, Repeats(p, k)
      PROVE  DInv'
  BY <1>2, CommandSound DEF Repeats, DInv, Answers
<1>3. ASSUME NEW k \in Keys, Sends(p, k)
      PROVE  DInv'
  <2>1. ASSUME NEW b \in Bodies, Command(p, k, CreateForm(b)) PROVE DInv'
    <3>1. CreateForm(b).kind # "PREVIEW" /\ GoodForm(CreateForm(b))
      BY BodiesGood DEF CreateForm, NoInput, GoodForm
    <3> QED BY <2>1, <3>1, CommandSound
  <2>2. ASSUME NEW s \in Registered, NEW b \in Bodies, Command(p, k, ServiceForm("COMPLETE", s, b))
        PROVE  DInv'
    <3>1. ServiceForm("COMPLETE", s, b).kind # "PREVIEW" /\ GoodForm(ServiceForm("COMPLETE", s, b))
      BY BodiesGood DEF ServiceForm, NoInput, GoodForm
    <3> QED BY <2>2, <3>1, CommandSound
  <2>3. ASSUME NEW t \in previews, NEW u \in previews, Command(p, k, CorrectForm(t, u.after))
        PROVE  DInv'
    <3> DEFINE x == CorrectForm(t, u.after)
    <3>1. OfForm(u.after) BY DEF DInv
    <3>2. x.kind = "CORRECT" /\ x.body = u.after /\ x.lines = {}
      BY DEF CorrectForm, ServiceForm, NoInput
    <3> HIDE DEF x
    <3>3. GoodForm(x) BY <3>1, <3>2 DEF GoodForm
    <3> QED BY <2>3, <3>2, <3>3, CommandSound DEF x
  <2>4. ASSUME NEW s \in Registered, Command(p, k, AttachForm(s)) PROVE DInv'
    <3>1. AttachForm(s).kind # "PREVIEW" /\ GoodForm(AttachForm(s))
      BY DEF AttachForm, NoInput, GoodForm, OfForm, NoBody
    <3> QED BY <2>4, <3>1, CommandSound
  <2>5. ASSUME NEW g, NEW ls \in SUBSET Lines, Command(p, k, DocumentForm(g, ls)) PROVE DInv'
    <3> DEFINE x == DocumentForm(g, ls)
    <3>1. x.kind = "DOCUMENT" /\ x.lines = ls /\ x.body = NoBody
      BY DEF DocumentForm, NoInput
    <3> HIDE DEF x
    <3>2. GoodForm(x) BY <3>1 DEF GoodForm, OfForm, NoBody
    <3> QED BY <2>5, <3>1, <3>2, CommandSound DEF x
  <2> QED BY <1>3, <2>1, <2>2, <2>3, <2>4, <2>5 DEF Sends
<1> QED BY <1>1, <1>2, <1>3 DEF Asks

-----------------------------------------------------------------------------
(* The locks of each stage.                                                *)
LEMMA Locks ==
  /\ \A s \in Services : LET l == <<"service", s>>
                         IN  Level(l) = 3 /\ Numbered(l)
  /\ \A b : OfForm(b) =>
       /\ \A l \in LineLocks(b) : Level(l) = 4 /\ Numbered(l) /\ l[1] = "cost-line"
       /\ \A l \in ClaimLocks(b) : Level(l) = 5 /\ Numbered(l) /\ l[1] = "claim"
       /\ \A s : <<"service", s>> \notin LineLocks(b) \cup ClaimLocks(b)
<1>1. Services \subseteq Nat /\ Lines \subseteq Nat /\ Ops \subseteq Nat
  BY AnalysisAssumption
<1>2. \A s \in Nat : Numbered(<<"service", s>>) /\ Numbered(<<"cost-line", s>>)
                     /\ Numbered(<<"claim", s>>)
  BY DEF Numbered
<1>3. \A s : Level(<<"service", s>>) = 3 /\ Level(<<"cost-line", s>>) = 4
             /\ Level(<<"claim", s>>) = 5
  BY DEF Level
<1>4. ASSUME NEW b, OfForm(b)
      PROVE  /\ \A l \in LineLocks(b) : Level(l) = 4 /\ Numbered(l) /\ l[1] = "cost-line"
             /\ \A l \in ClaimLocks(b) : Level(l) = 5 /\ Numbered(l) /\ l[1] = "claim"
             /\ \A s : <<"service", s>> \notin LineLocks(b) \cup ClaimLocks(b)
  <2>1. \A l \in LineLocks(b) : \E n \in Nat : l = <<"cost-line", n>>
    BY <1>1, <1>4 DEF LineLocks, OfForm
  <2>2. \A c \in ClaimsOf(b) : c.op \in Nat
    <3>1. \A c \in ClaimsOf(b) : \E l \in DOMAIN b : c \in b[l].claims
      BY DEF ClaimsOf
    <3>2. \A c \in ClaimsOf(b) : c \in Claim
      BY <1>4, <3>1 DEF OfForm
    <3> QED BY <1>1, <3>2 DEF Claim
  <2>3. \A l \in ClaimLocks(b) : \E n \in Nat : l = <<"claim", n>>
    BY <2>2 DEF ClaimLocks
  <2>4. \A l \in LineLocks(b) : Level(l) = 4 /\ Numbered(l) /\ l[1] = "cost-line"
    <3> SUFFICES ASSUME NEW l \in LineLocks(b)
                 PROVE  Level(l) = 4 /\ Numbered(l) /\ l[1] = "cost-line"
      OBVIOUS
    <3>1. PICK n \in Nat : l = <<"cost-line", n>> BY <2>1
    <3> QED BY <1>2, <1>3, <3>1
  <2>5. \A l \in ClaimLocks(b) : Level(l) = 5 /\ Numbered(l) /\ l[1] = "claim"
    <3> SUFFICES ASSUME NEW l \in ClaimLocks(b)
                 PROVE  Level(l) = 5 /\ Numbered(l) /\ l[1] = "claim"
      OBVIOUS
    <3>1. PICK n \in Nat : l = <<"claim", n>> BY <2>3
    <3> QED BY <1>2, <1>3, <3>1
  <2>6. \A s : <<"service", s>> \notin LineLocks(b) \cup ClaimLocks(b)
    BY <1>3, <2>4, <2>5
  <2> QED BY <2>4, <2>5, <2>6
<1> QED BY <1>1, <1>2, <1>3, <1>4

LEMMA StartCreateSound ==
  ASSUME IInv, DInv, NEW p \in Requests, NEW s \in Services, StartCreate(p, s)
  PROVE  DInv'
<1> DEFINE r == req[p]
           b == req[p].input.body
<1>1. GoodRequest(r, version, line, previews) /\ Sound(r, version, line, receipts)
  BY DEF IInv, DInv
<1>2. /\ req'[p].holds = r.holds /\ req'[p].pending = LineLocks(b) /\ req'[p].key = r.key
      /\ req'[p].phase = "LINES" /\ req'[p].input = r.input /\ req'[p].body = b
      /\ req'[p].group = r.group /\ req' = [req EXCEPT ![p] = req'[p]]
  BY <1>1 DEF StartCreate, GoodRequest, Shape, IInv
<1>3. /\ UNCHANGED tables /\ UNCHANGED previews /\ r.input.kind = "CREATE"
      /\ r.phase = "RECEIPT" /\ r.pending = {} /\ receipts[r.key] = NoReceipt
  BY DEF StartCreate, At, Unused, Is
<1>4. OfForm(b) BY <1>1 DEF Sound, GoodForms, GoodForm
<1>5. Stage(r) = 1 /\ Stage(req'[p]) = 4 BY <1>2, <1>3 DEF Stage
<1> HIDE DEF b, r
<1>6. GoodKey(req'[p], receipts) /\ InOrder(req'[p]) /\ Owned(req'[p], version)
  BY <1>1, <1>2, <1>3, <1>4, <1>5, Locks, Advance, SMTT(30)
<1>7. Sound(req'[p], version, line, receipts)
  BY <1>1, <1>2, <1>3, <1>4, <1>6 DEF Sound, GoodGroup, GoodForms, GoodRead
<1> QED BY <1>2, <1>3, <1>7, SoundStep DEF DInv

LEMMA StartServiceSound ==
  ASSUME IInv, DInv, NEW p \in Requests, StartService(p)
  PROVE  DInv'
<1> DEFINE r == req[p]
           s == req[p].input.service
           lock == <<"service", s>>
<1>1. GoodRequest(r, version, line, previews) /\ Sound(r, version, line, receipts)
  BY DEF IInv, DInv
<1>2. /\ req'[p].holds = r.holds /\ req'[p].pending = {lock} /\ req'[p].key = r.key
      /\ req'[p].phase = "ROW" /\ req'[p].input = r.input
      /\ req'[p].group = r.group /\ req' = [req EXCEPT ![p] = req'[p]]
  BY <1>1 DEF StartService, GoodRequest, Shape, IInv, ServiceLocks
<1>3. /\ UNCHANGED tables /\ UNCHANGED previews /\ r.input.kind \in Updates
      /\ r.phase = "RECEIPT" /\ r.pending = {} /\ receipts[r.key] = NoReceipt
  BY DEF StartService, At, Unused, Is, Updates
<1>4. s \in Services /\ version[s] > 0
  BY <1>1, <1>3 DEF GoodRequest, GoodInput
<1>5. Stage(r) = 1 /\ Stage(req'[p]) = 3 BY <1>2, <1>3 DEF Stage, Updates
<1>6. Level(lock) = 3 /\ Numbered(lock) BY <1>4, Locks
<1>7. \A u : <<"service", u>> = lock => u = s OBVIOUS
<1> HIDE DEF lock, s, r
<1>8. GoodKey(req'[p], receipts) /\ InOrder(req'[p]) /\ Owned(req'[p], version)
  BY <1>1, <1>2, <1>3, <1>4, <1>5, <1>6, <1>7, Advance
<1>9. Sound(req'[p], version, line, receipts)
  BY <1>1, <1>2, <1>3, <1>8 DEF Sound, GoodGroup, GoodForms, GoodRead, Updates
<1> QED BY <1>2, <1>3, <1>9, SoundStep DEF DInv

LEMMA StartDocumentSound ==
  ASSUME IInv, DInv, NEW p \in Requests, NEW g \in Groups, StartDocument(p, g)
  PROVE  DInv'
<1> DEFINE r == req[p]
           lock == DocumentLock(g)
<1>1. GoodRequest(r, version, line, previews) /\ Sound(r, version, line, receipts)
  BY DEF IInv, DInv
<1>2. /\ req'[p].holds = r.holds /\ req'[p].pending = {lock} /\ req'[p].key = r.key
      /\ req'[p].phase = "ROW" /\ req'[p].input = r.input /\ req'[p].service = r.service
      /\ req'[p].group = g /\ req' = [req EXCEPT ![p] = req'[p]]
  BY <1>1 DEF StartDocument, GoodRequest, Shape, IInv
<1>3. /\ UNCHANGED tables /\ UNCHANGED previews /\ r.input.kind = "DOCUMENT"
      /\ r.phase = "RECEIPT" /\ r.pending = {} /\ receipts[r.key] = NoReceipt
  BY DEF StartDocument, At, Unused, Is
<1>4. Stage(r) = 1 /\ Stage(req'[p]) = 2 BY <1>2, <1>3 DEF Stage
<1>5. Level(lock) = 2 /\ \A u : <<"service", u>> # lock BY DEF DocumentLock, Level
<1> HIDE DEF lock, r
<1>6. GoodKey(req'[p], receipts) /\ InOrder(req'[p]) /\ Owned(req'[p], version)
  BY <1>1, <1>2, <1>3, <1>4, <1>5, Advance
<1>7. Sound(req'[p], version, line, receipts)
  BY <1>1, <1>2, <1>3, <1>6 DEF Sound, GoodGroup, GoodForms, GoodRead
<1> QED BY <1>2, <1>3, <1>7, SoundStep DEF DInv

LEMMA ReadsRowSound ==
  ASSUME IInv, DInv, NEW p \in Requests, NEW checked,
         ReadsRow(p, req[p].service, req[p].input.body, checked),
         req[p].input.kind \in {"COMPLETE", "CORRECT", "PREVIEW"}
  PROVE  DInv'
<1> DEFINE r == req[p]
           b == req[p].input.body
<1>1. GoodRequest(r, version, line, previews) /\ Sound(r, version, line, receipts)
  BY DEF IInv, DInv
<1>2. /\ req'[p].holds = r.holds /\ req'[p].pending = LineLocks(b) /\ req'[p].key = r.key
      /\ req'[p].phase = "LINES" /\ req'[p].input = r.input /\ req'[p].body = b
      /\ req'[p].group = r.group /\ req' = [req EXCEPT ![p] = req'[p]]
  BY <1>1 DEF ReadsRow, GoodRequest, Shape, IInv
<1>3. /\ UNCHANGED tables /\ UNCHANGED previews /\ r.phase = "ROW" /\ r.pending = {}
  BY DEF ReadsRow, At
<1>4. OfForm(b) BY <1>1 DEF Sound, GoodForms, GoodForm
<1>5. Stage(r) = 3 /\ Stage(req'[p]) = 4 BY <1>2, <1>3 DEF Stage
<1>6. r.input.kind # "DOCUMENT" OBVIOUS
<1> HIDE DEF b, r
<1>7. GoodKey(req'[p], receipts) /\ InOrder(req'[p]) /\ Owned(req'[p], version)
  BY <1>1, <1>2, <1>3, <1>4, <1>5, Locks, Advance
<1>8. Sound(req'[p], version, line, receipts)
  BY <1>1, <1>2, <1>3, <1>4, <1>6, <1>7 DEF Sound, GoodGroup, GoodForms, GoodRead
<1> QED BY <1>2, <1>3, <1>8, SoundStep DEF DInv

(* An attachment is about to be saved, and so is what has been verified:   *)
(* nothing more is locked.                                                 *)
LEMMA ToSaveSound ==
  ASSUME IInv, DInv, NEW p \in Requests, AttachRow(p) \/ VerifyClaims(p)
  PROVE  DInv'
<1> DEFINE r == req[p]
<1>1. GoodRequest(r, version, line, previews) /\ Sound(r, version, line, receipts)
  BY DEF IInv, DInv
<1>2. /\ UNCHANGED tables /\ UNCHANGED previews
      /\ r.phase \in {"ROW", "CLAIMS"} /\ r.pending = {} /\ r.input.kind # "DOCUMENT"
  BY <1>1 DEF AttachRow, VerifyClaims, Goes, At, Is, GoodRequest, GoodPhase, Verified
<1>3. /\ req'[p].holds = r.holds /\ req'[p].pending = {} /\ req'[p].key = r.key
      /\ req'[p].phase = "SAVE" /\ req'[p].input = r.input
      /\ req'[p].group = r.group /\ req' = [req EXCEPT ![p] = req'[p]]
  <2>1. CASE AttachRow(p)
    BY <1>1, <1>2, <2>1 DEF AttachRow, GoodRequest, Shape, IInv
  <2>2. CASE VerifyClaims(p)
    BY <1>1, <1>2, <2>2 DEF VerifyClaims, Goes, GoodRequest, Shape, IInv
  <2> QED BY <2>1, <2>2
<1>4. Stage(r) <= Stage(req'[p]) BY <1>2, <1>3 DEF Stage
<1> HIDE DEF r
<1>5. GoodKey(req'[p], receipts) /\ InOrder(req'[p]) /\ Owned(req'[p], version)
  BY <1>1, <1>2, <1>3, <1>4, Advance
<1>6. Sound(req'[p], version, line, receipts)
  BY <1>1, <1>2, <1>3, <1>5 DEF Sound, GoodGroup, GoodForms, GoodRead
<1> QED BY <1>2, <1>3, <1>6, SoundStep DEF DInv

LEMMA VerifyLinesSound ==
  ASSUME IInv, DInv, NEW p \in Requests, VerifyLines(p)
  PROVE  DInv'
<1> DEFINE r == req[p]
<1>1. GoodRequest(r, version, line, previews) /\ Sound(r, version, line, receipts)
  BY DEF IInv, DInv
<1>2. /\ req'[p].holds = r.holds /\ req'[p].pending = ClaimLocks(r.body) /\ req'[p].key = r.key
      /\ req'[p].phase = "CLAIMS" /\ req'[p].input = r.input /\ req'[p].body = r.body
      /\ req'[p].group = r.group /\ req' = [req EXCEPT ![p] = req'[p]]
  BY <1>1 DEF VerifyLines, GoodRequest, Shape, IInv
<1>3. /\ UNCHANGED tables /\ UNCHANGED previews /\ r.phase = "LINES" /\ r.pending = {}
  BY DEF VerifyLines, At
<1>4. OfForm(r.body) BY <1>1, <1>3 DEF Sound, GoodForms
<1>5. Stage(r) = 4 /\ Stage(req'[p]) = 5 BY <1>2, <1>3 DEF Stage
<1>6. r.input.kind # "DOCUMENT" BY <1>1, <1>3 DEF GoodRequest, GoodPhase, Verified
<1> HIDE DEF r
<1>7. GoodKey(req'[p], receipts) /\ InOrder(req'[p]) /\ Owned(req'[p], version)
  <2> DEFINE r2 == req'[p]
  <2>1. /\ \A l \in r2.pending : Level(l) = 5 /\ Numbered(l) /\ l[1] = "claim"
        /\ \A s : <<"service", s>> \notin r2.pending
    BY <1>2, <1>4, Locks
  <2>2. /\ r2.phase = "CLAIMS" /\ r2.holds = r.holds /\ r2.key = r.key /\ r2.input = r.input
        /\ Stage(r2) = 5
    BY <1>2, <1>5
  <2> HIDE DEF r2
  <2>3. /\ \A l, m \in r2.pending : l[1] = m[1]
        /\ Stage(r) <= Stage(r2) /\ Stage(r) < Stage(r2) /\ ~(Stage(r2) <= 2)
        /\ \A l \in r2.pending : Level(l) = Stage(r2)
    BY <1>5, <2>1, <2>2
  <2>4. GoodKey(r2, receipts) /\ InOrder(r2) /\ Owned(r2, version)
    BY <1>1, <1>3, <2>1, <2>2, <2>3, Advance
  <2> QED BY <2>4 DEF r2
<1>8. Sound(req'[p], version, line, receipts)
  BY <1>1, <1>2, <1>3, <1>4, <1>6, <1>7 DEF Sound, GoodGroup, GoodForms, GoodRead
<1> QED BY <1>2, <1>3, <1>8, SoundStep DEF DInv

(* A request that ends, with or without a signed preview.                  *)
LEMMA EndsSound ==
  ASSUME IInv, DInv, NEW p \in Requests, Replay(p) \/ Abort(p) \/ SignPreview(p)
  PROVE  DInv'
<1>1. /\ req'[p] = NoRequest /\ req' = [req EXCEPT ![p] = req'[p]]
      /\ UNCHANGED tables
  BY DEF Replay, Abort, SignPreview, Ends, IInv
<1>2. \A t \in previews' : OfForm(t.after)
  <2>1. CASE SignPreview(p)
    <3>1. OfForm(req[p].body)
      BY <2>1 DEF SignPreview, At, DInv, Sound, GoodForms
    <3>2. \A t \in previews' : t \in previews \/ t.after = req[p].body
      BY <2>1 DEF SignPreview
    <3> QED BY <3>1, <3>2 DEF DInv
  <2>2. CASE Replay(p) \/ Abort(p)
    BY <2>2 DEF Replay, Abort, DInv
  <2> QED BY <2>1, <2>2
<1> QED BY <1>1, <1>2, NoRequestSound, SoundStep
(* The services of the lines that a document names, under its own lock.    *)
LEMMA DocumentRowSound ==
  ASSUME IInv, DInv, NEW p \in Requests, DocumentRow(p)
  PROVE  DInv'
<1> DEFINE r == req[p]
           r2 == req'[p]
           locks == ServiceLocks({line[l].service : l \in req[p].input.lines})
<1>1. GoodRequest(r, version, line, previews) /\ Sound(r, version, line, receipts)
  BY DEF IInv, DInv
<1>2. /\ UNCHANGED tables /\ UNCHANGED previews
      /\ r.phase = "ROW" /\ r.pending = {} /\ r.input.kind = "DOCUMENT"
      /\ Recorded(r.input.lines)
      /\ req' = [req EXCEPT ![p].phase = "REVIEW", ![p].pending = locks]
  BY DEF DocumentRow, Goes, At, Is
<1>3. r.input.lines \subseteq Lines BY <1>1 DEF Sound, GoodForms, GoodForm
<1>4. \A l \in r.input.lines : line[l].service \in Services /\ version[line[l].service] > 0
  <2>1. version \in [Services -> Nat] BY DEF IInv
  <2> QED BY <1>2, <1>3, <2>1 DEF Recorded, DInv, Rows
<1>5. \A m \in locks : \E s \in Services : m = <<"service", s>> /\ version[s] > 0
  BY <1>4 DEF ServiceLocks
<1> HIDE DEF locks
<1>6. /\ r2.holds = r.holds /\ r2.pending = locks /\ r2.key = r.key /\ r2.service = r.service
      /\ r2.phase = "REVIEW" /\ r2.input = r.input /\ r2.group = r.group
      /\ req' = [req EXCEPT ![p] = r2]
  BY <1>1, <1>2 DEF GoodRequest, Shape, IInv
<1>7. Stage(r) = 2 /\ Stage(r2) = 3 BY <1>2, <1>6 DEF Stage
<1>8. \A m \in locks : Level(m) = 3 /\ Numbered(m) /\ m[1] = "service"
  <2> SUFFICES ASSUME NEW m \in locks PROVE Level(m) = 3 /\ Numbered(m) /\ m[1] = "service"
    OBVIOUS
  <2>1. PICK s \in Services : m = <<"service", s>> BY <1>5
  <2> QED BY <2>1, Locks
<1>9. \A s : <<"service", s>> \in locks => s \in Services /\ version[s] > 0
  <2> SUFFICES ASSUME NEW s, <<"service", s>> \in locks PROVE s \in Services /\ version[s] > 0
    OBVIOUS
  <2>1. PICK u \in Services : <<"service", s>> = <<"service", u>> /\ version[u] > 0 BY <1>5
  <2> QED BY <2>1
<1> HIDE DEF r, r2
<1>10. GoodKey(r2, receipts) /\ InOrder(r2) /\ Owned(r2, version)
  <2>1. /\ \A l, m \in r2.pending : l[1] = m[1]
        /\ Stage(r) <= Stage(r2) /\ Stage(r) < Stage(r2) /\ ~(Stage(r2) <= 2)
        /\ \A l \in r2.pending : Level(l) = Stage(r2) /\ Numbered(l)
    BY <1>6, <1>7, <1>8
  <2> QED BY <1>1, <1>2, <1>6, <1>9, <2>1, Advance
<1>11. Sound(r2, version, line, receipts)
  BY <1>1, <1>2, <1>6, <1>10 DEF Sound, GoodGroup, GoodForms, GoodRead
<1> QED BY <1>2, <1>6, <1>11, SoundStep DEF DInv, r2

LEMMA Totals == ASSUME NEW ls PROVE Total(ls) = TotalIn(line, ls)
<1>1. \A l : Amount(l) = AmountIn(line, l) BY DEF Amount, AmountIn
<1> DEFINE f == [l \in ls |-> Amount(l)]
           g == [l \in ls |-> AmountIn(line, l)]
<1>2. f = g BY <1>1
<1> HIDE DEF f, g
<1>3. SumFunction(f) = SumFunction(g) BY <1>2
<1> QED BY <1>3 DEF Total, TotalIn, f, g

(* Lines that are as they were add up to what they did.                    *)
LEMMA TotalSame ==
  ASSUME NEW ln, NEW new, NEW ls, \A l \in ls : new[l].content = ln[l].content
  PROVE  TotalIn(new, ls) = TotalIn(ln, ls)
<1>1. \A l \in ls : AmountIn(new, l) = AmountIn(ln, l) BY DEF AmountIn
<1> DEFINE f == [l \in ls |-> AmountIn(new, l)]
           g == [l \in ls |-> AmountIn(ln, l)]
<1>2. f = g BY <1>1
<1> HIDE DEF f, g
<1>3. SumFunction(f) = SumFunction(g) BY <1>2
<1> QED BY <1>3 DEF TotalIn, f, g

LEMMA ReviewSound ==
  ASSUME IInv, DInv, NEW p \in Requests, Review(p)
  PROVE  DInv'
<1> DEFINE r == req[p]
           r2 == req'[p]
           ls == {l \in req[p].input.lines : line[l].service # 0}
           read == [l \in ls |-> line[l].version]
<1>1. GoodRequest(r, version, line, previews) /\ Sound(r, version, line, receipts)
  BY DEF IInv, DInv
<1>2. /\ UNCHANGED tables /\ UNCHANGED previews
      /\ r.phase = "REVIEW" /\ r.pending = {} /\ r.input.kind = "DOCUMENT"
      /\ Total(ls) = r.input.total
      /\ req' = [req EXCEPT ![p].phase = "SAVE", ![p].read = read]
  BY <1>1 DEF Review, At, Is, Reconciles, GoodRequest, GoodPhase
<1>3. ls \subseteq Lines BY <1>1 DEF Sound, GoodForms, GoodForm
<1>4. TotalIn(line, ls) = r.input.total BY <1>2, Totals
<1>5. DOMAIN read = ls /\ \A l \in ls : read[l] = line[l].version OBVIOUS
<1> HIDE DEF ls, read
<1>6. /\ r2.holds = r.holds /\ r2.pending = {} /\ r2.key = r.key /\ r2.service = r.service
      /\ r2.phase = "SAVE" /\ r2.input = r.input /\ r2.group = r.group /\ r2.read = read
      /\ req' = [req EXCEPT ![p] = r2]
  BY <1>1, <1>2 DEF GoodRequest, Shape, IInv
<1>7. Stage(r) <= Stage(r2) BY <1>2, <1>6 DEF Stage
<1> HIDE DEF r, r2
<1>8. GoodKey(r2, receipts) /\ InOrder(r2) /\ Owned(r2, version)
  BY <1>1, <1>2, <1>6, <1>7, Advance
<1>9. GoodRead(r2, line)
  BY <1>3, <1>4, <1>5, <1>6 DEF GoodRead
<1>10. Sound(r2, version, line, receipts)
  BY <1>1, <1>2, <1>6, <1>8, <1>9 DEF Sound, GoodGroup, GoodForms
<1> QED BY <1>2, <1>6, <1>10, SoundStep DEF DInv, r2

-----------------------------------------------------------------------------
(* The key of a command that is saved is its own, and was not used.        *)
LEMMA KeyAtSave ==
  ASSUME IInv, DInv, NEW p \in Requests, req[p].phase = "SAVE"
  PROVE  /\ req[p].key \in Keys /\ receipts[req[p].key] = NoReceipt
         /\ \A q \in Requests \ {p} :
              req[q].phase \notin {"READY", "RECEIPT"} /\ req[q].input.kind # "PREVIEW"
              => req[q].key # req[p].key
<1> DEFINE r == req[p]
<1>1. r.input.kind # "PREVIEW"
  BY DEF IInv, GoodRequest, GoodPhase, Verified
<1>2. r.key \in Keys /\ CommandLock(r.key) \in r.holds /\ receipts[r.key] = NoReceipt
  BY <1>1 DEF DInv, Sound, GoodKey
<1>3. ASSUME NEW q \in Requests \ {p}, req[q].phase \notin {"READY", "RECEIPT"},
             req[q].input.kind # "PREVIEW"
      PROVE  req[q].key # r.key
  <2>1. CommandLock(req[q].key) \in req[q].holds
    BY <1>3 DEF DInv, Sound, GoodKey
  <2>2. Apart(r, req[q]) BY DEF IInv
  <2> QED BY <1>2, <2>1, <2>2 DEF Apart
<1> QED BY <1>2, <1>3

(* The receipt of one command is added.                                    *)
LEMMA ReceiptGood ==
  ASSUME IInv, DInv, NEW p \in Requests, req[p].phase = "SAVE", Receive(p)
  PROVE  /\ \A k \in Keys : k # req[p].key => receipts'[k] = receipts[k]
         /\ receipts'[req[p].key].service = req[p].service
         /\ receipts'[req[p].key].group = req[p].group
         /\ Answers(receipts')
         /\ \A q \in Requests \ {p} : GoodKey(req[q], receipts')
<1> DEFINE k == req[p].key
<1>1. k \in Keys BY KeyAtSave
<1>2. /\ \A j \in Keys : j # k => receipts'[j] = receipts[j]
      /\ receipts'[k] = [input |-> req[p].input, service |-> req[p].service, group |-> req[p].group]
  BY <1>1 DEF Receive, IInv
<1>3. req[p].input.kind # "PREVIEW" /\ GoodForm(req[p].input)
  BY DEF IInv, GoodRequest, GoodPhase, Verified, DInv, Sound, GoodForms
<1>4. Answers(receipts')
  BY <1>2, <1>3 DEF Answers, DInv
<1>5. ASSUME NEW q \in Requests \ {p} PROVE GoodKey(req[q], receipts')
  <2>1. GoodKey(req[q], receipts) BY DEF DInv, Sound
  <2>2. req[q].phase \notin {"READY", "RECEIPT"} /\ req[q].input.kind # "PREVIEW"
        => req[q].key # k
    BY KeyAtSave
  <2> HIDE DEF k
  <2> QED BY <1>2, <2>1, <2>2 DEF GoodKey
<1> QED BY <1>2, <1>4, <1>5

(* What one more receipt does to a count.                                  *)
LEMMA OneMore ==
  ASSUME NEW S, NEW T, NEW k, k \notin S, S \subseteq Keys, T = S \cup {k}
  PROVE  Cardinality(T) = Cardinality(S) + 1 /\ Cardinality(S) \in Nat
<1>1. IsFiniteSet(S) BY AnalysisAssumption, FS_Subset
<1> QED BY <1>1, FS_AddElement, FS_CardinalityType

LEMMA SaveDocumentSound ==
  ASSUME IInv, DInv, NEW p \in Requests, SaveDocument(p)
  PROVE  DInv'
<1> DEFINE r == req[p]
           k == req[p].key
           g == req[p].group
           ls == DOMAIN req[p].read
<1>1. /\ UNCHANGED <<version, line, previews>> /\ r.phase = "SAVE" /\ r.input.kind = "DOCUMENT"
      /\ Receive(p) /\ req' = [req EXCEPT ![p] = NoRequest]
      /\ \A l \in ls : line[l].service # 0 /\ allocation[l].group \in {NULL, g}
      /\ document' = [document EXCEPT ![g] =
           [version |-> @.version + 1, total |-> r.input.total, guarded |-> Guarded(p)]]
      /\ allocation' = [l \in Lines |->
           IF l \in ls THEN [group |-> g, version |-> r.read[l]]
           ELSE IF allocation[l].group = g THEN NoAllocation ELSE allocation[l]]
  BY DEF SaveDocument, At, Is, Ends
<1>2. /\ Sound(r, version, line, receipts)
      /\ g \in Groups /\ r.service = 0 /\ ls \subseteq Lines
  BY <1>1 DEF DInv, Sound, GoodGroup, GoodRead
<1>3. NULL \notin Groups /\ 0 \notin Services /\ NULL # 0 BY AnalysisAssumption
<1>4. \A q \in Requests : Sound(req'[q], version, line, receipts')
  <2>1. req'[p] = NoRequest /\ \A q \in Requests \ {p} : req'[q] = req[q]
    BY <1>1 DEF IInv
  <2>2. \A q \in Requests \ {p} : Sound(req[q], version, line, receipts')
    BY <1>1, ReceiptGood DEF DInv, Sound
  <2> QED BY <2>1, <2>2, NoRequestSound
<1>5. /\ DOMAIN document' = Groups
      /\ document'[g].version = document[g].version + 1 /\ document'[g].total = r.input.total
      /\ document'[g].guarded = GuardedIn(r, line)
      /\ \A h \in Groups : h # g => document'[h] = document[h]
  <2>1. Guarded(p) = GuardedIn(r, line) BY DEF Guarded, GuardedIn
  <2> QED BY <1>1, <1>2, <2>1 DEF DInv
<1>6. Counted(version, document', receipts')
  <2>1. /\ k \in Keys /\ receipts[k].service = 0 /\ receipts[k].group = NULL
        /\ receipts'[k].service = 0 /\ receipts'[k].group = g
        /\ \A j \in Keys : j # k => receipts'[j] = receipts[j]
    BY <1>1, <1>2, KeyAtSave, ReceiptGood DEF NoReceipt
  <2> DEFINE Of(h) == {j \in Keys : receipts[j].group = h}
             Now(h) == {j \in Keys : receipts'[j].group = h}
  <2>2. \A h \in Groups : h # g => Now(h) = Of(h)
    BY <1>3, <2>1
  <2>3. Now(g) = Of(g) \cup {k} /\ k \notin Of(g)
    BY <1>2, <1>3, <2>1
  <2>4. Of(g) \subseteq Keys OBVIOUS
  <2>5. \A s \in Services : {j \in Keys : receipts'[j].service = s}
                            = {j \in Keys : receipts[j].service = s}
    BY <1>3, <2>1
  <2>6. \A h \in Groups : document[h].version = Cardinality(Of(h))
    BY DEF DInv, Counted
  <2> HIDE DEF Of, Now
  <2>7. \A h \in Groups : document'[h].version = Cardinality(Now(h))
    BY <1>2, <1>5, <2>2, <2>3, <2>4, <2>6, OneMore
  <2> QED BY <2>5, <2>7 DEF Now, DInv, Counted
<1>7. /\ \A l \in Lines : l \in ls => allocation'[l].group = g /\ allocation'[l].version = r.read[l]
      /\ \A l \in Lines : l \notin ls /\ allocation[l].group # g => allocation'[l] = allocation[l]
      /\ \A l \in Lines : l \notin ls /\ allocation[l].group = g => allocation'[l].group = NULL
  BY <1>1 DEF NoAllocation
<1>8. AllocatedIn(allocation', g) = ls
  BY <1>2, <1>3, <1>7 DEF AllocatedIn
<1>9. ASSUME NEW h \in Groups, h # g
      PROVE  /\ AllocatedIn(allocation', h) = AllocatedIn(allocation, h)
             /\ \A l \in AllocatedIn(allocation, h) : allocation'[l] = allocation[l]
  <2>1. \A l \in Lines : l \in ls => allocation[l].group # h BY <1>1, <1>3, <1>9
  <2>2. \A l \in Lines : allocation'[l].group = h <=> allocation[l].group = h
    BY <1>3, <1>7, <1>9, <2>1
  <2> QED BY <1>7, <1>9, <2>1, <2>2 DEF AllocatedIn
<1> HIDE DEF r, k, g, ls
<1>10. \A l \in Lines : allocation'[l].group \in Groups => line[l].service # 0
  <2>1. \A l \in Lines : allocation[l].group \in Groups => line[l].service # 0
    BY DEF DInv, Billed
  <2> QED BY <1>1, <1>3, <1>7, <2>1
<1>11. ASSUME NEW h \in Groups, document'[h].guarded
       PROVE  LET A == AllocatedIn(allocation', h)
              IN  /\ \A l \in A : allocation'[l].version \in Nat
                                  /\ allocation'[l].version <= line[l].version
                  /\ document'[h].version > 0 /\ (\A l \in A : allocation'[l].version = line[l].version)
                     => TotalIn(line, A) = document'[h].total
  <2>1. CASE h # g
    <3>1. document'[h] = document[h] BY <1>5, <2>1
    <3> QED BY <1>9, <1>11, <2>1, <3>1 DEF DInv, Billed
  <2>2. CASE h = g
    <3>1. GuardedIn(r, line) BY <1>5, <1>11, <2>2
    <3>2. (\A l \in ls : r.read[l] = line[l].version) /\ TotalIn(line, ls) = r.input.total
      BY <1>1, <1>2, <3>1 DEF Sound, GoodRead, ls, r
    <3>3. \A l \in ls : line[l].version \in Nat BY <1>1, <1>2 DEF DInv, Rows
    <3> QED BY <1>2, <1>5, <1>7, <1>8, <2>2, <3>2, <3>3
  <2> QED BY <2>1, <2>2
<1>12. Billed(line, document', allocation')
  BY <1>10, <1>11 DEF Billed
<1>13. Answers(receipts') BY <1>1, ReceiptGood DEF r
<1> QED BY <1>1, <1>4, <1>5, <1>6, <1>12, <1>13 DEF DInv
-----------------------------------------------------------------------------
(* A line that a save changes gets a version it never had; the others keep *)
(* theirs.                                                                 *)
LEMMA SavedLines ==
  ASSUME IInv, DInv, NEW p \in Requests, Save(p)
  PROVE  LET s == req[p].service
             b == req[p].body
         IN  /\ s \in Services /\ s # 0 /\ Saveable(req[p], line)
             /\ Written(line, line', b, s)
             /\ version' = [version EXCEPT ![s] = @ + 1] /\ version[s] \in Nat
             /\ \A l \in Lines : l \in DOMAIN b =>
                  line'[l].version = IF line[l].service = s /\ line[l].content = b[l]
                                     THEN line[l].version ELSE version[s] + 1
<1>1. req[p].phase = "SAVE" /\ req[p].input.kind # "DOCUMENT"
  BY DEF Save, At, Is
<1>2. Saveable(req[p], line)
  BY <1>1, SaveableNow
<1>3. req[p].service \in Services /\ req[p].service # 0
  BY <1>2, AnalysisAssumption DEF Saveable
<1>4. version[req[p].service] \in Nat
  BY <1>3 DEF IInv
<1> QED BY <1>2, <1>3, <1>4 DEF Save, Written, LineVersion

LEMMA RowsSaved ==
  ASSUME IInv, DInv, NEW p \in Requests, Save(p)
  PROVE  Rows(version', line')
<1> DEFINE s == req[p].service
           b == req[p].body
<1>1. /\ s \in Services /\ version[s] \in Nat
      /\ version' = [version EXCEPT ![s] = @ + 1] /\ version \in [Services -> Nat]
  BY SavedLines DEF IInv
<1> SUFFICES ASSUME NEW l \in Lines, line'[l].service # 0
             PROVE  /\ line'[l].service \in Services
                    /\ line'[l].version \in Nat /\ 0 < line'[l].version
                    /\ line'[l].version <= version'[line'[l].service]
  BY DEF Rows
<1>2. line[l].service # 0 => /\ line[l].service \in Services
                             /\ line[l].version \in Nat /\ 0 < line[l].version
                             /\ line[l].version <= version[line[l].service]
  BY DEF DInv, Rows
<1>3. CASE l \in DOMAIN b
  <2>1. /\ line'[l].service = s
        /\ line'[l].version = IF line[l].service = s /\ line[l].content = b[l]
                              THEN line[l].version ELSE version[s] + 1
    BY <1>3, SavedLines DEF Written
  <2>2. s # 0 BY SavedLines
  <2> HIDE DEF s, b
  <2> QED BY <1>1, <1>2, <2>1, <2>2
<1>4. CASE l \notin DOMAIN b
  <2>1. line[l].service # s /\ line'[l] = line[l]
    BY <1>4, SavedLines DEF Written, NoLine
  <2> HIDE DEF s, b
  <2> QED BY <1>1, <1>2, <2>1
<1> QED BY <1>3, <1>4

(* Allocated lines stay, and their version tells whether they changed.     *)
LEMMA BilledStays ==
  ASSUME IInv, DInv, NEW p \in Requests, Save(p), NEW l \in Lines,
         allocation[l].group \in Groups
  PROVE  /\ line'[l].service # 0
         /\ line[l].version \in Nat /\ line'[l].version \in Nat
         /\ line[l].version <= line'[l].version
         /\ line'[l].version = line[l].version => line'[l].content = line[l].content
<1> DEFINE s == req[p].service
           b == req[p].body
<1>1. /\ s # 0 /\ version[s] \in Nat /\ Saveable(req[p], line) /\ Written(line, line', b, s)
      /\ l \in DOMAIN b => line'[l].version = IF line[l].service = s /\ line[l].content = b[l]
                                              THEN line[l].version ELSE version[s] + 1
  BY SavedLines
<1>2. /\ line[l].service # 0
      /\ line[l].version \in Nat /\ line[l].version <= version[line[l].service]
  BY DEF DInv, Billed, Rows
<1>3. CASE l \in DOMAIN b
  <2>1. line[l].service = s BY <1>1, <1>2, <1>3 DEF Saveable
  <2>2. line'[l].service = s /\ line'[l].content = b[l] BY <1>1, <1>3 DEF Written
  <2> HIDE DEF s, b
  <2> QED BY <1>1, <1>2, <1>3, <2>1, <2>2
<1>4. CASE l \notin DOMAIN b
  <2>1. allocation[l] # NoAllocation BY AnalysisAssumption DEF NoAllocation
  <2>2. line[l].service # s
    BY <1>4, <2>1 DEF Save, KeepsAllocated, LinesOf
  <2>3. line'[l] = line[l] BY <1>1, <1>4, <2>2 DEF Written
  <2> QED BY <1>2, <2>3
<1> QED BY <1>3, <1>4

LEMMA BilledSaved ==
  ASSUME IInv, DInv, NEW p \in Requests, Save(p)
  PROVE  Billed(line', document', allocation')
<1>1. UNCHANGED <<document, allocation>> BY DEF Save
<1>2. \A l \in Lines : allocation[l].group \in Groups => line'[l].service # 0
  BY BilledStays
<1>3. ASSUME NEW g \in Groups, document[g].guarded
      PROVE  LET A == AllocatedIn(allocation, g)
             IN  /\ \A l \in A : allocation[l].version \in Nat
                                 /\ allocation[l].version <= line'[l].version
                 /\ document[g].version > 0 /\ (\A l \in A : allocation[l].version = line'[l].version)
                    => TotalIn(line', A) = document[g].total
  <2> DEFINE A == AllocatedIn(allocation, g)
  <2>1. \A l \in A : /\ line[l].version \in Nat /\ line'[l].version \in Nat
                     /\ line[l].version <= line'[l].version
                     /\ line'[l].version = line[l].version => line'[l].content = line[l].content
    BY BilledStays DEF AllocatedIn
  <2>2. /\ \A l \in A : allocation[l].version \in Nat /\ allocation[l].version <= line[l].version
        /\ document[g].version > 0 /\ (\A l \in A : allocation[l].version = line[l].version)
           => TotalIn(line, A) = document[g].total
    BY <1>3 DEF DInv, Billed
  <2> HIDE DEF A
  <2>3. \A l \in A : allocation[l].version <= line'[l].version BY <2>1, <2>2
  <2>4. ASSUME document[g].version > 0, \A l \in A : allocation[l].version = line'[l].version
        PROVE  TotalIn(line', A) = document[g].total
    <3>1. \A l \in A : allocation[l].version = line[l].version /\ line'[l].version = line[l].version
      BY <2>1, <2>2, <2>4
    <3>2. \A l \in A : line'[l].content = line[l].content BY <2>1, <3>1
    <3>3. TotalIn(line', A) = TotalIn(line, A) BY <3>2, TotalSame
    <3> QED BY <2>2, <2>4, <3>1, <3>3
  <2> QED BY <2>2, <2>3, <2>4 DEF A
<1> QED BY <1>1, <1>2, <1>3 DEF Billed

(* What a document has read of services it has locked is not disturbed.    *)
LEMMA ReadStays ==
  ASSUME IInv, DInv, NEW p \in Requests, Save(p), NEW q \in Requests, q # p
  PROVE  GoodRead(req[q], line')
<1> DEFINE s == req[p].service
           b == req[p].body
           r == req[q]
<1>1. /\ s \in Services /\ Saveable(req[p], line) /\ Written(line, line', b, s)
  BY SavedLines
<1>2. Apart(req[p], r) /\ GoodRead(r, line) /\ Owned(r, version)
  BY DEF IInv, DInv, Sound
<1>3. 0 \notin Services BY AnalysisAssumption
<1>4. req[p].input.kind = "CREATE" => version[s] = 0
  BY <1>1, <1>3 DEF IInv, GoodRequest, GoodService
<1> SUFFICES ASSUME r.phase = "SAVE", r.input.kind = "DOCUMENT", GuardedIn(r, line')
             PROVE  /\ GuardedIn(r, line)
                    /\ \A l \in DOMAIN r.read : line'[l] = line[l]
  <2>1. DOMAIN r.read \subseteq Lines \/ ~(r.phase = "SAVE" /\ r.input.kind = "DOCUMENT")
    BY <1>2 DEF GoodRead
  <2>2. (\A l \in DOMAIN r.read : line'[l] = line[l])
        => TotalIn(line', DOMAIN r.read) = TotalIn(line, DOMAIN r.read)
    <3>1. (\A l \in DOMAIN r.read : line'[l] = line[l])
          => \A l \in DOMAIN r.read : line'[l].content = line[l].content
      OBVIOUS
    <3> QED BY <3>1, TotalSame
  <2> QED BY <1>2, <2>1, <2>2 DEF GoodRead
<1>5. ASSUME NEW l \in DOMAIN r.read PROVE line'[l] = line[l]
  <2>1. l \in Lines /\ <<"service", line'[l].service>> \in r.holds
    BY <1>2, <1>5 DEF GoodRead, GuardedIn
  <2>2. line'[l].service \in Services /\ version[line'[l].service] > 0
    BY <1>2, <2>1 DEF Owned
  <2>3. CASE l \in DOMAIN b
    <3>1. line'[l].service = s BY <1>1, <2>1, <2>3 DEF Written
    <3>2. <<"service", s>> \in req[p].holds
      BY <1>1, <1>4, <2>2, <3>1 DEF Saveable
    <3> QED BY <1>2, <2>1, <3>1, <3>2 DEF Apart
  <2>4. CASE l \notin DOMAIN b
    BY <1>1, <1>3, <2>1, <2>2, <2>4 DEF Written, NoLine
  <2> QED BY <2>3, <2>4
<1> QED BY <1>5 DEF GuardedIn

LEMMA CountedSaved ==
  ASSUME IInv, DInv, NEW p \in Requests, Save(p)
  PROVE  Counted(version', document', receipts')
<1> DEFINE k == req[p].key
           s == req[p].service
<1>1. /\ UNCHANGED document /\ Receive(p) /\ req[p].phase = "SAVE"
      /\ req[p].input.kind # "DOCUMENT"
  BY DEF Save, At, Is
<1>2. /\ s \in Services /\ version' = [version EXCEPT ![s] = @ + 1] /\ version \in [Services -> Nat]
  BY SavedLines DEF IInv
<1>3. NULL \notin Groups /\ 0 \notin Services BY AnalysisAssumption
<1>4. req[p].group = NULL BY <1>1 DEF DInv, Sound, GoodGroup
<1>5. /\ k \in Keys /\ receipts[k].service = 0 /\ receipts[k].group = NULL
      /\ receipts'[k].service = s /\ receipts'[k].group = NULL
      /\ \A j \in Keys : j # k => receipts'[j] = receipts[j]
  BY <1>1, <1>4, KeyAtSave, ReceiptGood DEF NoReceipt
<1> DEFINE Of(u) == {j \in Keys : receipts[j].service = u}
           Now(u) == {j \in Keys : receipts'[j].service = u}
<1>6. \A u \in Services : u # s => Now(u) = Of(u)
  BY <1>3, <1>5
<1>7. Now(s) = Of(s) \cup {k} /\ k \notin Of(s)
  BY <1>2, <1>3, <1>5
<1>8. Of(s) \subseteq Keys OBVIOUS
<1>9. \A g \in Groups : {j \in Keys : receipts'[j].group = g} = {j \in Keys : receipts[j].group = g}
  BY <1>3, <1>5
<1>10. \A u \in Services : version[u] = Cardinality(Of(u))
  BY DEF DInv, Counted
<1> HIDE DEF Of, Now, s, k
<1>11. \A u \in Services : version'[u] = Cardinality(Now(u))
  BY <1>2, <1>6, <1>7, <1>8, <1>10, OneMore
<1> QED BY <1>1, <1>9, <1>11 DEF Now, DInv, Counted

LEMMA SaveSound ==
  ASSUME IInv, DInv, NEW p \in Requests, Save(p)
  PROVE  DInv'
<1> DEFINE s == req[p].service
<1>1. /\ UNCHANGED <<document, previews>> /\ Receive(p) /\ req[p].phase = "SAVE"
      /\ req' = [req EXCEPT ![p] = NoRequest]
  BY DEF Save, At, Ends
<1>2. s \in Services /\ version' = [version EXCEPT ![s] = @ + 1] /\ version \in [Services -> Nat]
  BY SavedLines DEF IInv
<1>3. \A q \in Requests \ {p} : Sound(req[q], version', line', receipts')
  <2> SUFFICES ASSUME NEW q \in Requests \ {p}
               PROVE  Sound(req[q], version', line', receipts')
    OBVIOUS
  <2>1. Sound(req[q], version, line, receipts) BY DEF DInv
  <2>2. GoodRead(req[q], line') BY ReadStays
  <2>3. Owned(req[q], version')
    <3>1. \A u \in Services : version[u] > 0 => version'[u] > 0 BY <1>2
    <3> QED BY <2>1, <3>1 DEF Sound, Owned
  <2>4. GoodKey(req[q], receipts') BY <1>1, ReceiptGood
  <2> QED BY <2>1, <2>2, <2>3, <2>4 DEF Sound
<1>4. \A q \in Requests : Sound(req'[q], version', line', receipts')
  <2>1. req'[p] = NoRequest /\ \A q \in Requests \ {p} : req'[q] = req[q]
    BY <1>1 DEF IInv
  <2> QED BY <1>3, <2>1, NoRequestSound
<1>5. Answers(receipts') BY <1>1, ReceiptGood
<1> QED BY <1>1, <1>4, <1>5, RowsSaved, BilledSaved, CountedSaved DEF DInv

LEMMA StepSound == IInv /\ DInv /\ [Next]_vars => DInv'
<1> SUFFICES ASSUME IInv, DInv, [Next]_vars PROVE DInv'
  OBVIOUS
<1>1. CASE UNCHANGED vars
  BY <1>1 DEF vars, tables, DInv
<1>2. CASE Next
  <2>1. PICK p \in Requests :
           \/ Asks(p)
           \/ \E l \in req[p].pending : Acquire(p, l)
           \/ Starts(p)
           \/ Works(p)
           \/ Abort(p)
    BY <1>2 DEF Next
  <2>2. CASE Asks(p)
    BY <2>2, AsksSound
  <2>3. CASE \E l \in req[p].pending : Acquire(p, l)
    BY <2>3, AcquireSound
  <2>4. CASE Starts(p)
    BY <2>4, EndsSound, StartCreateSound, StartServiceSound, StartDocumentSound DEF Starts
  <2>5. CASE CompleteRow(p) \/ CorrectRow(p) \/ PreviewRow(p)
    BY <2>5, ReadsRowSound DEF CompleteRow, CorrectRow, PreviewRow, Is
  <2>6. CASE Works(p)
    BY <2>5, <2>6, ToSaveSound, VerifyLinesSound, EndsSound, SaveSound, DocumentRowSound,
       ReviewSound, SaveDocumentSound DEF Works
  <2>7. CASE Abort(p)
    BY <2>7, EndsSound
  <2> QED BY <2>1, <2>2, <2>3, <2>4, <2>6, <2>7
<1> QED BY <1>1, <1>2

LEMMA SoundAlways == Spec => []DInv
<1>1. Init => DInv
  BY InitDInv
<1>2. IInv /\ DInv /\ [Next]_vars => DInv'
  BY StepSound
<1> QED BY <1>1, <1>2, Inductive, PTL DEF Spec

-----------------------------------------------------------------------------
(* A document is the sum of the lines it keeps until the version of one of *)
(* them tells that it changed: no service that it has locked is saved, an  *)
(* allocated line is not removed, and a line that changes gets a version   *)
(* it never had.                                                           *)
THEOREM DocumentsAddUp == Spec => []DocumentsReconcile
<1>1. DInv => DocumentsReconcile
  <2> SUFFICES ASSUME DInv PROVE DocumentsReconcile
    OBVIOUS
  <2>1. ASSUME NEW p \in Requests, At(p, "SAVE"), Is(p, {"DOCUMENT"}), Guarded(p)
        PROVE  /\ \A l \in DOMAIN req[p].read : req[p].read[l] = line[l].version
               /\ Reconciles(p, DOMAIN req[p].read)
    BY <2>1, Totals DEF DInv, Sound, GoodRead, GuardedIn, Guarded, At, Is, Reconciles
  <2>2. \A g : Allocated(g) = AllocatedIn(allocation, g)
    BY DEF Allocated, AllocatedIn
  <2>3. ASSUME NEW g \in Groups, document[g].version > 0, document[g].guarded,
               \A l \in Allocated(g) : allocation[l].version = line[l].version
        PROVE  Total(Allocated(g)) = document[g].total
    BY <2>2, <2>3, Totals DEF DInv, Billed
  <2> QED BY <2>1, <2>3 DEF DocumentsReconcile
<1> QED BY <1>1, SoundAlways, PTL

(* A service and a document have as many versions as commands were         *)
(* answered with a receipt: a key that is held has no receipt yet.         *)
THEOREM EveryVersionHasItsReceipt == Spec => []OneReceiptPerVersion
<1>1. DInv => OneReceiptPerVersion
  BY DEF DInv, Counted, OneReceiptPerVersion
<1> QED BY <1>1, SoundAlways, PTL

(* Requests take their locks in one order, so that the one which waits     *)
(* farthest along waits for nobody among those that wait.                  *)
THEOREM NobodyWaitsInACircle == Spec => []NoLockCircle
<1>1. DInv => NoLockCircle
  <2> SUFFICES ASSUME DInv, NEW ps \in SUBSET Requests, ps # {},
                      \A p \in ps : /\ req[p].pending # {}
                                    /\ \A l \in Wanted(p) : \E q \in ps : l \in req[q].holds
               PROVE  FALSE
    BY DEF NoLockCircle
  <2>1. \A p \in ps : InOrder(req[p]) BY DEF DInv, Sound
  <2>2. ASSUME NEW p \in ps PROVE Wanted(p) # {}
    <3> DEFINE pending == req[p].pending
    <3>1. InOrder(req[p]) /\ pending # {} BY <2>1
    <3>2. Stage(req[p]) \in 1..5 BY DEF Stage
    <3>3. CASE Stage(req[p]) <= 2
      <4>1. \A l, m \in pending : l = m BY <3>1, <3>3 DEF InOrder
      <4> QED BY <3>1, <4>1 DEF Wanted
    <3>4. CASE Stage(req[p]) >= 3
      <4>1. \A l \in pending : Numbered(l) BY <3>1, <3>4 DEF InOrder
      <4>2. \A l, m \in pending : l[1] = m[1] BY <3>1 DEF InOrder
      <4> DEFINE numbers == {l[2] : l \in pending}
      <4>3. numbers \subseteq Nat /\ numbers # {} BY <3>1, <4>1 DEF Numbered
      <4>4. PICK n \in numbers : \A k \in numbers : n <= k BY <4>3, Least
      <4>5. PICK l \in pending : l[2] = n BY <4>4
      <4>6. ASSUME NEW m \in pending \ {l} PROVE l[2] < m[2]
        <5>1. l = <<l[1], l[2]>> /\ m = <<m[1], m[2]>> /\ l[2] \in Nat /\ m[2] \in Nat
          BY <4>1 DEF Numbered
        <5>2. l[2] # m[2] BY <4>2, <5>1
        <5>3. l[2] <= m[2] BY <4>4, <4>5
        <5> QED BY <5>1, <5>2, <5>3
      <4> QED BY <4>6 DEF Wanted
    <3> QED BY <3>2, <3>3, <3>4
  <2> DEFINE W(p) == CHOOSE l \in Wanted(p) : TRUE
             Beyond(p) == {q \in ps : Before(W(p), W(q))}
             T == {Beyond(p) : p \in ps}
  <2>3. \A p \in ps : W(p) \in Wanted(p) /\ W(p) \in req[p].pending
    BY <2>2 DEF Wanted
  <2>4. \A p \in ps : Level(W(p)) \in 1..5 /\ (Level(W(p)) >= 3 => W(p)[2] \in Nat)
    <3>1. \A p \in ps : Level(W(p)) >= 3 => Numbered(W(p)) BY <2>1, <2>3 DEF InOrder
    <3>2. \A l : Level(l) \in 1..5 BY DEF Level
    <3> QED BY <3>1, <3>2 DEF Numbered
  <2> HIDE DEF W
  <2>5. PICK p \in ps : \A q \in ps : Beyond(q) \subseteq Beyond(p) => Beyond(q) = Beyond(p)
    <3>1. IsFiniteSet(ps) BY AnalysisAssumption, FS_Subset
    <3>2. T \subseteq SUBSET ps /\ T # {} OBVIOUS
    <3> HIDE DEF T
    <3>3. PICK m \in T : \A k \in T : k \subseteq m => k = m
      BY <3>1, <3>2, MinimalSet
    <3>4. PICK p \in ps : m = Beyond(p) BY <3>3 DEF T
    <3>5. \A q \in ps : Beyond(q) \in T BY DEF T
    <3> HIDE DEF Beyond
    <3> QED BY <3>3, <3>4, <3>5
  <2>6. PICK q \in ps : W(p) \in req[q].holds BY <2>3
  <2>7. Before(W(p), W(q)) BY <2>1, <2>3, <2>6 DEF InOrder
  <2>8. Beyond(q) \subseteq Beyond(p)
    BY <2>4, <2>7 DEF Before
  <2>9. q \in Beyond(p) /\ q \notin Beyond(q)
    BY <2>4, <2>7 DEF Before
  <2> QED BY <2>5, <2>8, <2>9
<1> QED BY <1>1, SoundAlways, PTL
=============================================================================
