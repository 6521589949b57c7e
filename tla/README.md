# Verification of team-mex-MTTO in TLA+

The repository is a fleet-maintenance system: a NestJS/TypeORM API on PostgreSQL
(`src/api`), a Next.js client (`src/web`) and its decisions (`src/docs`). Every rule is
enforced by the API, in application services over one database. Several processes may
serve requests at once, at isolation READ COMMITTED. What can go wrong is therefore
decided by which rows a request reads before which lock, in which statement it writes,
and what a retry or a crash in between leaves behind. That is what is modelled here.

## 1. Inventory

| Component | State | Operations | Talks to |
|---|---|---|---|
| CHECK orders (`visitas/checks/canonical-orders.service.ts`) | `visitas` of type CHECK, `check_inspections`, `check_conditions`, `check_findings`, `check_evidence`, `readiness_generations`, `check_invalidations` | create, generate daily (a scheduler that ticks every minute), assign, claim, start, capture, upload and delete photos, review, sign, invalidate, reinspection | unit lock, object storage, outbox, CORRECTIVE orders, departure policy |
| Maintenance visits (`visitas/visitas.service.ts`) | `visitas` of maintenance, works, photos, signatures, pieces | draft, order, open, update, remove, close | unit lock (open and close only), outbox, stock |
| Outbox (`kernel/outbox`) | `outbox_events` | enqueue and dispatch: handlers run in the transaction of the writer | inventory, andon, health |
| Stock (`inventario/inventario.service.ts`) | items, stock, movements, pending receipts | consume a close, receive, adjust, thresholds | costs, inbox |
| Costs (`inventario/inventory-costs.service.ts`) | cost operations, valuation of each item, command receipts | receipt, adjustment, opening, completion and correction of a price, return, consumption of a close | stock (row lock) |
| Journeys (`logistica/journey.service.ts`) | journey columns of `unidades`, `logistica_journeys`, command receipts | departure, return, context, retries | unit lock, departure policy |
| Departure policy (`logistica/departure-policy.*`) | none | authorize | CHECK, insurance, physical state, maintenance blocks |
| Assignment and drivers (`logistica.service.ts`, `choferes`) | `unidades.chofer_id`, `choferes.estado` | assign, unassign, activate, deactivate | unit lock |
| Fleet movements (`flota`) | movements, board row of each unit, transitions recorded by hand | register a departure or return, record a transition, read the physical state | unit lock; CHECK and departures read the physical state |
| Readiness and holds (`visitas/checks/readiness-*`) | readiness holds, settings | place, verify, lift | CHECK, unit lock |
| Andon and inbox (`andon`, `notifications`, `alert-catalog`) | avisos, last close of a unit, thresholds, inbox rows | evaluate (every page that lists avisos), acknowledge, resolve (handler of a close), expire | outbox; the inbox on a connection of its own |
| Health (`salud`) | configurations, snapshots, alerts | evaluate (page, close, saved configuration), save configuration | outbox, Andon thresholds; always on a connection of its own |
| User access (`auth/user-access.service.ts`) | directory, trail | import at start, create, change role, deactivate | one global lock, guard of every request |
| Insurance documents (`vehicle-documents`) | versions of policies | replace | unit lock |
| Analysis (`visitas/analysis`) | external services, cost lines, claims, documents and their allocations, receipts, schedules, classifications, catalogue, report snapshots | register, complete, preview, correct, attach, distribute over documents; configure; report | five families of advisory locks, cost operations |
| Control tower, listings | none | read | everything |
| Catalogues, seed, migrations, web client | configuration rows | last writer wins; offline; presentation | — |

**What is hard here.** (1) A service reads a row, takes a lock, and goes on with what it
read (`close`), or saves the whole row later without any lock (`updateDraft`): TypeORM's
`save` writes every column that differs from the table, the stale ones too, and the
version column is not compared. (2) Requests are repeated: completions and journeys carry
keys, closes and drafts do not. (3) Uploads run outside the transaction that registers
them. (4) The advisory lock of a unit orders the transactions of that unit only; drivers
and keys are shared by several. (5) A generator runs beside people. (6) Days and policies
change between a review and its signature. (7) Andon and Health evaluate without a
transaction, from pages, and write to the inbox on another connection.

**What makes each part correct.** CHECK: one active per unit, what is signed is what was
reviewed, effects exactly once, signed means final, one automatic CHECK a day. Visits: one
event per close, pieces leave the stock once, a closed visit shows what it took, odometers
do not go back. Journeys: every command takes effect at most once and against the state
it was confirmed for; a late return closes no later journey; the driver of a unit is of
that unit only. Departure: what was authorised still holds when it commits. Stock and
costs: the balance is the sum of its movements, in pieces and in cents. Andon: what is
overdue keeps being shown and what is not loses every notice, although the code admits
doubled and revived ones. Health: wear never raises a score, and the alert of a recovered
unit ends. Fleet: log, board and physical state agree. User access: somebody can always
administer and the trail explains who may. Analysis: a piece is counted once, a correction
replaces what its preview showed, documents add up, and locks never wait in a circle. `PROJECT.json` lists the hazards one by one, each
at its line.

## 2. Plan

| # | Module | Composes | Abstract specification | Status |
|---|---|---|---|---|
| 1 | `CheckFindings`, `CheckOrders` | the rules inside the orders | `CheckContract` | checked; seven theorems, the refinement among them |
| 1b | `CheckScheduler` | the tick of the generator over `CheckOrders` | — | checked, with liveness |
| 2 | `Visitas` | visits, outbox, stock of closes | — | checked; four theorems |
| 3 | `Journeys` | journeys, assignment, policy gate | `JourneyContract` | checked; nine theorems, the refinement among them |
| 4 | `Costs` | every writer of stock and value of an item | the sum of the operations | checked; four theorems |
| 5 | `Andon` | evaluations, closes, acknowledgements, inbox on two connections | — | checked, with liveness; one theorem |
| 6 | `Fleet` | movements, drivers, board, physical state | the log | checked; five theorems |
| 7 | `HealthScore`, `Salud` | the score inside its evaluations | the score itself | checked, with liveness; three theorems |
| 8 | `UserAccess` | directory, guard, trail | the replay of the trail | checked; five theorems |
| 9 | `Analysis` | services, claims, documents, five families of locks | — | checked; five theorems |

What is left, in the order it would be taken: reports of the analysis with their
invalidations, its schedules, classifications and catalogue; pending receipts and the
catalogue of stock; readiness holds and insurance documents; the control tower. Every safety
property that a passing run checks is proved; with a new component come its own proofs.

## 3. Modules

### CheckFindings and CheckOrders

`CheckFindings` holds the pure rules: severity of a fluid and of a tyre, the derived
result, readiness of the evidence. `CheckOrders` is the life of a CHECK. A variable is a
table; a command of the service is one action, because it runs in one transaction holding
the row of the CHECK (or the lock of the unit). Two are split at the point where they let
the database go: `UploadEvidence` / `RegisterEvidence` (the object is written first) and
`RequestCompletion` / `CompleteCheck`, `ReplayCompletion` (the signature is uploaded first).
A request in between may be delayed, die or be repeated. `NextDay`, `MoveUnit` and
`NewPsiPolicy` are what the rest of the system does meanwhile. Hash tokens are the record
they are a hash of, so that two are equal exactly when their content is. A row that does
not exist has status `FREE`; identifiers are never used again.

`CheckContract` is what other components rely on: opened once per unit at a time, signed in
one step with its effects and no later than the last day its content is good for, voided for
good. `CheckOrdersRefinement` gives the mapping; `today` is the day of the contract.

### CheckScheduler

The timer of `CheckDailyScheduler` for one facility, as a process beside the orders. `Tick`
takes the day and the units, never while another tick runs. The generator opens a transaction
per unit inside its loop (`canonical-orders.service.ts:404`), so `Serve` is one unit: a CHECK
is generated, or one of the SKIPPED outcomes. `WrongDay` is the refusal of a tick that ran
past midnight. `Throw` is any other exception: the transaction of that unit rolls back, those
of the units before it stay, and those after it wait, because the exception leaves the loop
and is caught around the facility (`check-daily.scheduler.ts:54`). `GenerateDaily` of
`CheckOrders` is the transaction by itself, as other API processes may also run it.

### Visitas

A request is a small process. `requireDraft` and the first statements of `close` read the
row into the request; each later step is one statement that commits (drafts) or one
transaction (close, open). `UpdateSave` writes the row as it was read, because that is what
`repo.save` does with an entity loaded earlier. A close runs its handlers inside its
transaction (`CloseCommit`): visit, event and stock change together or not at all. Unique
indexes refuse a write; `...Refused` actions are those ends. A request may die after any
statement. `modo`, chosen at the start, says whether requests overlap or take turns and
whether `INVENTORY_COSTS_ENABLED` is set: the properties that only hold when requests take
turns say so in their text.

### Journeys

Transactions on one unit take turns by its advisory lock. Each has two steps, what it reads
under the lock and its commit, so transactions of two units overlap and meet at the unique
`unidades.chofer_id` and at the key of the receipts. `comandos` are the envelopes that
clients have confirmed; any of them may be delivered any number of times, late and in any
order, and `acked` are those answered 204. `faltan` is, per unit, what
`departureBlockReasons` would name: its writers change it under the unit's lock
(`Requisito`), and `LateSave`, the save of `updateDraft`, is the one that does not take it:
it brings one reason back, `REACTIVATED_ORDER`. `Init` has the states
that the cutover migration and `HistoryState` (UTIL-J06) admit: at home, on a recorded
trip, or on a trip whose pointer or row is missing. `JourneyContract` is a diary per unit, to
which a command adds one departure or return, once; `JourneysRefinement` reads the diary off
the receipts in the order of the revisions they were confirmed against.

### Costs

A command of `InventoryCostsService` is one step, since its transaction holds the row lock
of the stock before it reads; `Execute` is `command` with its receipt. Not under that lock,
and so steps of their own: the instant a close is dated with (`CloseStart`, taken before its
handlers run, with `CloseApply` and `CloseAbort`) and the row that `updateItem` read before
it saves it (`EditStart`, `EditSave`), which writes back a stale quantity. Amounts are whole
cents, divisions round half up as `roundRatio` does, an unknown amount is `NULL` and makes
what it enters unknown. `base` and `effects` are history variables.

### UserAccess

Every write of the directory is one transaction under one lock: `Create`, `Update` and the
import `Boot`, which runs whenever a process starts. The moments outside it are `Read` (an
administrator sees the list, with versions) and `Admit` (the guard of a later request). A
row that does not exist is `NoUser`; of the roles, only whether they administer is kept.

### Fleet

`Check` and `Commit` are the two halves of `registrar`, under the lock of the unit;
transactions of two units overlap. Forms are dated anywhere in the past. `Project` is the
row of the board, `PhysicalStates` the reading of `physical-state.adapter`, a set because two
rows of one instant may come in either order. `seen` is a history field: how long the log was
when a movement was checked.

### Andon

`evaluarUnidad` is one process per page, a step per statement (`Look`, `Find`, `Judge`,
`Save`, `Withdraw`, `Open`, `Refresh`, `Expire`), with nothing held in between; `enterado`
reads and writes in two steps. The handler of a close runs in its transaction
(`Handle`, `ExpireInClose`, `CommitClose`), but expires the inbox at once, also when the close
rolls back. Its row lock on the aviso makes evaluations wait (`Locked`). Closes are numbered,
not visits: `hasProcessed` knows an event and not its visit, and a visit that closes twice
(`visitas_extra_event`) writes two events, which are two closes here.

### HealthScore and Salud

`HealthScore` is the calculation in exact fractions: curve of a service, weights, caps,
rounding, and the rule that opens and resolves the alert. `Salud` runs it: an evaluation
reads configuration, last close, snapshot and alert and writes alert and snapshot in steps of
their own, without transaction, also from inside a close that has not committed. Two
configurations may be active, or none; one that is missing is seeded. `requests` keeps what
each evaluation has read.

### Analysis

A command waits for its locks one at a time (`pending`, `holds`, `Acquire`), reads as it goes
and writes with its receipt in its last step (`Save`, `SaveDocument`). `phase` is the place in
the code: after the key (`RECEIPT`), the row (`ROW`), the lines (`LINES`), the operations
(`CLAIMS`), and for documents the second reading (`REVIEW`). A preview goes through the same
verification holding neither key nor service and leaves a token in `previews`: the record its
hash is of. Every refusal, timeout and crash is `Abort`, which is enabled in every phase: a
transaction that rolls back leaves nothing. `guarded`, in a saved document, is a history field:
whether the services of the lines it kept were locked when it was saved. A document locks the
services its lines had at the first reading, and a line may belong to another one at the second.

## 4. Runs

| Run | Instance | Shows |
|---|---|---|
| `check_content` (577 k states) | 1 unit that comes and goes, 1 CHECK, 3 photos (slots 2), 2 keys, 2 policies, 2 days, 2 completion requests | content, photos, review and signature, all retries: signed is what was reviewed, effects once, one answer, final; implements `CheckContract`, which lets nothing be signed after its last day |
| `check_days` (319 k) | 2 units, 2 CHECKs, no photos, 2 days, 1 exception, units in the yard or out | one active CHECK, and a unit that stays in the yard is served though ticks are cut short |
| `visitas_stock` (887 k) | 3 requests, overlapping or in turn, 4 visits with one and two pieces, stock 2, 2 readings, costs on and off | in every overlap pieces are taken once and odometers do not go back; with requests in turn a closed visit shows what it consumed |
| `visitas_extra_event` (violation) | 2 closes that overlap | two `VisitaCerrada` of one visit |
| `journeys` (110 k) | 2 units, 1 driver, 3 journeys, 3 commands, 3 keys, 2 requests, every cutover state, 2 reasons to block | commands behave as if executed one at a time and once; the driver of a unit is of that unit only; nothing that is written under the lock is overlooked by a departure |
| `journeys_late_save` (violation) | 1 unit, 2 commands, 2 keys, 2 requests | a unit leaves although an order saved late blocks it |
| `costos` (1.5 M) | 1 item, 3 keys, 4 operations, 3 pieces at 5 cents a lot, 1 close, 1 stale save | the value of the shelf is the sum of its operations to the cent; returns bring back no more than left |
| `avisos` (589 k) | 2 evaluations, 1 supervisor, 2 closes, 2 thresholds, 1 failure | overdue is shown for ever again, current ends with no aviso |
| `salud` (820 k) | a page, a close or a saved configuration, 2 configurations, 1 failure | recovered ends resolved, the snapshot catches up, wear never helps |
| `flota` (715 k) | 2 units, 2 drivers, 3 movements, 3 instants, 1 transition by hand | log, board and physical state |
| `accesos` (275 k) | 3 accounts, 2 tabs, 5 entries, restarts | an administrator remains; the trail replays and explains authority |
| `analisis` (692 k) | 2 requests at a time, 4 in all, 2 services, 2 lines, 1 operation of 2 pieces, 2 documents, 3 keys | claims, previews, documents, receipts and locks |

`visitas_stock` and `visitas_extra_event` belong together: one event per visit, and that a
visit shows what it took, hold when requests take turns and fail when they overlap, because
a row is read before its lock or without one. `ConsumedOnce` and `KmMonotone` hold in every
overlap.

`journeys` and `journeys_late_save` belong together too. `UnitOperationCoordinator` says of
its lock that every writer that can change departure eligibility takes it, which is
`DepartedEligible`. `updateDraft` is a writer that does not: an order it saves late begins to
block between the authorisation of a departure and its commit. `LeavesUnblocked` is what does
hold with that writer at work: of all the reasons only that one can be overlooked.

**Bounds and why they suffice.** `MaxDia`, `MaxVersion`, `MaxSolicitudes`, `MaxFallas`, `MaxComandos`,
`MaxRev`, `MaxOperations`, `MaxRevisions`, `MaxAtEdit`, `MaxAvisos`, `MaxCloses`,
`MaxFailures`, `MaxStops`, `MaxCommands`, `MaxNow`, `MaxDay`, `MaxMovements`, `MaxTransitions`,
`MaxEntries` and `MaxBegun` cap counters in guards. CHECK: two days are enough for a review of one day to be
signed on the next; two policies tell a stale one from a current one; two completion requests
are a retry or a second device; three photos for two slots let one be deleted, replaced and
registered late. The scheduler needs two units, one to be served and one behind it, a
midnight and one exception; what is captured in a CHECK is not its concern, so there are no
photos. Visits: three requests are two that overlap and one that undoes their order.
Journeys: three commands on a unit are a departure, a return and a repetition or a rival of
either; two units are what a shared driver or key needs. A second unit, a third command
and a blocked departure are explored one at a time (the constraint `Size` of `MCJourneys`),
since no question needs two of them. Costs: five cents over three pieces
do not divide, so every rounding is taken; four operations are a receipt, a consumption and
two partial returns, or a correction between them. Andon: two evaluations double an aviso, a
close resolves one of them; one failure is at any statement. Health: kilometres 0 and 17 of 20
and days 0 and 25 of 20 are before, in and after the window of a service. Fleet: three
instants let a form be dated before, at and after another. Access: two of three accounts
remove each other from two tabs. Analysis: four requests are two that race after two that
prepared, or a preview, two rivals and the correction. A line that leaves one service and
enters another while a document is being distributed takes seven, and lies outside. The proof
is not bounded and met it: `DocumentsReconcile` is false of such a document, so it speaks of
those whose lines were `Guarded`, which in this instance all are.

**Symmetry** is used where identifiers are interchangeable and never in a run with a
temporal property other than a refinement or an action property.

**Deadlock** is not checked by TLC: every instance stops when its identifiers and bounds are
spent. What waiting there is for locks is the property `NoLockCircle`.

**Fairness.** `SchedulerSpec` is fair to the scheduler and to nothing else: `setInterval` calls
the tick every minute and a tick that began goes on, in whatever order it reads the units.
Which unit is served is not assumed: `DailyCoverage` says that each is, although midnight or
the exception of another unit ends a tick before its turn. A unit that leaves the yard need
not be served meanwhile. Exceptions are bounded by `MaxFallas`: if the service of one unit threw
at every tick, the units read after it would go without (section 6). Andon has no scheduler: evaluations come from pages
that list avisos, which every user of the system keeps opening. `FairSpec` is strongly fair
to them, because the row lock of a close stops one now and then, and weakly fair to an
acknowledgement and to the end of a close. In `Salud` every request ends, and pages keep being
opened: `SaludFairness` says that in those words. Failures are bounded, not fair.

`TypeOK` is proved for `CheckOrders`, `Visitas`, `Journeys`, `Costs`, `UserAccess`, `Fleet` and
`Andon`. In `Salud` it tells the reader the shape of the tables. No run lists it.

## 5. Proofs

Nothing is assumed but what the modules name in their `ASSUME`: bounds and limits are
naturals, identifiers of different kinds are different, `NULL` is none of them, forms have
the columns of their tables.

`CheckOrdersProofs`, for every number of units, CHECKs, mechanics, photos, keys and days:

- `TypeCorrect`: `[]TypeOK`, one lemma per group of actions.
- `CompletedFinal`: `CompletedImmutable`. `StepFrame` says, action by action, that a
  COMPLETED CHECK is left alone. It carries the invariance proofs below.
- `SignedContent`: `[]SignedAsReviewed`, inductive together with `TypeOK`: at the signature
  `Signable` compares version and content with the review; afterwards `StepFrame` leaves
  nothing to change.
- `EffectsOnce`: `[]CompletionEffectsOnce`, by the same frame.
- `OneActive`: `[]OneActiveCheck`. `ActiveStep`: a step makes at most one CHECK active, one
  whose unit had none.
- `OneAnswer`: `[]OneAnsweredCompletion`. Inductive is `Answers`: a request that was answered is
  the completion its CHECK keeps, and two CHECKs keep no completions of one key.
- `KeepsContract`: `Spec => ImplementsContract`. `StepKinds` says that a step inserts a CHECK,
  completes one, answers again, records an invalidation, or is `Unseen` outside: the first, second
  and fourth are `Open`, `Sign` and `Void` of the contract, midnight is its `NewDay` (`DayStep`),
  the others stutter. That a signature is not late is the guard of `Signable` on the last day of
  the content it signs. That a signature
  brings exactly the corrective orders of its content is `CompletionEffectsOnce` before and after
  it; that what is voided was signed is `LatestIsSigned`.

`VisitasProofs`, for any visits, items, lines and number of requests that die anywhere:

- `TypeCorrect`. `TInv` adds to `TypeOK` that pieces are finite and what a request carries.
- `KmNeverGoesBack` (`KmInv`: no two closes have one instant and none is in the future) and
  `VisitConsumesOnce`, for overlapping requests, stale saves included.
- `ClosedShowsWhatItTook`, while requests take turns. `TurnInv`: at most one
  request is under way, what it read is what the tables hold, and only a visit that is closed
  has taken anything.

`JourneysProofs`, for every number of units, drivers, journeys, keys, commands and requests:

- `TypeCorrect`.
- `NeverContradictory`: `[]Consistent`. `IInv` adds `Reading` (a request that executes still
  sees the context its command was confirmed for), `Locks` (two requests never hold one unit)
  and `Pointers` (no two units point to one journey). `ThreeCases` then says what a step can
  be: quiet, a departure or a return; the later proofs are by those cases.
- `DriversExclusive`: `[]DriverOnce`, and `HistoryKept`, from `IInv`.
- `LedgerKept`, `ReturnsMatched`, `AcknowledgedIsDone`. `RInv` adds what the receipts say of
  the tables: `Revisions`, `Last` and `Effect`.
- `EligibleWhenLeaving`: `Spec => LeavesUnblocked`, with late saves at work. A departure that
  executes has found its unit unblocked, and until its commit only a late save can change that
  (`Eligible`, inductive beside `IInv`).
- `DiaryImplemented`: `Spec => KeepsDiary`, that `Journeys` implements `JourneyContract`, from
  `Revisions` and `RInv`.

`CostsProofs`, for all items, keys, amounts and bounds:

- `CommandsOnce`, `[]OneEffectPerKey`: a key has one effect and its receipt names it.
- `TypeCorrect`, `ValueIsConserved` and `ReturnsAreBounded` are parts of one invariant, `CInv`:
  types, `AllBooks` (`ValueConserved`, said of any sequence of operations, so that one lemma can
  speak of an operation appended and another of one replaced) and `AllReturns` (`ReturnsBounded`,
  with every return naming an operation and every consumption taking something). A share rounded
  half up is at most the whole, and is the whole when nothing is left: hence the bounds in cents.

`UserAccessProofs`, for any accounts, tabs and configured administrators: `TypeCorrect`;
`LastAdministratorStays` (somebody administers after every write, since the check of
`KeepsAnAdmin` and the write are one transaction); `TrailReplays`, from which
`AuthorsCouldAdminister` follows, since what the lock sees of the author is what the trail
says; `EditsReplaceWhatWasRead`.

`UnitsProofs` holds what is proved of the three components that follow a unit. Of `Fleet`, for
any units, drivers, dates and readings: `RowsKeepTheirShape`; `BoardIsTheLog`, the invariant the
others rest on; `MovementsAlternate` and `DriverGoesOutOnce`, inductive with it and with what a
registration in progress has checked under its lock; `PhysicalStateIsTheBoard`, since of
movements dated in their order the last is the newest. Of `Salud`: `CurveFallsWithoutCliff` and
`WearNeverRaisesTheScore` are about the calculation, over all intervals, weights and readings, by
comparing fractions; `WearHelpsNobody` is `WearNeverHelps` of the specification. Of `Andon`,
`ResolvedByOneClose`: `AInv` adds types, and that an evaluation which withdraws a notice has found
an aviso; a close writes a number that is later than any before it, so it resolves one aviso
at most, while a visit that closed twice may resolve two; `AvisosKeepTheirShape` is the
types by themselves. The three are extended side by side, so what each of them defines has a
name of its own (`AndonNext`, `SaludNext`).

`AnalysisProofs`: `ClaimsAreDisjoint` and `CorrectionsAreThoseShown`, for any services, lines,
operations, forms, keys and number of requests. `ClaimsDisjoint` alone is not inductive: what
a request is about to save was verified earlier. `IInv` says what it keeps meanwhile: which
locks it holds in each phase (`GoodLocks`), that what it verified under them is still so
(`GoodLines`), that nobody else holds them (`Apart`). `LinesStayGood` is the heart of it:
another save either names other operations, since both would hold the lock of a shared one,
or is an attachment, which leaves every line as it is. For corrections `GoodTokens` says that
a token shows the lines of its version for as long as that is the version of the service, and
`StaysCurrent` that a save makes it old.

`DocumentsAddUp`, `EveryVersionHasItsReceipt` and `NobodyWaitsInACircle` rest on a second
invariant, `DInv`, on top of `IInv`: what a document read under the locks of its services is
still so (`GoodRead`); an allocation is never of a later version than its line, and adds up
with the others while none is of an earlier one (`Billed`); receipts are as many as versions
(`Counted`); and a request holds only locks that come before those it waits for, by family and
then by number (`InOrder`). Of the requests in a circle, the one that waits farthest along would
wait for one that waits farther.

`SumTheorems` has the lemmas about sums that `Visitas`, `Costs` and `Analysis` share. The
induction theorems of the library take an operator and cannot be used; each induction is a
minimal counterexample instead, among sets of naturals or finite sets.

**Only model-checked**: liveness (`DailyCoverage`, `OverdueIsShown`, `CurrentIsWithdrawn`,
`RecoveredIsResolved`, `SnapshotCatchesUp`), since fairness is outside the prover's reach. The
violations are runs of TLC by their nature.

## 6. Findings

`visitas_extra_event` and `journeys_late_save` are the violations kept as runs, with their
lines in `PROJECT.json`. Others were met while the models were written. They are told here with their places, since
each took a model to be sure of:

- CHECK: the snapshot of a review names the PSI policy in force then, its findings were
  derived from the one before (`canonical-orders.service.ts:1000`; CHK-001-contract.md:62). An
  assigned CHECK has no reassignment (`:588`; CHK-001-contract.md:30).
- Daily scheduler: "Minute retries cover startup, midnight and vehicles returning to the yard"
  (`check-daily.scheduler.ts:15`), and one exception. A unit whose service throws at every tick
  ends every tick, and the units that are read after it stay without their CHECK.
- Visits: a closed visit is not final. "La visita ya está cerrada y no se puede modificar"
  (`visitas.service.ts:564`) is said to requests that come afterwards; an `updateDraft` that
  read it before makes it a draft again (`:264`) or replaces its pieces, and a `removeDraft`
  that did deletes it, although its event and what it took from stock stay. A late save also
  loses the mark of the opening, and stores kilometres below the last closed reading in a draft. `removeDraft` of an order under a hold deletes its children before the
  foreign key refuses the row (`:311`).
- Stock: `updateItem` saves a quantity read without a lock (`inventario.service.ts:291`),
  although `applyDelta` calls itself the only writer (`:749`): the movement in between is lost
  from the quantity.
- Drivers: one is deactivated between the check that no unit names them and the save
  (`choferes.service.ts:74`; ADR-004:101).
- Andon: two pages opened at once leave two unresolved avisos (ADR-004 A2); a visit that
  closes twice is handled twice, since `hasProcessed` goes by event (`andon-engine.ts:183`), and
  may resolve both; kilometres never
  open one, since the only caller passes those it was opened with (A3); an `enterado` that
  read first revives a resolved aviso; a crash between the aviso and its row of the inbox, or
  a close that rolls back, leaves the inbox wrong until the next evaluation, which repairs it
  (`OverdueIsShown`).
- Fleet: a departure dated at or before the last return leaves the physical state EN_PATIO
  while the unit is out; two units may leave at once with one driver (`DriverOutOnce` says
  exactly when; ADR-004 F9).
- Health: an evaluation inside a close scores what was there before it (ADR-010); two saves
  at once leave two active configurations of one version (`salud-engine.ts:112`; in `Salud` one
  writer saves at a time, and two active ones come of a save and the seed); a stale low
  snapshot hides a crossing; two alerts of one unit may be open; weights 0 and 0 with 100 for
  inspections are valid (H2) and score 0.
- Analysis: a document may be saved naming a line that no longer exists, since the demand that
  all exist is made before the locks of their services (`analysis.service.ts:1108`) and not
  repeated after them (`:1122`; AN-MTTO-001-technical.md:443): a correction commits in between
  and takes the line away, leaving the sum as it was. A report may be shown as current although
  a commit that its snapshot did not see invalidated it, since the invalidation is dated before
  the commit and compared with an instant taken before the snapshot
  (`analysis-report.service.ts`; AN-MTTO-001-contract.md:150).

## 7. Not modelled

Readiness holds are placed and lifted under the lock of their unit by keys of their own, and
meet nothing. Insurance documents are versions under a unique index. Schedules, classifications
and catalogue of the analysis, and its work lines with their locks (`analysis.service.ts:456`, sorted,
between those of cost lines and of operations), are each a version compared and written under one lock; its
reports, the control tower and listings read and compute. Facility scope and roles guard every
command in the same way and are left out, except that mechanics sign and administrators
administer. Photos, notes, destinations, taxes and texts are data. Object storage and the
identity provider are external. Migrations run offline, seed data is for development, the web
client enforces nothing.

Of the 72 thousand lines of implementation, some 27 thousand are the web client and 14 thousand
development tools under `.agents`; most of the rest are controllers, validation of forms,
listings and entities. The definitions here stand for the part of the API that changes state
under concurrency, about 6 thousand lines.
