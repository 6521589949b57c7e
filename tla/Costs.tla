------------------------------- MODULE Costs -------------------------------
(***************************************************************************)
(* What the stock of each item is worth, as InventoryCostsService and the  *)
(* single writer of stock, InventarioService.applyDelta, keep it: receipts *)
(* with or without a price, adjustments, openings, the consumption of a    *)
(* close, returns, and prices that are completed or corrected later.       *)
(*                                                                         *)
(* A command runs in one transaction that locks the row of stock before it *)
(* reads anything it uses, so a command is one step; a refused command     *)
(* rolls back and is no step at all.  Two things are not under that lock:  *)
(* the instant a close is dated with, taken before its handlers run, and   *)
(* the row updateItem read before it saves it.  They are steps of their    *)
(* own.  A client may send any command under any key at any moment, which  *)
(* includes sending one again because its answer was lost.                 *)
(***************************************************************************)
EXTENDS Integers, Sequences, FiniteSets, Functions

CONSTANTS
    Items,         \* SKUs
    Visits,        \* maintenance visits that may close
    Lines,         \* the lines a visit may close with: [item, qty, origin]
    Keys,          \* idempotency keys, together with who sends them
    Nets,          \* net amounts a priced receipt or revision may carry, in cents
    Quantities,    \* quantities of a command
    MaxQty,        \* 2^31 - 1, the largest quantity a row of stock holds
    MaxOperations, \* bound on the rows of cost_operations
    MaxRevisions,  \* bound on the revisions of one of them
    MaxAtEdit,     \* bound: an edit begins while fewer operations are written
    NULL

Origins == {"DESDE_STOCK", "COMPRA_EXTERNA"}

ASSUME CostsAssumption ==
    /\ Nets \subseteq Nat
    /\ Quantities \subseteq Nat \ {0}
    /\ {MaxQty, MaxOperations, MaxRevisions, MaxAtEdit} \subseteq Nat
    /\ Lines \subseteq [item : Items, qty : Nat \ {0}, origin : Origins]
    /\ NULL \notin Int \cup Visits \cup Keys

VARIABLES
    stock,       \* inventario.stock: the quantity
    valuation,   \* inventario.valuation_state: value (NULL unknown), version,
                 \* cut and quantity; a row of version 0 is not stored
    operations,  \* inventario.cost_operations, in the order they commit: item,
                 \* kind, qty, net (NULL unknown), version, at, source, visit
    receipts,    \* inventario.operation_receipts: what each key did, and its result
    closing,     \* the instant an open close is dated with, 0 when none is open
    edit,        \* the quantity an updateItem in progress has read
    base,        \* history: where the current valuation was last set outright
    effects      \* history: the keyed commands that took effect, in order

vars == <<stock, valuation, operations, receipts, closing, edit, base, effects>>
-----------------------------------------------------------------------------
(* The commands of the controller.  "op" is the operation a revision or a  *)
(* return is about and "version" the one its sender had read.              *)
Receive(i, q, net)  == [action |-> "receive", item |-> i, qty |-> q, net |-> net]
Adjust(i, d)        == [action |-> "adjust", item |-> i, delta |-> d]
Opening(i, q, ver, value) ==
    [action |-> "opening", item |-> i, qty |-> q, version |-> ver, value |-> value]
Revise(correct, k, ver, net) ==
    [action |-> IF correct THEN "correct" ELSE "complete",
     op |-> k, version |-> ver, net |-> net]
Return(k, q)        == [action |-> "return", op |-> k, qty |-> q]

(* roundRatio: half up, on natural numbers.                                *)
RoundRatio(n, d) == (2 * n + d) \div (2 * d)

AllocatedCost(value, qty, available) == RoundRatio(value * qty, available)

(* locked: the row of valuation, discarded when stock moved without it.    *)
(* "expected" is the quantity before the command.                          *)
Stale(i, expected) == valuation[i].version = 0 \/ valuation[i].qty # expected

(* Mutant: the row is kept although stock moved without it.                *)
LockedTrusting(i, expected) ==
    IF valuation[i].version = 0
    THEN [value |-> IF expected = 0 THEN 0 ELSE NULL, version |-> 0, cut |-> 0,
          qty |-> expected]
    ELSE valuation[i]

Locked(i, expected) ==
    IF Stale(i, expected)
    THEN [value |-> IF expected = 0 THEN 0 ELSE NULL, version |-> valuation[i].version,
          cut |-> valuation[i].cut, qty |-> expected]
    ELSE valuation[i]

Plus(value, net)  == IF NULL \in {value, net} THEN NULL ELSE value + net
Minus(value, net) == IF NULL \in {value, net} THEN NULL ELSE value - net

(* new Date() in the transaction that writes the next operation, and in a  *)
(* close that starts now.                                                  *)
Now        == 2 * Len(operations) + 2
CloseStamp == 2 * Len(operations) + 1

Operation(i, kind, qty, net) ==
    [item |-> i, kind |-> kind, qty |-> qty, net |-> net, version |-> 1,
     at |-> Now, source |-> 0, visit |-> NULL]

ReturnsOf(k) == {r \in DOMAIN operations :
                   operations[r].kind = "RETURN" /\ operations[r].source = k}

Returned(k) == SumFunction([r \in ReturnsOf(k) |-> operations[r].qty])

(* Mutant: the earlier returns are forgotten.                              *)
RemainingWhole(k) == operations[k].net

(* What is left of the cost of a consumption once its returns are taken    *)
(* off; unknown when one of the amounts is.                                *)
Remaining(k) ==
    IF operations[k].net = NULL \/ \E r \in ReturnsOf(k) : operations[r].net = NULL
    THEN NULL
    ELSE operations[k].net - SumFunction([r \in ReturnsOf(k) |-> operations[r].net])
-----------------------------------------------------------------------------
Init ==
    /\ stock = [i \in Items |-> 0]
    /\ valuation = [i \in Items |-> [value |-> NULL, version |-> 0, cut |-> 0, qty |-> 0]]
    /\ operations = << >>
    /\ receipts = [k \in {} |-> NULL]
    /\ closing = [v \in Visits |-> 0]
    /\ edit = [i \in Items |-> NULL]
    /\ base = [i \in Items |-> [op |-> 0, value |-> 0]]
    /\ effects = << >>

(* A valuation that is set outright forgets the operations before it.      *)
Rebase(i, op, value) == base' = [base EXCEPT ![i] = [op |-> op, value |-> value]]

(* The valuation of an addition: the amount is added to what the row is    *)
(* worth, and unknown plus anything is unknown.                            *)
Add(i, q, net) ==
    LET row == Locked(i, stock[i])
    IN  /\ stock' = [stock EXCEPT ![i] = @ + q]
        /\ valuation' = [valuation EXCEPT ![i] =
             [value |-> Plus(row.value, net), version |-> row.version + 1,
              cut |-> row.cut, qty |-> stock[i] + q]]
        /\ IF Stale(i, stock[i]) THEN Rebase(i, Len(operations), 0)
                                 ELSE UNCHANGED base

(* applyDelta and recordDelta: the cost of what leaves is its share of     *)
(* the value; what enters without a price makes the value unknown; an      *)
(* empty shelf is worth nothing.                                           *)
ApplyDelta(i, delta, op) ==
    LET row  == Locked(i, stock[i])
        left == stock[i] + delta
        net  == IF delta < 0 /\ row.value # NULL
                THEN AllocatedCost(row.value, -delta, stock[i]) ELSE NULL
    IN  /\ left \in 0..MaxQty
        /\ stock' = [stock EXCEPT ![i] = left]
        /\ valuation' = [valuation EXCEPT ![i] =
             [value |-> IF left = 0 THEN 0 ELSE Minus(row.value, net),
              version |-> row.version + 1, cut |-> row.cut, qty |-> left]]
        /\ operations' = Append(operations, [op EXCEPT !.net = net])
        /\ IF left = 0 THEN Rebase(i, Len(operations) + 1, 0)
           ELSE IF Stale(i, stock[i]) THEN Rebase(i, Len(operations), 0)
           ELSE UNCHANGED base
-----------------------------------------------------------------------------
(* receive: pieces bought, priced or not.                                  *)
DoReceive(c) ==
    /\ stock[c.item] + c.qty <= MaxQty
    /\ Add(c.item, c.qty, c.net)
    /\ operations' = Append(operations, Operation(c.item, "RECEIPT", c.qty, c.net))

(* adjust: a count that differs.                                           *)
DoAdjust(c) ==
    ApplyDelta(c.item, c.delta,
               Operation(c.item, "ADJUSTMENT", IF c.delta < 0 THEN -c.delta ELSE c.delta, NULL))

(* opening: the administrator states the value of the quantity on hand.    *)
DoOpening(c) ==
    LET row == Locked(c.item, stock[c.item])
    IN  /\ stock[c.item] = c.qty /\ row.version = c.version
        /\ c.qty = 0 => c.value = 0
        /\ valuation' = [valuation EXCEPT ![c.item] =
             [value |-> c.value, version |-> row.version + 1, cut |-> Now, qty |-> c.qty]]
        /\ operations' = Append(operations, Operation(c.item, "OPENING", c.qty, c.value))
        /\ Rebase(c.item, Len(operations) + 1, c.value)
        /\ UNCHANGED stock

(* revise: a price completed (only where there is none) or corrected.  The *)
(* valuation is given up unless the operation is dated before the cut.     *)
DoRevise(c) ==
    LET op  == operations[c.op]
        i   == op.item
        row == Locked(i, stock[i])
    IN  /\ c.op \in DOMAIN operations
        /\ op.version = c.version /\ op.version <= MaxRevisions
        /\ op.kind \in {"RECEIPT", "CONSUMPTION", "EXTERNAL"}
        /\ op.net # NULL => c.action = "correct"
        /\ op.kind = "CONSUMPTION" => ReturnsOf(c.op) = {}
        /\ operations' = [operations EXCEPT ![c.op] =
             [op EXCEPT !.net = c.net, !.version = op.version + 1]]
        /\ IF op.kind # "EXTERNAL" /\ (row.cut = 0 \/ op.at >= row.cut)
           THEN /\ valuation' = [valuation EXCEPT ![i] =
                     [value |-> IF stock[i] = 0 THEN 0 ELSE NULL,
                      version |-> row.version + 1, cut |-> row.cut, qty |-> row.qty]]
                /\ IF stock[i] = 0 THEN Rebase(i, Len(operations), 0) ELSE UNCHANGED base
           ELSE UNCHANGED <<valuation, base>>
        /\ UNCHANGED stock

(* returnFromOrder: pieces of a consumption come back at the cost they     *)
(* left with, and the last of them brings back all that remains of it.     *)
DoReturn(c) ==
    LET op   == operations[c.op]
        left == op.qty - Returned(c.op)
        net  == IF Remaining(c.op) = NULL THEN NULL
                ELSE AllocatedCost(Remaining(c.op), c.qty, left)
    IN  /\ c.op \in DOMAIN operations
        /\ op.kind = "CONSUMPTION"
        /\ c.qty <= left
        /\ stock[op.item] + c.qty <= MaxQty
        /\ Add(op.item, c.qty, net)
        /\ operations' = Append(operations,
             [Operation(op.item, "RETURN", c.qty, net) EXCEPT
                !.source = c.op, !.visit = op.visit])

Work(c) ==
    \/ c.action = "receive" /\ DoReceive(c)
    \/ c.action = "adjust"  /\ DoAdjust(c)
    \/ c.action = "opening" /\ DoOpening(c)
    \/ c.action = "return"  /\ DoReturn(c)
    \/ c.action \in {"complete", "correct"} /\ DoRevise(c)

(* command: the first delivery under a key works and stores its receipt.   *)
(* A later one is answered from the receipt, or refused when it says       *)
(* something else, and changes nothing.                                    *)
Execute(k, c) ==
    /\ k \notin DOMAIN receipts
    /\ Len(operations) < MaxOperations
    /\ Work(c)
    /\ LET done == Len(effects) + 1
       IN  /\ effects' = Append(effects, [key |-> k, command |-> c])
           /\ receipts' = [x \in DOMAIN receipts \cup {k} |->
                IF x = k THEN [command |-> c, result |-> done] ELSE receipts[x]]
    /\ UNCHANGED <<closing, edit>>

(* entrada and ajuste of the inventory controller, which carry no key.     *)
Entrada(i, q) ==
    /\ Len(operations) < MaxOperations
    /\ ApplyDelta(i, q, Operation(i, "RECEIPT", q, NULL))
    /\ UNCHANGED <<receipts, closing, edit, effects>>

Ajuste(i, d) ==
    /\ Len(operations) < MaxOperations
    /\ DoAdjust(Adjust(i, d))
    /\ UNCHANGED <<receipts, closing, edit, effects>>
-----------------------------------------------------------------------------
(* close of VisitasService takes cerradoAt before it dispatches.           *)
CloseStart(v) ==
    /\ closing[v] = 0
    /\ closing' = [closing EXCEPT ![v] = CloseStamp]
    /\ UNCHANGED <<stock, valuation, operations, receipts, edit, base, effects>>

(* A handler refused, or the process stopped: nothing of the close stays.  *)
CloseAbort(v) ==
    /\ closing[v] # 0
    /\ closing' = [closing EXCEPT ![v] = 0]
    /\ UNCHANGED <<stock, valuation, operations, receipts, edit, base, effects>>

Costed(v) == \E k \in DOMAIN operations :
                operations[k].visit = v /\ operations[k].kind \in {"CONSUMPTION", "EXTERNAL"}

(* applyVisitaCerrada: what the visit took, once per visit.                *)
CloseApply(v, line) ==
    LET At(op) == [op EXCEPT !.at = closing[v], !.visit = v]
    IN  /\ closing[v] # 0
        /\ closing' = [closing EXCEPT ![v] = 0]
        /\ IF Costed(v)
           THEN UNCHANGED <<stock, valuation, operations, base>>
           ELSE /\ Len(operations) < MaxOperations
                /\ IF line.origin = "DESDE_STOCK"
                   THEN ApplyDelta(line.item, -line.qty,
                          At(Operation(line.item, "CONSUMPTION", line.qty, NULL)))
                   ELSE /\ operations' = Append(operations,
                             At(Operation(line.item, "EXTERNAL", line.qty, NULL)))
                        /\ UNCHANGED <<stock, valuation, base>>
        /\ UNCHANGED <<receipts, edit, effects>>

(* updateItem with a new minimum: it reads the row of stock without a lock *)
(* and saves all of it, the quantity it read included.                     *)
EditStart(i) ==
    /\ edit[i] = NULL /\ Len(operations) < MaxAtEdit
    /\ edit' = [edit EXCEPT ![i] = stock[i]]
    /\ UNCHANGED <<stock, valuation, operations, receipts, closing, base, effects>>

EditSave(i) ==
    /\ edit[i] # NULL
    /\ stock' = [stock EXCEPT ![i] = edit[i]]
    /\ edit' = [edit EXCEPT ![i] = NULL]
    /\ UNCHANGED <<valuation, operations, receipts, closing, base, effects>>
-----------------------------------------------------------------------------
Deltas == Quantities \cup {-q : q \in Quantities}

Commands ==
    {Receive(i, q, net) : i \in Items, q \in Quantities, net \in Nets \cup {NULL}}
    \cup {Adjust(i, d) : i \in Items, d \in Deltas}
    \cup {Opening(i, stock[i], valuation[i].version, value) : i \in Items, value \in Nets}
    \cup {Revise(correct, k, operations[k].version, net) :
            correct \in BOOLEAN, k \in DOMAIN operations, net \in Nets}
    \cup {Return(k, q) : k \in DOMAIN operations, q \in Quantities}

Next ==
    \/ \E k \in Keys, c \in Commands : Execute(k, c)
    \/ \E i \in Items, q \in Quantities : Entrada(i, q)
    \/ \E i \in Items, d \in Deltas : Ajuste(i, d)
    \/ \E v \in Visits : CloseStart(v) \/ CloseAbort(v)
    \/ \E v \in Visits, line \in Lines : CloseApply(v, line)
    \/ \E i \in Items : EditStart(i) \/ EditSave(i)

Spec == Init /\ [][Next]_vars
-----------------------------------------------------------------------------
(* What an operation added to the value of its item.                       *)
Signed(op) == IF op.kind \in {"RECEIPT", "RETURN"} THEN op.net ELSE -op.net

Since(i) == {k \in (base[i].op + 1)..Len(operations) :
               operations[k].item = i /\ operations[k].kind # "EXTERNAL"}

(* A close that was already under way when its item was valued again is    *)
(* dated before that cut, and a correction of its cost then leaves the     *)
(* valuation alone although the consumption was taken off it.              *)
CorrectedBehindTheCut(i) ==
    \E k \in Since(i) : operations[k].at < valuation[i].cut /\ operations[k].version > 1

(* INV-001 section 4: while the valuation of an item is complete it is     *)
(* exactly what its operations since the last cut say, to the cent: no     *)
(* cent is lost in a rounding, counted twice or kept from a price that     *)
(* was corrected, and no operation of unknown cost hides in it.            *)
ValueConserved ==
    \A i \in Items :
       valuation[i].version > 0 /\ valuation[i].value # NULL /\ ~CorrectedBehindTheCut(i)
       => /\ \A k \in Since(i) : operations[k].net # NULL
          /\ valuation[i].value =
                base[i].value + SumFunction([k \in Since(i) |-> Signed(operations[k])])

(* INV-001 section 6: the returns of a consumption never bring back more   *)
(* pieces or money than it took, and those that bring back the last piece  *)
(* have brought back all of its cost.                                      *)
ReturnsBounded ==
    \A k \in DOMAIN operations :
       operations[k].kind = "CONSUMPTION" =>
          /\ Returned(k) <= operations[k].qty
          /\ Remaining(k) # NULL => Remaining(k) >= 0
          /\ Remaining(k) # NULL /\ Returned(k) = operations[k].qty => Remaining(k) = 0

(* INV-001 section 2: a command takes effect at most once under its key    *)
(* however often it is delivered, and the result a key is answered with is *)
(* that of the very command the key was first sent with.                   *)
OneEffectPerKey ==
    /\ \A m, n \in DOMAIN effects : effects[m].key = effects[n].key => m = n
    /\ \A k \in DOMAIN receipts :
         /\ receipts[k].result \in DOMAIN effects
         /\ effects[receipts[k].result] = [key |-> k, command |-> receipts[k].command]

=============================================================================
