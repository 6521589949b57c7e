---------------------------- MODULE CostsProofs ----------------------------
(* Theorems about Costs, for any items, visits, keys and commands.         *)
EXTENDS Costs, SumTheorems

(* Every command that took effect left its receipt.                        *)
Receipted ==
    /\ \E S : effects \in Seq(S)
    /\ \A m \in DOMAIN effects : effects[m].key \in DOMAIN receipts

(* The actions that carry no key leave what is keyed alone.                *)
LEMMA KeyedOrNot ==
  ASSUME [Next]_vars
  PROVE  \/ UNCHANGED <<receipts, effects>>
         \/ \E k \in Keys, c \in Commands : Execute(k, c)
<1>1. ASSUME NEW i \in Items, NEW q \in Quantities, Entrada(i, q)
      PROVE  UNCHANGED <<receipts, effects>>
  BY <1>1 DEF Entrada
<1>2. ASSUME NEW i \in Items, NEW d \in Deltas, Ajuste(i, d)
      PROVE  UNCHANGED <<receipts, effects>>
  BY <1>2 DEF Ajuste
<1>3. ASSUME NEW v \in Visits, CloseStart(v) \/ CloseAbort(v)
      PROVE  UNCHANGED <<receipts, effects>>
  BY <1>3 DEF CloseStart, CloseAbort
<1>4. ASSUME NEW v \in Visits, NEW line \in Lines, CloseApply(v, line)
      PROVE  UNCHANGED <<receipts, effects>>
  BY <1>4 DEF CloseApply
<1>5. ASSUME NEW i \in Items, EditStart(i) \/ EditSave(i)
      PROVE  UNCHANGED <<receipts, effects>>
  BY <1>5 DEF EditStart, EditSave
<1>6. CASE UNCHANGED vars BY <1>6 DEF vars
<1> QED BY <1>1, <1>2, <1>3, <1>4, <1>5, <1>6 DEF Next

LEMMA KeyStep == OneEffectPerKey /\ Receipted /\ [Next]_vars => (OneEffectPerKey /\ Receipted)'
<1> SUFFICES ASSUME OneEffectPerKey, Receipted, [Next]_vars
             PROVE  OneEffectPerKey' /\ Receipted'
  OBVIOUS
<1>1. CASE UNCHANGED <<receipts, effects>>
  BY <1>1 DEF OneEffectPerKey, Receipted
<1>2. ASSUME NEW k \in Keys, NEW c \in Commands, Execute(k, c)
      PROVE  OneEffectPerKey' /\ Receipted'
  <2>1. PICK S : effects \in Seq(S) BY DEF Receipted
  <2>2. Len(effects) \in Nat /\ DOMAIN effects = 1..Len(effects) BY <2>1
  <2>3. PICK e, done : /\ e = [key |-> k, command |-> c]
                       /\ done = Len(effects) + 1
                       /\ effects' = Append(effects, e)
                       /\ receipts' = [x \in DOMAIN receipts \cup {k} |->
                            IF x = k THEN [command |-> c, result |-> done] ELSE receipts[x]]
    BY <1>2 DEF Execute
  <2>4. /\ DOMAIN effects' = 1..done /\ effects'[done] = e
        /\ \A m \in DOMAIN effects : effects'[m] = effects[m]
        /\ effects' \in Seq(S \cup {e})
    BY <2>1, <2>2, <2>3
  <2>5. k \notin DOMAIN receipts BY <1>2 DEF Execute
  <2>6. \A m \in DOMAIN effects : effects[m].key # k BY <2>5 DEF Receipted
  <2>7. /\ DOMAIN receipts' = DOMAIN receipts \cup {k}
        /\ receipts'[k] = [command |-> c, result |-> done]
        /\ \A x \in DOMAIN receipts : receipts'[x] = receipts[x]
    BY <2>3, <2>5
  <2>8. \A m, n \in DOMAIN effects' : effects'[m].key = effects'[n].key => m = n
    BY <2>2, <2>3, <2>4, <2>6 DEF OneEffectPerKey
  <2>9. ASSUME NEW x \in DOMAIN receipts'
        PROVE  /\ receipts'[x].result \in DOMAIN effects'
               /\ effects'[receipts'[x].result]
                    = [key |-> x, command |-> receipts'[x].command]
    <3>1. CASE x = k BY <2>2, <2>3, <2>4, <2>7, <3>1
    <3>2. CASE x \in DOMAIN receipts BY <2>2, <2>3, <2>4, <2>7, <3>2 DEF OneEffectPerKey
    <3> QED BY <2>7, <3>1, <3>2
  <2>10. \A m \in DOMAIN effects' : effects'[m].key \in DOMAIN receipts'
    BY <2>2, <2>3, <2>4, <2>7 DEF Receipted
  <2> QED BY <2>4, <2>8, <2>9, <2>10 DEF OneEffectPerKey, Receipted
<1> QED BY <1>1, <1>2, KeyedOrNot

(* INV-001 section 2: however often commands are sent, and in whatever     *)
(* order, each takes effect at most once under its key and is answered     *)
(* with its own effect.                                                    *)
THEOREM CommandsOnce == Spec => []OneEffectPerKey
<1>1. Init => OneEffectPerKey /\ Receipted
  <2>1. << >> \in Seq({}) OBVIOUS
  <2> QED BY <2>1 DEF Init, OneEffectPerKey, Receipted
<1> QED BY <1>1, KeyStep, PTL DEF Spec

-----------------------------------------------------------------------------
(* The rows of the ledger.                                                 *)
Kinds == {"RECEIPT", "ADJUSTMENT", "OPENING", "CONSUMPTION", "EXTERNAL", "RETURN"}

OperationRow ==
    [item : Items, kind : Kinds, qty : Nat, net : Nat \cup {NULL}, version : Nat \ {0},
     at : Nat, source : Nat, visit : Visits \cup {NULL}]

ValuationRow == [value : Nat \cup {NULL}, version : Nat, cut : Nat, qty : Nat]

TypeOK ==
    /\ stock \in [Items -> Nat]
    /\ valuation \in [Items -> ValuationRow]
    /\ operations \in Seq(OperationRow)
    /\ closing \in [Visits -> Nat]
    /\ edit \in [Items -> Nat \cup {NULL}]
    /\ base \in [Items -> [op : Nat, value : Nat]]
    /\ \A i \in Items : base[i].op <= Len(operations)

(* What leaves is worth a share of what is there: never negative, never    *)
(* more than all of it, and all of it when everything leaves.              *)
LEMMA DivBounds ==
  ASSUME NEW x \in Int, NEW y \in Nat \ {0}
  PROVE  x \div y \in Int /\ y * (x \div y) <= x /\ x < y * (x \div y) + y
OBVIOUS

LEMMA ProductLess ==
  ASSUME NEW a \in Nat \ {0}, NEW x \in Int, NEW y \in Int, a * x < a * y
  PROVE  x < y
<1> SUFFICES ASSUME y <= x PROVE FALSE OBVIOUS
<1>1. PICK z \in Nat : x = y + z
  <2>1. x - y \in Nat /\ x = y + (x - y) OBVIOUS
  <2> QED BY <2>1
<1>2. a * x = a * y + a * z BY <1>1
<1>3. a * z \in Nat /\ a * y \in Int BY <1>1
<1> QED BY <1>2, <1>3

LEMMA Shares ==
  ASSUME NEW value \in Nat, NEW n \in Nat \ {0}, NEW q \in Nat, q <= n
  PROVE  /\ AllocatedCost(value, q, n) \in 0..value
         /\ q = n => AllocatedCost(value, q, n) = value
<1> DEFINE d == 2 * n
           x == 2 * (value * q) + n
           c == AllocatedCost(value, q, n)
<1>1. d \in Nat \ {0} /\ x \in Nat /\ value * q \in Nat /\ value * n \in Nat OBVIOUS
<1>2. c = x \div d BY DEF AllocatedCost, RoundRatio
<1>3. c \in Int /\ d * c <= x /\ x < d * c + d
  <2> HIDE DEF c, d, x
  <2> QED BY <1>1, <1>2, DivBounds
<1>4. value * q <= value * n
  <2>1. PICK z \in Nat : n = q + z
    <3>1. n - q \in Nat /\ n = q + (n - q) OBVIOUS
    <3> QED BY <3>1
  <2>2. value * n = value * q + value * z BY <2>1
  <2>3. value * z \in Nat BY <2>1
  <2> QED BY <1>1, <2>2, <2>3
<1>5. d * value = 2 * (value * n) OBVIOUS
<1>6. d * (value + 1) = d * value + d /\ d * (c + 1) = d * c + d
  BY <1>3
<1>7. c <= value
  <2>1. d * c < d * (value + 1) BY <1>1, <1>3, <1>4, <1>5, <1>6
  <2>2. c < value + 1 BY <1>1, <1>3, <2>1, ProductLess
  <2> QED BY <1>3, <2>2
<1>8. c >= 0
  <2>1. d * 0 < d * (c + 1) BY <1>1, <1>3, <1>6
  <2>2. 0 < c + 1 BY <1>1, <1>3, <2>1, ProductLess
  <2> QED BY <1>3, <2>2
<1>9. ASSUME q = n PROVE c >= value
  <2>1. d * value < d * (c + 1) BY <1>1, <1>3, <1>5, <1>6, <1>9
  <2>2. value < c + 1 BY <1>1, <1>3, <2>1, ProductLess
  <2> QED BY <1>3, <2>2
<1> HIDE DEF c
<1> QED BY <1>3, <1>7, <1>8, <1>9 DEF c

-----------------------------------------------------------------------------
(* The books of one item, of any sequence of operations: b is where they   *)
(* begin and with what value, row is the valuation they must come to.      *)
SinceOf(b, ops, i) ==
    {k \in (b + 1)..Len(ops) : ops[k].item = i /\ ops[k].kind # "EXTERNAL"}

LedgerOf(b, ops, i) == SumFunction([k \in SinceOf(b, ops, i) |-> Signed(ops[k])])

BehindTheCut(b, row, ops, i) ==
    \E k \in SinceOf(b.op, ops, i) : ops[k].at < row.cut /\ ops[k].version > 1

Books(b, row, ops, i) ==
    row.version > 0 /\ row.value # NULL /\ ~BehindTheCut(b, row, ops, i)
    => /\ \A k \in SinceOf(b.op, ops, i) : ops[k].net # NULL
       /\ row.value = b.value + LedgerOf(b.op, ops, i)

(* The sequence with one operation more, and with one of them replaced.    *)
Longer(more, ops, op) == more = Append(ops, op)

Replaced(other, ops, k, op) == other = [ops EXCEPT ![k] = op]

LEMMA SignedInt ==
  ASSUME NEW op \in OperationRow, op.net # NULL
  PROVE  Signed(op) \in Int
BY DEF Signed, OperationRow

LEMMA SinceFinite ==
  ASSUME NEW ops \in Seq(OperationRow), NEW b \in Nat, NEW i
  PROVE  /\ IsFiniteSet(SinceOf(b, ops, i))
         /\ SinceOf(b, ops, i) \subseteq DOMAIN ops
<1>1. Len(ops) \in Nat /\ DOMAIN ops = 1..Len(ops) OBVIOUS
<1>2. IsFiniteSet(1..Len(ops)) BY <1>1, FS_Interval
<1>3. SinceOf(b, ops, i) \subseteq 1..Len(ops) BY <1>1 DEF SinceOf
<1> QED BY <1>1, <1>2, <1>3, FS_Subset

LEMMA LedgerInt ==
  ASSUME NEW ops \in Seq(OperationRow), NEW b \in Nat, NEW i,
         \A k \in SinceOf(b, ops, i) : ops[k].net # NULL
  PROVE  LedgerOf(b, ops, i) \in Int
<1> DEFINE S == SinceOf(b, ops, i)
           f == [k \in S |-> Signed(ops[k])]
<1>1. IsFiniteSet(S) /\ S \subseteq DOMAIN ops BY SinceFinite
<1>2. \A k \in S : ops[k] \in OperationRow BY <1>1
<1>3. \A k \in S : f[k] \in Int BY <1>2, SignedInt
<1>4. LedgerOf(b, ops, i) = SumFunctionOnSet(f, S) BY DEF LedgerOf, SumFunction
<1> HIDE DEF f, S
<1> QED BY <1>1, <1>3, <1>4, SumInt

(* Two ledgers with the same operations of an item come to the same.       *)
LEMMA LedgerSame ==
  ASSUME NEW ops \in Seq(OperationRow), NEW b \in Nat, NEW i, NEW other,
         SinceOf(b, other, i) = SinceOf(b, ops, i),
         \A k \in SinceOf(b, ops, i) : other[k] = ops[k]
  PROVE  LedgerOf(b, other, i) = LedgerOf(b, ops, i)
<1> DEFINE S == SinceOf(b, ops, i)
           f == [k \in S |-> Signed(ops[k])]
           g == [k \in S |-> Signed(other[k])]
<1>1. \A k \in S : f[k] = g[k] OBVIOUS
<1>2. f = g BY <1>1
<1>3. LedgerOf(b, ops, i) = SumFunction(f) /\ LedgerOf(b, other, i) = SumFunction(g)
  BY DEF LedgerOf
<1> QED BY <1>2, <1>3

(* Books that begin now.                                                   *)
LEMMA BooksFresh ==
  ASSUME NEW ops \in Seq(OperationRow), NEW i, NEW b, NEW row,
         b.op = Len(ops), b.value \in Nat, row.value # NULL => row.value = b.value
  PROVE  Books(b, row, ops, i)
<1> DEFINE f == [k \in SinceOf(b.op, ops, i) |-> Signed(ops[k])]
<1>1. SinceOf(b.op, ops, i) = {} BY DEF SinceOf
<1>2. DOMAIN f = {} BY <1>1
<1>3. LedgerOf(b.op, ops, i) = SumFunctionOnSet(f, {}) BY <1>2 DEF LedgerOf, SumFunction
<1> HIDE DEF f
<1>4. LedgerOf(b.op, ops, i) = 0 BY <1>3, SumEmpty
<1> QED BY <1>1, <1>4 DEF Books

(* One more operation: of another item or outside the stock, or of this.   *)
LEMMA SinceAppend ==
  ASSUME NEW ops \in Seq(OperationRow), NEW op \in OperationRow, NEW b \in Nat, NEW i,
         b <= Len(ops), NEW more, Longer(more, ops, op)
  PROVE  /\ \A k \in SinceOf(b, ops, i) : more[k] = ops[k]
         /\ more[Len(ops) + 1] = op
         /\ Len(ops) + 1 \notin SinceOf(b, ops, i)
         /\ op.item = i /\ op.kind # "EXTERNAL" =>
              SinceOf(b, more, i) = SinceOf(b, ops, i) \cup {Len(ops) + 1}
         /\ op.item # i \/ op.kind = "EXTERNAL" =>
              SinceOf(b, more, i) = SinceOf(b, ops, i)
<1> DEFINE n == Len(ops)
<1>1. n \in Nat /\ Len(more) = n + 1 /\ more[n + 1] = op /\ \A k \in 1..n : more[k] = ops[k]
  BY DEF Longer
<1> HIDE DEF n
<1>2. \A k : k \in (b + 1)..(n + 1) <=> k \in (b + 1)..n \/ k = n + 1
  BY <1>1 DEF n
<1>3. \A k \in (b + 1)..n : more[k] = ops[k] BY <1>1 DEF n
<1>4. \A k : k \in SinceOf(b, more, i) <=>
               \/ k \in SinceOf(b, ops, i)
               \/ k = n + 1 /\ op.item = i /\ op.kind # "EXTERNAL"
  BY <1>1, <1>2, <1>3 DEF SinceOf, n
<1>5. \A k \in SinceOf(b, ops, i) : more[k] = ops[k] BY <1>3 DEF SinceOf, n
<1>6. n + 1 \notin SinceOf(b, ops, i) BY <1>1 DEF SinceOf, n
<1> QED BY <1>1, <1>4, <1>5, <1>6 DEF n

LEMMA BooksKeep ==
  ASSUME NEW ops \in Seq(OperationRow), NEW op \in OperationRow, NEW i, NEW b, NEW row,
         b.op \in 0..Len(ops), op.item # i \/ op.kind = "EXTERNAL", Books(b, row, ops, i),
         NEW more, Longer(more, ops, op)
  PROVE  Books(b, row, more, i)
<1>1. /\ SinceOf(b.op, more, i) = SinceOf(b.op, ops, i)
      /\ \A k \in SinceOf(b.op, ops, i) : more[k] = ops[k]
  <2> DEFINE c == b.op
  <2>1. c \in Nat /\ c <= Len(ops) OBVIOUS
  <2> HIDE DEF c
  <2>2. /\ SinceOf(c, more, i) = SinceOf(c, ops, i)
        /\ \A k \in SinceOf(c, ops, i) : more[k] = ops[k]
    BY <2>1, SinceAppend
  <2> QED BY <2>2 DEF c
<1>2. LedgerOf(b.op, more, i) = LedgerOf(b.op, ops, i)
  <2>1. b.op \in Nat OBVIOUS
  <2> QED BY <1>1, <2>1, LedgerSame
<1> QED BY <1>1, <1>2 DEF Books, BehindTheCut

LEMMA BooksAdd ==
  ASSUME NEW ops \in Seq(OperationRow), NEW op \in OperationRow, NEW i, NEW b, NEW row,
         NEW new, b.op \in 0..Len(ops), b.value \in Nat,
         op.item = i, op.kind # "EXTERNAL", Books(b, row, ops, i),
         row.version > 0, new.cut = row.cut,
         new.value # NULL => /\ row.value # NULL /\ op.net # NULL
                             /\ new.value = row.value + Signed(op),
         NEW more, Longer(more, ops, op)
  PROVE  Books(b, new, more, i)
<1> DEFINE n == Len(ops)
           S == SinceOf(b.op, ops, i)
<1>1. /\ \A k \in S : more[k] = ops[k]
      /\ more[n + 1] = op /\ n + 1 \notin S
      /\ SinceOf(b.op, more, i) = S \cup {n + 1}
  <2> DEFINE c == b.op
  <2>1. c \in Nat /\ c <= Len(ops) OBVIOUS
  <2> HIDE DEF c
  <2>2. /\ \A k \in SinceOf(c, ops, i) : more[k] = ops[k]
        /\ more[Len(ops) + 1] = op
        /\ Len(ops) + 1 \notin SinceOf(c, ops, i)
        /\ SinceOf(c, more, i) = SinceOf(c, ops, i) \cup {Len(ops) + 1}
    BY <2>1, SinceAppend
  <2> QED BY <2>2 DEF c
<1> SUFFICES ASSUME new.value # NULL, ~BehindTheCut(b, new, more, i)
             PROVE  /\ \A k \in S \cup {n + 1} : more[k].net # NULL
                    /\ new.value = b.value + LedgerOf(b.op, more, i)
  BY <1>1 DEF Books
<1>2. ~BehindTheCut(b, row, ops, i) BY <1>1 DEF BehindTheCut
<1>3. /\ \A k \in S : ops[k].net # NULL
      /\ row.value = b.value + LedgerOf(b.op, ops, i)
  BY <1>2 DEF Books
<1>4. \A k \in S \cup {n + 1} : more[k].net # NULL BY <1>1, <1>3
<1>5. LedgerOf(b.op, more, i) = Signed(op) + LedgerOf(b.op, ops, i)
  <2> DEFINE f == [k \in S |-> Signed(ops[k])]
             g == [k \in S \cup {n + 1} |-> Signed(more[k])]
  <2>1. LedgerOf(b.op, ops, i) = SumFunctionOnSet(f, S) BY DEF LedgerOf, SumFunction
  <2>2. LedgerOf(b.op, more, i) = SumFunctionOnSet(g, S \cup {n + 1})
    BY <1>1 DEF LedgerOf, SumFunction
  <2>3. IsFiniteSet(S) /\ S \subseteq DOMAIN ops BY SinceFinite
  <2>4. \A k \in S : ops[k] \in OperationRow BY <2>3
  <2>5. \A k \in S : g[k] = f[k] /\ g[k] \in Int BY <1>1, <1>3, <2>4, SignedInt
  <2>6. g[n + 1] = Signed(op) /\ Signed(op) \in Int BY <1>1, SignedInt
  <2> HIDE DEF f, g, S, n
  <2>7. \A k \in S \cup {n + 1} : g[k] \in Int BY <2>5, <2>6
  <2>8. SumFunctionOnSet(g, S \cup {n + 1}) = g[n + 1] + SumFunctionOnSet(g, S)
    BY <1>1, <2>3, <2>7, SumAdd
  <2>9. SumFunctionOnSet(g, S) = SumFunctionOnSet(f, S) BY <2>3, <2>5, SumSame
  <2> QED BY <2>1, <2>2, <2>6, <2>8, <2>9
<1>6. LedgerOf(b.op, ops, i) \in Int /\ Signed(op) \in Int
  BY <1>3, LedgerInt, SignedInt
<1>7. new.value = row.value + Signed(op) OBVIOUS
<1> HIDE DEF S, n
<1> QED BY <1>3, <1>4, <1>5, <1>6, <1>7

(* A price revised: the books of its item stand if the operation is dated  *)
(* before the cut, for then they promise nothing any more.                 *)
LEMMA BooksRevise ==
  ASSUME NEW ops \in Seq(OperationRow), NEW c \in DOMAIN ops, NEW op \in OperationRow,
         NEW i, NEW b, NEW row, b.op \in Nat,
         op.item = ops[c].item, op.kind = ops[c].kind, op.at = ops[c].at, op.version > 1,
         ops[c].item = i /\ ops[c].kind # "EXTERNAL" => ops[c].at < row.cut,
         Books(b, row, ops, i), NEW other, Replaced(other, ops, c, op)
  PROVE  Books(b, row, other, i)
<1>1. /\ Len(other) = Len(ops) /\ other[c] = op
      /\ \A k \in DOMAIN ops : k # c => other[k] = ops[k]
  BY DEF Replaced
<1>2. \A k \in DOMAIN ops : other[k].item = ops[k].item /\ other[k].kind = ops[k].kind
  BY <1>1
<1>3. (b.op + 1)..Len(ops) \subseteq DOMAIN ops OBVIOUS
<1>4. SinceOf(b.op, other, i) = SinceOf(b.op, ops, i) BY <1>1, <1>2, <1>3 DEF SinceOf
<1>5. SinceOf(b.op, ops, i) \subseteq DOMAIN ops BY <1>3 DEF SinceOf
<1>6. CASE c \in SinceOf(b.op, ops, i)
  <2>1. other[c].at < row.cut /\ other[c].version > 1 BY <1>1, <1>6 DEF SinceOf
  <2>2. BehindTheCut(b, row, other, i) BY <1>4, <1>6, <2>1 DEF BehindTheCut
  <2> QED BY <2>2 DEF Books
<1>7. CASE c \notin SinceOf(b.op, ops, i)
  <2>1. \A k \in SinceOf(b.op, ops, i) : other[k] = ops[k] BY <1>1, <1>5, <1>7
  <2>2. LedgerOf(b.op, other, i) = LedgerOf(b.op, ops, i)
    <3> HIDE DEF Replaced
    <3> QED BY <1>4, <2>1, LedgerSame
  <2> QED BY <1>4, <2>1, <2>2 DEF Books, BehindTheCut
<1> QED BY <1>6, <1>7

-----------------------------------------------------------------------------
(* What the steps of Costs do to the books of every item.                  *)
AllBooks == \A i \in Items : Books(base[i], valuation[i], operations, i)

LEMMA ConservedIsBooks == ValueConserved <=> AllBooks
BY DEF ValueConserved, AllBooks, Books, BehindTheCut, CorrectedBehindTheCut, Since, SinceOf,
       LedgerOf

(* The tables a command may write, as they must be after it.               *)
Written ==
    /\ stock' \in [Items -> Nat]
    /\ valuation' \in [Items -> ValuationRow]
    /\ operations' \in Seq(OperationRow)
    /\ base' \in [Items -> [op : Nat, value : Nat]]
    /\ \A i \in Items : base'[i].op <= Len(operations')
    /\ AllBooks'

LEMMA LockedOK ==
  ASSUME TypeOK, NEW i \in Items
  PROVE  /\ Locked(i, stock[i]) \in ValuationRow
         /\ Locked(i, stock[i]).cut = valuation[i].cut
         /\ Locked(i, stock[i]).version = valuation[i].version
         /\ Stale(i, stock[i]) => Locked(i, stock[i]).value = IF stock[i] = 0 THEN 0 ELSE NULL
         /\ ~Stale(i, stock[i]) => Locked(i, stock[i]) = valuation[i] /\ valuation[i].version > 0
<1>1. stock[i] \in Nat /\ valuation[i] \in ValuationRow BY DEF TypeOK
<1> QED BY <1>1 DEF Locked, Stale, ValuationRow

(* The books of the other items take no notice.                            *)
LEMMA OthersKeep ==
  ASSUME TypeOK, AllBooks, NEW i \in Items, NEW j \in Items, j # i,
         NEW op \in OperationRow, op.item = i, operations' = Append(operations, op),
         base'[j] = base[j], valuation'[j] = valuation[j]
  PROVE  Books(base'[j], valuation'[j], operations', j)
<1>1. /\ operations \in Seq(OperationRow) /\ base[j].op \in 0..Len(operations)
      /\ Books(base[j], valuation[j], operations, j)
  BY DEF TypeOK, AllBooks
<1>2. Longer(operations', operations, op) BY DEF Longer
<1> QED BY <1>1, <1>2, BooksKeep

LEMMA AddBooks ==
  ASSUME TypeOK, AllBooks, NEW i \in Items, NEW q \in Nat, NEW net \in Nat \cup {NULL},
         NEW op \in OperationRow, op.item = i, op.kind \in {"RECEIPT", "RETURN"}, op.net = net,
         Add(i, q, net), operations' = Append(operations, op)
  PROVE  Written
<1> DEFINE row == Locked(i, stock[i])
           n == Len(operations)
           new == [value |-> Plus(row.value, net), version |-> row.version + 1,
                   cut |-> row.cut, qty |-> stock[i] + q]
           start == IF Stale(i, stock[i]) THEN [op |-> n, value |-> 0] ELSE base[i]
<1>1. /\ operations \in Seq(OperationRow) /\ n \in Nat
      /\ valuation \in [Items -> ValuationRow] /\ stock \in [Items -> Nat]
      /\ base \in [Items -> [op : Nat, value : Nat]]
      /\ \A j \in Items : base[j].op <= n
  BY DEF TypeOK
<1>2. /\ stock' = [stock EXCEPT ![i] = @ + q] /\ valuation' = [valuation EXCEPT ![i] = new]
      /\ base' = [base EXCEPT ![i] = start]
  <2>1. base = [base EXCEPT ![i] = base[i]] BY <1>1
  <2> QED BY <2>1 DEF Add, Rebase
<1>3. /\ row \in ValuationRow /\ row.cut = valuation[i].cut
      /\ Stale(i, stock[i]) => row.value = IF stock[i] = 0 THEN 0 ELSE NULL
      /\ ~Stale(i, stock[i]) => row = valuation[i] /\ valuation[i].version > 0
  BY LockedOK
<1>4. /\ new \in ValuationRow
      /\ new.cut = row.cut
      /\ new.value # NULL => row.value # NULL /\ net # NULL /\ new.value = row.value + net
  <2> HIDE DEF row
  <2>1. row.value \in Nat \cup {NULL} BY <1>3 DEF ValuationRow
  <2>2. Plus(row.value, net) \in Nat \cup {NULL} BY <2>1 DEF Plus
  <2>3. stock[i] + q \in Nat BY <1>1
  <2> QED BY <1>3, <2>2, <2>3 DEF Plus, ValuationRow
<1> HIDE DEF row, new
<1>5. operations' \in Seq(OperationRow) /\ Len(operations') = n + 1 BY <1>1
<1>6. start \in [op : Nat, value : Nat] /\ start.op <= n BY <1>1
<1> HIDE DEF start
<1>7. /\ base' \in [Items -> [op : Nat, value : Nat]]
      /\ \A j \in Items : base'[j].op <= n
  BY <1>1, <1>2, <1>6
<1>8. Longer(operations', operations, op) BY DEF Longer
<1>9. Signed(op) = net BY DEF Signed
<1>10. Books(base'[i], new, operations', i)
  <2>1. CASE Stale(i, stock[i])
    <3> DEFINE zero == [value |-> 0, version |-> 1, cut |-> new.cut]
               b == [op |-> n, value |-> 0]
    <3>1. base'[i] = b BY <1>1, <1>2, <2>1 DEF start
    <3>2. b.op = n /\ b.value = 0 /\ zero.value = 0 /\ zero.version = 1 /\ zero.cut = new.cut
      OBVIOUS
    <3>3. new.value # NULL => /\ zero.value # NULL /\ op.net # NULL
                              /\ new.value = zero.value + Signed(op)
      <4>1. NULL \notin Int BY CostsAssumption
      <4> QED BY <1>3, <1>4, <1>9, <2>1, <3>2, <4>1
    <3> HIDE DEF zero, b
    <3>4. Books(b, zero, operations, i)
      <4>1. operations \in Seq(OperationRow) /\ b.op = Len(operations) BY <1>1, <3>2
      <4>2. b.value \in Nat /\ (zero.value # NULL => zero.value = b.value) BY <3>2
      <4> HIDE DEF n
      <4> QED BY <4>1, <4>2, BooksFresh
    <3>5. b.op \in 0..Len(operations) /\ b.value \in Nat BY <1>1, <3>2
    <3>6. op.kind # "EXTERNAL" /\ zero.version > 0 /\ new.cut = zero.cut
          /\ operations \in Seq(OperationRow)
      BY <1>1, <3>2
    <3>7. Books(b, new, operations', i)
      BY <1>8, <3>3, <3>4, <3>5, <3>6, BooksAdd
    <3> QED BY <3>1, <3>7
  <2>2. CASE ~Stale(i, stock[i])
    <3>1. base'[i] = base[i] /\ row = valuation[i] BY <1>1, <1>2, <1>3, <2>2 DEF start
    <3>2. Books(base[i], row, operations, i) /\ row.version > 0
      BY <1>3, <2>2, <3>1 DEF AllBooks
    <3>3. base[i].op \in 0..n /\ base[i].value \in Nat BY <1>1
    <3>4. Books(base[i], new, operations', i)
      <4> DEFINE b == base[i]
      <4>1. b.op \in 0..n /\ b.value \in Nat /\ Books(b, row, operations, i) BY <3>2, <3>3
      <4> HIDE DEF b
      <4>2. Books(b, new, operations', i)
        BY <1>1, <1>4, <1>8, <1>9, <3>2, <4>1, BooksAdd
      <4> QED BY <4>2 DEF b
    <3> QED BY <3>1, <3>4
  <2> QED BY <2>1, <2>2
<1>11. valuation'[i] = new /\ \A j \in Items : j # i => valuation'[j] = valuation[j]
                                                        /\ base'[j] = base[j]
  BY <1>1, <1>2
<1>12. AllBooks' BY <1>10, <1>11, OthersKeep DEF AllBooks
<1>13. stock' \in [Items -> Nat] /\ valuation' \in [Items -> ValuationRow]
  BY <1>1, <1>2, <1>4
<1> QED BY <1>1, <1>5, <1>7, <1>12, <1>13, SMTT(30) DEF Written

LEMMA DeltaBooks ==
  ASSUME TypeOK, AllBooks, NEW i \in Items, NEW delta \in Int,
         NEW op \in OperationRow, op.item = i,
         op.kind \in {"RECEIPT", "ADJUSTMENT", "CONSUMPTION"},
         op.kind = "RECEIPT" => delta > 0, ApplyDelta(i, delta, op)
  PROVE  /\ Written
         /\ \E done \in OperationRow :
              /\ operations' = Append(operations, done)
              /\ done.kind = op.kind /\ done.qty = op.qty
<1> DEFINE row == Locked(i, stock[i])
           n == Len(operations)
           left == stock[i] + delta
           net == IF delta < 0 /\ row.value # NULL
                  THEN AllocatedCost(row.value, -delta, stock[i]) ELSE NULL
           done == [op EXCEPT !.net = net]
           new == [value |-> IF left = 0 THEN 0 ELSE Minus(row.value, net),
                   version |-> row.version + 1, cut |-> row.cut, qty |-> left]
           start == IF left = 0 THEN [op |-> n + 1, value |-> 0]
                    ELSE IF Stale(i, stock[i]) THEN [op |-> n, value |-> 0] ELSE base[i]
<1>1. /\ operations \in Seq(OperationRow) /\ n \in Nat
      /\ valuation \in [Items -> ValuationRow] /\ stock \in [Items -> Nat]
      /\ base \in [Items -> [op : Nat, value : Nat]]
      /\ \A j \in Items : base[j].op <= n
  BY DEF TypeOK
<1>2. /\ left \in Nat
      /\ stock' = [stock EXCEPT ![i] = left] /\ valuation' = [valuation EXCEPT ![i] = new]
      /\ operations' = Append(operations, done)
  BY CostsAssumption DEF ApplyDelta
<1>3. base' = [base EXCEPT ![i] = start]
  <2>1. base = [base EXCEPT ![i] = base[i]] BY <1>1
  <2>2. CASE left = 0 BY <2>2 DEF ApplyDelta, Rebase
  <2>3. CASE left # 0 /\ Stale(i, stock[i]) BY <2>3 DEF ApplyDelta, Rebase
  <2>4. CASE left # 0 /\ ~Stale(i, stock[i]) BY <2>1, <2>4 DEF ApplyDelta, Rebase
  <2> QED BY <2>2, <2>3, <2>4
<1>4. /\ row \in ValuationRow /\ row.cut = valuation[i].cut
      /\ Stale(i, stock[i]) => row.value = IF stock[i] = 0 THEN 0 ELSE NULL
      /\ ~Stale(i, stock[i]) => row = valuation[i] /\ valuation[i].version > 0
  BY LockedOK
<1>5. NULL \notin Int BY CostsAssumption
<1>6. row.value \in Nat \cup {NULL} BY <1>4 DEF ValuationRow
<1>7. net # NULL => /\ delta < 0 /\ row.value # NULL /\ net \in 0..row.value
  <2> HIDE DEF row
  <2> SUFFICES ASSUME delta < 0, row.value # NULL
               PROVE  AllocatedCost(row.value, -delta, stock[i]) \in 0..row.value
    OBVIOUS
  <2>1. -delta \in Nat /\ stock[i] \in Nat \ {0} /\ -delta <= stock[i]
    BY <1>1, <1>2
  <2> QED BY <1>6, <2>1, Shares
<1> HIDE DEF row, net
<1>8. net \in Nat \cup {NULL} BY <1>6, <1>7
<1>9. /\ done \in OperationRow /\ done.net = net
      /\ done.item = i /\ done.kind = op.kind /\ done.qty = op.qty
  BY <1>8 DEF OperationRow
<1>10. /\ new \in ValuationRow /\ new.cut = row.cut
       /\ left = 0 => new.value = 0
       /\ new.value # NULL /\ left # 0 =>
            /\ row.value # NULL /\ net # NULL
            /\ new.value = row.value - net
  <2>1. Minus(row.value, net) \in Nat \cup {NULL} BY <1>5, <1>6, <1>7 DEF Minus
  <2> QED BY <1>2, <1>4, <2>1 DEF Minus, ValuationRow
<1>11. net # NULL => Signed(done) = -net
  BY <1>7, <1>9 DEF Signed
<1>12. start \in [op : Nat, value : Nat] /\ start.op <= n + 1 BY <1>1
<1> HIDE DEF start, new, done, left
<1>13. operations' \in Seq(OperationRow) /\ Len(operations') = n + 1 BY <1>1, <1>2, <1>9
<1>14. /\ base' \in [Items -> [op : Nat, value : Nat]]
       /\ \A j \in Items : base'[j].op <= n + 1
  BY <1>1, <1>3, <1>12
<1>15. Longer(operations', operations, done) BY <1>2 DEF Longer
<1>16. Books(base'[i], new, operations', i)
  <2>1. CASE left = 0
    <3>1. base'[i].op = n + 1 /\ base'[i].value = 0 BY <1>1, <1>3, <2>1 DEF start
    <3> QED BY <1>10, <1>13, <2>1, <3>1, BooksFresh
  <2>2. CASE left # 0 /\ Stale(i, stock[i])
    <3>1. new.value = NULL
      <4> SUFFICES ASSUME new.value # NULL PROVE FALSE OBVIOUS
      <4>1. row.value # NULL /\ net # NULL BY <1>10, <2>2
      <4>2. delta < 0 /\ stock[i] = 0 BY <1>4, <1>7, <2>2, <4>1
      <4>3. left < 0 BY <4>2 DEF left
      <4> QED BY <1>2, <4>3
    <3> QED BY <3>1 DEF Books
  <2>3. CASE left # 0 /\ ~Stale(i, stock[i])
    <3>1. base'[i] = base[i] /\ row = valuation[i] BY <1>1, <1>3, <1>4, <2>3 DEF start
    <3>2. Books(base[i], row, operations, i) /\ row.version > 0
      BY <1>4, <2>3, <3>1 DEF AllBooks
    <3> DEFINE b == base[i]
    <3>3. b.op \in 0..Len(operations) /\ b.value \in Nat BY <1>1
    <3>4. new.value # NULL => /\ row.value # NULL /\ done.net # NULL
                              /\ new.value = row.value + Signed(done)
      BY <1>6, <1>8, <1>9, <1>10, <1>11, <2>3
    <3>5. done.item = i /\ done.kind # "EXTERNAL" /\ operations \in Seq(OperationRow)
      BY <1>1, <1>9
    <3> HIDE DEF b
    <3>6. Books(b, new, operations', i)
      <4>1. Books(b, row, operations, i) BY <3>2 DEF b
      <4> QED BY <1>9, <1>10, <1>15, <3>2, <3>3, <3>4, <3>5, <4>1, BooksAdd
    <3> QED BY <3>1, <3>6 DEF b
  <2> QED BY <2>1, <2>2, <2>3
<1>17. valuation'[i] = new /\ \A j \in Items : j # i => valuation'[j] = valuation[j]
                                                        /\ base'[j] = base[j]
  BY <1>1, <1>2, <1>3
<1>18. AllBooks' BY <1>2, <1>9, <1>16, <1>17, OthersKeep DEF AllBooks
<1>19. stock' \in [Items -> Nat] /\ valuation' \in [Items -> ValuationRow]
  BY <1>1, <1>2, <1>10
<1>20. Written BY <1>13, <1>14, <1>18, <1>19 DEF Written
<1> QED BY <1>2, <1>9, <1>20

-----------------------------------------------------------------------------
(* The returns of one operation k, of any sequence of operations.          *)
RetOf(k, ops) == {r \in DOMAIN ops : ops[r].kind = "RETURN" /\ ops[r].source = k}

QtyBack(k, ops) == SumFunction([r \in RetOf(k, ops) |-> ops[r].qty])

NetBack(k, ops) == SumFunction([r \in RetOf(k, ops) |-> ops[r].net])

NetKnown(k, ops) == ops[k].net # NULL /\ \A r \in RetOf(k, ops) : ops[r].net # NULL

Bounded(k, ops) ==
    LET left == ops[k].net - NetBack(k, ops) IN
    ops[k].kind = "CONSUMPTION" =>
       /\ QtyBack(k, ops) <= ops[k].qty
       /\ NetKnown(k, ops) => left >= 0
       /\ NetKnown(k, ops) /\ QtyBack(k, ops) = ops[k].qty => left = 0

(* A return names an operation, and a consumption took something.          *)
Sourced(ops) ==
    \A r \in DOMAIN ops : /\ ops[r].kind = "RETURN" => ops[r].source \in DOMAIN ops
                          /\ ops[r].kind = "CONSUMPTION" => ops[r].qty > 0

AllReturns == Sourced(operations) /\ \A k \in DOMAIN operations : Bounded(k, operations)

LEMMA RetFinite ==
  ASSUME NEW ops \in Seq(OperationRow), NEW k
  PROVE  IsFiniteSet(RetOf(k, ops)) /\ \A r \in RetOf(k, ops) : ops[r] \in OperationRow
<1>1. Len(ops) \in Nat /\ DOMAIN ops = 1..Len(ops) OBVIOUS
<1>2. IsFiniteSet(1..Len(ops)) BY <1>1, FS_Interval
<1>3. RetOf(k, ops) \subseteq 1..Len(ops) BY <1>1 DEF RetOf
<1> QED BY <1>1, <1>2, <1>3, FS_Subset

LEMMA BackNat ==
  ASSUME NEW ops \in Seq(OperationRow), NEW k
  PROVE  /\ QtyBack(k, ops) \in Nat
         /\ (\A r \in RetOf(k, ops) : ops[r].net # NULL) => NetBack(k, ops) \in Nat
<1> DEFINE S == RetOf(k, ops)
           f == [r \in S |-> ops[r].qty]
           g == [r \in S |-> ops[r].net]
<1>1. IsFiniteSet(S) /\ \A r \in S : ops[r] \in OperationRow BY RetFinite
<1>2. \A r \in S : f[r] \in Nat /\ (ops[r].net # NULL => g[r] \in Nat)
  BY <1>1 DEF OperationRow
<1>3. QtyBack(k, ops) = SumFunctionOnSet(f, S) /\ NetBack(k, ops) = SumFunctionOnSet(g, S)
  BY DEF QtyBack, NetBack, SumFunction
<1> HIDE DEF f, g, S
<1>4. SumFunctionOnSet(f, S) \in Nat BY <1>1, <1>2, SumNat
<1>5. ASSUME \A r \in S : ops[r].net # NULL PROVE SumFunctionOnSet(g, S) \in Nat
  BY <1>1, <1>2, <1>5, SumNat
<1> QED BY <1>3, <1>4, <1>5 DEF S

(* Nothing came back yet.                                                  *)
LEMMA NoReturns ==
  ASSUME NEW ops, NEW k, RetOf(k, ops) = {}
  PROVE  QtyBack(k, ops) = 0 /\ NetBack(k, ops) = 0
<1> DEFINE f == [r \in RetOf(k, ops) |-> ops[r].qty]
           g == [r \in RetOf(k, ops) |-> ops[r].net]
<1>1. DOMAIN f = {} /\ DOMAIN g = {} OBVIOUS
<1>2. QtyBack(k, ops) = SumFunctionOnSet(f, {}) /\ NetBack(k, ops) = SumFunctionOnSet(g, {})
  BY <1>1 DEF QtyBack, NetBack, SumFunction
<1> HIDE DEF f, g
<1> QED BY <1>2, SumEmpty

(* What matters to the returns of k stays as it is.                        *)
LEMMA BoundedSame ==
  ASSUME NEW ops, NEW other, NEW k, RetOf(k, other) = RetOf(k, ops),
         \A r \in RetOf(k, ops) : other[r] = ops[r], other[k] = ops[k], Bounded(k, ops)
  PROVE  Bounded(k, other)
<1> DEFINE S == RetOf(k, ops)
<1>1. [r \in S |-> ops[r].qty] = [r \in S |-> other[r].qty] OBVIOUS
<1>2. [r \in S |-> ops[r].net] = [r \in S |-> other[r].net] OBVIOUS
<1>3. QtyBack(k, other) = QtyBack(k, ops) BY <1>1 DEF QtyBack
<1>4. NetBack(k, other) = NetBack(k, ops) BY <1>2 DEF NetBack
<1>5. NetKnown(k, other) = NetKnown(k, ops) BY DEF NetKnown
<1> QED BY <1>3, <1>4, <1>5 DEF Bounded

LEMMA RetAppend ==
  ASSUME NEW ops \in Seq(OperationRow), NEW op \in OperationRow, NEW k, NEW more,
         Longer(more, ops, op)
  PROVE  RetOf(k, more) = IF op.kind = "RETURN" /\ op.source = k
                          THEN RetOf(k, ops) \cup {Len(ops) + 1} ELSE RetOf(k, ops)
<1> DEFINE n == Len(ops)
<1>1. /\ \A r \in DOMAIN ops : more[r] = ops[r]
      /\ more[n + 1] = op /\ n + 1 \notin DOMAIN ops
      /\ DOMAIN more = DOMAIN ops \cup {n + 1}
  BY DEF Longer
<1> QED BY <1>1 DEF RetOf

(* An operation that is no return joins: its own returns are still to come.*)
LEMMA ReturnsKeep ==
  ASSUME NEW ops \in Seq(OperationRow), NEW op \in OperationRow,
         op.kind # "RETURN", op.kind = "CONSUMPTION" => op.qty > 0,
         Sourced(ops), \A k \in DOMAIN ops : Bounded(k, ops),
         NEW more, Longer(more, ops, op)
  PROVE  Sourced(more) /\ \A k \in DOMAIN more : Bounded(k, more)
<1> DEFINE n == Len(ops)
<1>1. /\ \A r \in DOMAIN ops : more[r] = ops[r]
      /\ more[n + 1] = op /\ n + 1 \notin DOMAIN ops
      /\ DOMAIN more = DOMAIN ops \cup {n + 1}
      /\ \A k : RetOf(k, more) = RetOf(k, ops)
  <2>1. ASSUME NEW k PROVE RetOf(k, more) = RetOf(k, ops) BY RetAppend
  <2> QED BY <2>1 DEF Longer
<1> HIDE DEF n
<1>2. Sourced(more) BY <1>1 DEF Sourced
<1>3. ASSUME NEW k \in DOMAIN ops PROVE Bounded(k, more)
  <2>1. \A r \in RetOf(k, ops) : more[r] = ops[r] BY <1>1 DEF RetOf
  <2> QED BY <1>1, <2>1, BoundedSame
<1>4. Bounded(n + 1, more)
  <2>1. RetOf(n + 1, ops) = {} BY <1>1 DEF RetOf, Sourced
  <2>2. QtyBack(n + 1, more) = 0 /\ NetBack(n + 1, more) = 0 BY <1>1, <2>1, NoReturns
  <2>3. op.qty \in Nat /\ op.net \in Nat \cup {NULL} BY DEF OperationRow
  <2> QED BY <1>1, <2>2, <2>3 DEF Bounded, NetKnown
<1> QED BY <1>1, <1>2, <1>3, <1>4

(* One more return, of no more than is left and for its share of the cost  *)
(* that is left.                                                           *)
LEMMA ReturnsAdd ==
  ASSUME NEW ops \in Seq(OperationRow), NEW k \in DOMAIN ops, NEW op \in OperationRow,
         op.kind = "RETURN", op.source = k, ops[k].kind = "CONSUMPTION",
         Sourced(ops), \A c \in DOMAIN ops : Bounded(c, ops),
         op.qty > 0, op.qty <= ops[k].qty - QtyBack(k, ops),
         NetKnown(k, ops) =>
           op.net = AllocatedCost(ops[k].net - NetBack(k, ops), op.qty,
                                  ops[k].qty - QtyBack(k, ops)),
         ~NetKnown(k, ops) => op.net = NULL,
         NEW more, Longer(more, ops, op)
  PROVE  Sourced(more) /\ \A c \in DOMAIN more : Bounded(c, more)
<1> DEFINE n == Len(ops)
           S == RetOf(k, ops)
<1>1. /\ \A r \in DOMAIN ops : more[r] = ops[r]
      /\ more[n + 1] = op /\ n + 1 \notin DOMAIN ops
      /\ DOMAIN more = DOMAIN ops \cup {n + 1}
      /\ RetOf(k, more) = S \cup {n + 1}
      /\ \A c : c # k => RetOf(c, more) = RetOf(c, ops)
  <2>1. ASSUME NEW c, c # k PROVE RetOf(c, more) = RetOf(c, ops) BY <2>1, RetAppend
  <2>2. RetOf(k, more) = RetOf(k, ops) \cup {Len(ops) + 1} BY RetAppend
  <2> QED BY <2>1, <2>2 DEF Longer
<1> HIDE DEF n
<1>2. Sourced(more) BY <1>1 DEF Sourced
<1>3. ASSUME NEW c \in DOMAIN ops, c # k PROVE Bounded(c, more)
  <2>1. \A r \in RetOf(c, ops) : more[r] = ops[r] BY <1>1 DEF RetOf
  <2> QED BY <1>1, <1>3, <2>1, BoundedSame
<1>4. Bounded(n + 1, more) BY <1>1 DEF Bounded
<1>5. IsFiniteSet(S) /\ S \subseteq DOMAIN ops /\ \A r \in S : ops[r] \in OperationRow
  BY RetFinite DEF RetOf
<1>6. n + 1 \notin S /\ \A r \in S : more[r] = ops[r] BY <1>1, <1>5
<1>7. ops[k] \in OperationRow OBVIOUS
<1>8. QtyBack(k, ops) \in Nat /\ (NetKnown(k, ops) => NetBack(k, ops) \in Nat)
  BY BackNat DEF NetKnown
<1>9. QtyBack(k, more) = QtyBack(k, ops) + op.qty
  <2> DEFINE f == [r \in S |-> ops[r].qty]
             g == [r \in S \cup {n + 1} |-> more[r].qty]
  <2>1. /\ QtyBack(k, ops) = SumFunctionOnSet(f, S)
        /\ QtyBack(k, more) = SumFunctionOnSet(g, S \cup {n + 1})
    BY <1>1 DEF QtyBack, SumFunction
  <2>0. \A r \in S : ops[r].qty \in Int BY <1>5 DEF OperationRow
  <2>2. \A r \in S : g[r] = f[r] /\ g[r] \in Int BY <1>6, <2>0
  <2>3. g[n + 1] = op.qty /\ op.qty \in Int BY <1>1 DEF OperationRow
  <2> HIDE DEF f, g, S
  <2>4. \A r \in S \cup {n + 1} : g[r] \in Int BY <2>2, <2>3
  <2>5. SumFunctionOnSet(g, S \cup {n + 1}) = g[n + 1] + SumFunctionOnSet(g, S)
    BY <1>5, <1>6, <2>4, SumAdd
  <2>6. SumFunctionOnSet(g, S) = SumFunctionOnSet(f, S) BY <1>5, <2>2, SumSame
  <2> QED BY <1>8, <2>1, <2>3, <2>5, <2>6
<1>10. ASSUME NetKnown(k, more)
       PROVE  /\ NetKnown(k, ops) /\ op.net # NULL
              /\ NetBack(k, more) = NetBack(k, ops) + op.net
  <2>1. NetKnown(k, ops) /\ op.net # NULL BY <1>1, <1>6, <1>10 DEF NetKnown
  <2> DEFINE f == [r \in S |-> ops[r].net]
             g == [r \in S \cup {n + 1} |-> more[r].net]
  <2>2. /\ NetBack(k, ops) = SumFunctionOnSet(f, S)
        /\ NetBack(k, more) = SumFunctionOnSet(g, S \cup {n + 1})
    BY <1>1 DEF NetBack, SumFunction
  <2>3. \A r \in S : ops[r].net \in Int BY <1>5, <2>1 DEF NetKnown, OperationRow
  <2>4. \A r \in S : g[r] = f[r] /\ g[r] \in Int BY <1>6, <2>3
  <2>5. g[n + 1] = op.net /\ op.net \in Int BY <1>1, <2>1 DEF OperationRow
  <2> HIDE DEF f, g, S
  <2>6. \A r \in S \cup {n + 1} : g[r] \in Int BY <2>4, <2>5
  <2>7. SumFunctionOnSet(g, S \cup {n + 1}) = g[n + 1] + SumFunctionOnSet(g, S)
    BY <1>5, <1>6, <2>6, SumAdd
  <2>8. SumFunctionOnSet(g, S) = SumFunctionOnSet(f, S) BY <1>5, <2>4, SumSame
  <2> QED BY <1>8, <2>1, <2>2, <2>5, <2>7, <2>8
<1>11. Bounded(k, more)
  <2> DEFINE left == ops[k].net - NetBack(k, ops)
             some == ops[k].qty - QtyBack(k, ops)
  <2>1. op.qty \in Nat /\ ops[k].qty \in Nat /\ ops[k].net \in Nat \cup {NULL}
    BY <1>7 DEF OperationRow
  <2>2. more[k] = ops[k] BY <1>1
  <2>3. QtyBack(k, more) <= ops[k].qty BY <1>8, <1>9, <2>1
  <2>4. ASSUME NetKnown(k, more)
        PROVE  /\ ops[k].net - NetBack(k, more) >= 0
               /\ QtyBack(k, more) = ops[k].qty => ops[k].net - NetBack(k, more) = 0
    <3>1. /\ NetKnown(k, ops) /\ op.net # NULL
          /\ NetBack(k, more) = NetBack(k, ops) + op.net
      BY <1>10, <2>4
    <3>2. left \in Nat /\ some \in Nat \ {0} /\ op.qty <= some
      BY <1>8, <2>1, <3>1, SMTT(30) DEF Bounded, NetKnown
    <3>3. op.net = AllocatedCost(left, op.qty, some) BY <3>1
    <3> DEFINE q == op.qty
    <3> HIDE DEF left, some, q
    <3>4. op.net \in 0..left /\ (op.qty = some => op.net = left)
      <4>1. q \in Nat /\ q <= some BY <2>1, <3>2 DEF q
      <4>2. /\ AllocatedCost(left, q, some) \in 0..left
            /\ q = some => AllocatedCost(left, q, some) = left
        BY <3>2, <4>1, Shares
      <4> QED BY <3>3, <4>2 DEF q
    <3>5. ops[k].net - NetBack(k, more) = left - op.net
      BY <1>8, <2>1, <3>1, <3>2, <3>4 DEF left, NetKnown
    <3>6. QtyBack(k, more) = ops[k].qty => op.qty = some
      BY <1>8, <1>9, <2>1 DEF some
    <3> QED BY <3>2, <3>4, <3>5, <3>6
  <2> QED BY <2>2, <2>3, <2>4 DEF Bounded
<1> QED BY <1>1, <1>2, <1>3, <1>4, <1>11

-----------------------------------------------------------------------------
(* Every command keeps the books and bounds the returns.                   *)
CInv == TypeOK /\ AllBooks /\ AllReturns

Held == Written /\ AllReturns'

LEMMA OperationOK ==
  ASSUME TypeOK, NEW i \in Items, NEW kind \in Kinds, NEW q \in Nat,
         NEW net \in Nat \cup {NULL}
  PROVE  /\ Operation(i, kind, q, net) \in OperationRow
         /\ Operation(i, kind, q, net).item = i /\ Operation(i, kind, q, net).kind = kind
         /\ Operation(i, kind, q, net).qty = q /\ Operation(i, kind, q, net).net = net
<1>1. Now \in Nat BY DEF Now, TypeOK
<1> QED BY <1>1 DEF Operation, OperationRow

(* An operation that is no return is appended.                             *)
LEMMA AppendHeld ==
  ASSUME CInv, Written, NEW op \in OperationRow, op.kind # "RETURN",
         op.kind = "CONSUMPTION" => op.qty > 0, operations' = Append(operations, op)
  PROVE  Held
<1>1. /\ operations \in Seq(OperationRow) /\ Sourced(operations)
      /\ \A k \in DOMAIN operations : Bounded(k, operations)
      /\ Longer(operations', operations, op)
  BY DEF CInv, TypeOK, AllReturns, Longer
<1>2. Sourced(operations') /\ \A k \in DOMAIN operations' : Bounded(k, operations')
  BY <1>1, ReturnsKeep
<1> QED BY <1>2 DEF Held, AllReturns

LEMMA ReceiveHeld ==
  ASSUME CInv, NEW i \in Items, NEW q \in Quantities, NEW net \in Nets \cup {NULL},
         DoReceive(Receive(i, q, net))
  PROVE  Held
<1> DEFINE op == Operation(i, "RECEIPT", q, net)
<1>1. q \in Nat /\ net \in Nat \cup {NULL} /\ "RECEIPT" \in Kinds BY CostsAssumption DEF Kinds
<1>2. op \in OperationRow /\ op.item = i /\ op.kind = "RECEIPT" /\ op.net = net
  BY <1>1, OperationOK DEF CInv
<1>3. Add(i, q, net) /\ operations' = Append(operations, op) BY DEF DoReceive, Receive
<1> HIDE DEF op
<1>4. Written BY <1>1, <1>2, <1>3, AddBooks DEF CInv
<1> QED BY <1>2, <1>3, <1>4, AppendHeld

LEMMA DeltaHeld ==
  ASSUME CInv, NEW i \in Items, NEW delta \in Int, NEW op \in OperationRow, op.item = i,
         op.kind \in {"RECEIPT", "ADJUSTMENT", "CONSUMPTION"},
         op.kind = "RECEIPT" => delta > 0, op.kind = "CONSUMPTION" => op.qty > 0,
         ApplyDelta(i, delta, op)
  PROVE  Held
<1>1. /\ Written
      /\ \E done \in OperationRow :
           /\ operations' = Append(operations, done)
           /\ done.kind = op.kind /\ done.qty = op.qty
  BY DeltaBooks DEF CInv
<1>2. PICK done \in OperationRow : /\ operations' = Append(operations, done)
                                   /\ done.kind = op.kind /\ done.qty = op.qty
  BY <1>1
<1>3. done.kind # "RETURN" /\ (done.kind = "CONSUMPTION" => done.qty > 0) BY <1>2
<1> QED BY <1>1, <1>2, <1>3, AppendHeld

LEMMA AdjustHeld ==
  ASSUME CInv, NEW i \in Items, NEW d \in Deltas, DoAdjust(Adjust(i, d))
  PROVE  Held
<1> DEFINE q == IF d < 0 THEN -d ELSE d
           op == Operation(i, "ADJUSTMENT", q, NULL)
<1>1. /\ d \in Int /\ q \in Nat
      /\ "ADJUSTMENT" \in Kinds /\ NULL \in Nat \cup {NULL}
  <2>1. \A x \in Quantities : x \in Nat BY CostsAssumption
  <2>2. d \in Int BY <2>1 DEF Deltas
  <2> QED BY <2>2 DEF Kinds
<1>2. ApplyDelta(i, d, op) BY DEF DoAdjust, Adjust
<1> HIDE DEF q
<1>3. op \in OperationRow /\ op.item = i /\ op.kind = "ADJUSTMENT"
  <2>1. TypeOK BY DEF CInv
  <2> DEFINE net == NULL
             kind == "ADJUSTMENT"
  <2>2. net \in Nat \cup {NULL} /\ kind \in Kinds BY <1>1
  <2> HIDE DEF net, kind
  <2>3. /\ Operation(i, kind, q, net) \in OperationRow
        /\ Operation(i, kind, q, net).item = i /\ Operation(i, kind, q, net).kind = kind
    BY <1>1, <2>1, <2>2, OperationOK
  <2> QED BY <2>3 DEF net, kind
<1> HIDE DEF op
<1> QED BY <1>1, <1>2, <1>3, DeltaHeld

LEMMA OpeningHeld ==
  ASSUME CInv, NEW i \in Items, NEW ver, NEW value \in Nets,
         DoOpening(Opening(i, stock[i], ver, value))
  PROVE  Held
<1> DEFINE op == Operation(i, "OPENING", stock[i], value)
           n == Len(operations)
           row == Locked(i, stock[i])
           new == [value |-> value, version |-> row.version + 1, cut |-> Now,
                   qty |-> stock[i]]
           start == [op |-> n + 1, value |-> value]
<1>1. /\ operations \in Seq(OperationRow) /\ n \in Nat
      /\ valuation \in [Items -> ValuationRow] /\ stock \in [Items -> Nat]
      /\ base \in [Items -> [op : Nat, value : Nat]]
      /\ \A j \in Items : base[j].op <= n
      /\ value \in Nat /\ "OPENING" \in Kinds
  BY CostsAssumption DEF CInv, TypeOK, Kinds
<1>2. op \in OperationRow /\ op.item = i /\ op.kind = "OPENING"
  BY <1>1, OperationOK DEF CInv
<1>3. /\ valuation' = [valuation EXCEPT ![i] = new] /\ stock' = stock
      /\ operations' = Append(operations, op)
      /\ base' = [base EXCEPT ![i] = start]
  BY DEF DoOpening, Opening, Rebase
<1>4. new \in ValuationRow /\ new.value = value
  <2>1. row.version \in Nat BY LockedOK DEF CInv, ValuationRow
  <2>2. Now \in Nat BY <1>1 DEF Now
  <2> HIDE DEF row
  <2> QED BY <1>1, <2>1, <2>2 DEF ValuationRow
<1>5. start \in [op : Nat, value : Nat] /\ start.op = n + 1 /\ start.value = value BY <1>1
<1> HIDE DEF op, new, start
<1>6. operations' \in Seq(OperationRow) /\ Len(operations') = n + 1 BY <1>1, <1>2, <1>3
<1>7. /\ valuation'[i] = new /\ base'[i] = start
      /\ \A j \in Items : j # i => valuation'[j] = valuation[j] /\ base'[j] = base[j]
  BY <1>1, <1>3
<1>8. Books(start, new, operations', i) BY <1>1, <1>4, <1>5, <1>6, BooksFresh
<1>9. AllBooks' BY <1>2, <1>3, <1>7, <1>8, OthersKeep DEF AllBooks, CInv
<1>10. /\ base' \in [Items -> [op : Nat, value : Nat]]
       /\ \A j \in Items : base'[j].op <= n + 1
  BY <1>1, <1>3, <1>5
<1>11. valuation' \in [Items -> ValuationRow] /\ stock' \in [Items -> Nat]
  BY <1>1, <1>3, <1>4
<1>12. Written BY <1>6, <1>9, <1>10, <1>11 DEF Written
<1> QED BY <1>2, <1>3, <1>12, AppendHeld

(* A revision is refused to a consumption with returns.                    *)
LEMMA ReviseHeld ==
  ASSUME CInv, NEW c, c.op \in DOMAIN operations, c.net \in Nets, DoRevise(c)
  PROVE  Held
<1> DEFINE k == c.op
           old == operations[k]
           op == [old EXCEPT !.net = c.net, !.version = old.version + 1]
           i == old.item
           row == Locked(i, stock[i])
           n == Len(operations)
<1>1. /\ operations \in Seq(OperationRow) /\ n \in Nat
      /\ valuation \in [Items -> ValuationRow] /\ stock \in [Items -> Nat]
      /\ base \in [Items -> [op : Nat, value : Nat]]
      /\ \A j \in Items : base[j].op <= n
  BY DEF CInv, TypeOK
<1>2. c.net \in Nat BY CostsAssumption
<1>3. old \in OperationRow BY <1>1
<1>4. i \in Items BY <1>3 DEF OperationRow
<1>5. /\ op \in OperationRow /\ op.item = i /\ op.kind = old.kind /\ op.at = old.at
      /\ op.version > 1 /\ op.qty = old.qty /\ op.source = old.source /\ op.net = c.net
  <2> DEFINE net == c.net
             other == [old EXCEPT !.net = net, !.version = old.version + 1]
  <2>1. net \in Nat BY <1>2
  <2> HIDE DEF old, k, net
  <2>2. old.version \in Nat \ {0} BY <1>3 DEF OperationRow
  <2> DEFINE next == old.version + 1
  <2>3. next \in Nat \ {0} /\ next > 1 BY <2>2
  <2>4. other = [old EXCEPT !.net = net, !.version = next] OBVIOUS
  <2> HIDE DEF next, other
  <2>5. other \in OperationRow BY <1>3, <2>1, <2>3, <2>4 DEF OperationRow
  <2>6. /\ other.item = old.item /\ other.kind = old.kind
        /\ other.at = old.at /\ other.version > 1 /\ other.qty = old.qty
        /\ other.source = old.source /\ other.net = net
    BY <1>3, <2>3, <2>4 DEF OperationRow
  <2> QED BY <2>5, <2>6 DEF net, other
<1>6. /\ operations' = [operations EXCEPT ![k] = op] /\ stock' = stock
      /\ old.kind \in {"RECEIPT", "CONSUMPTION", "EXTERNAL"}
      /\ old.kind = "CONSUMPTION" => ReturnsOf(k) = {}
  BY DEF DoRevise
<1>7. /\ row \in ValuationRow /\ row.cut = valuation[i].cut BY <1>4, LockedOK DEF CInv
<1> DEFINE new == [value |-> IF stock[i] = 0 THEN 0 ELSE NULL,
                   version |-> row.version + 1, cut |-> row.cut, qty |-> row.qty]
           start == IF stock[i] = 0 THEN [op |-> n, value |-> 0] ELSE base[i]
<1>8. \/ /\ valuation' = [valuation EXCEPT ![i] = new]
         /\ base' = [base EXCEPT ![i] = start]
      \/ /\ old.kind = "EXTERNAL" \/ old.at < row.cut
         /\ valuation' = valuation /\ base' = base
  <2>1. old.at \in Nat /\ row.cut \in Nat
    <3> HIDE DEF old, row
    <3> QED BY <1>3, <1>7 DEF OperationRow, ValuationRow
  <2>2. base = [base EXCEPT ![i] = base[i]] BY <1>1
  <2> HIDE DEF row
  <2>3. CASE old.kind # "EXTERNAL" /\ (row.cut = 0 \/ old.at >= row.cut)
    <3>1. valuation' = [valuation EXCEPT ![i] = new] BY <2>3 DEF DoRevise, row
    <3>2. base' = [base EXCEPT ![i] = start]
      <4>1. CASE stock[i] = 0 BY <2>3, <4>1 DEF DoRevise, Rebase, row
      <4>2. CASE stock[i] # 0 BY <2>2, <2>3, <4>2 DEF DoRevise, row
      <4> QED BY <4>1, <4>2
    <3> QED BY <3>1, <3>2
  <2>4. CASE ~(old.kind # "EXTERNAL" /\ (row.cut = 0 \/ old.at >= row.cut))
    <3>1. valuation' = valuation /\ base' = base BY <2>4 DEF DoRevise, row
    <3> QED BY <2>1, <2>4, <3>1
  <2> QED BY <2>3, <2>4
<1>9. /\ new \in ValuationRow /\ new.value = IF stock[i] = 0 THEN 0 ELSE NULL
      /\ start \in [op : Nat, value : Nat] /\ start.op <= n
      /\ stock[i] = 0 => start.op = n /\ start.value = 0
  <2> HIDE DEF row, i
  <2> QED BY <1>1, <1>4, <1>7 DEF ValuationRow
<1>10. operations' \in Seq(OperationRow) /\ Len(operations') = n BY <1>1, <1>5, <1>6
<1>11. Replaced(operations', operations, k, op) BY <1>6 DEF Replaced
<1> HIDE DEF op, new, start, row
<1>12. ASSUME NEW j \in Items, valuation'[j] = valuation[j], base'[j] = base[j],
             j # i \/ old.kind = "EXTERNAL" \/ old.at < row.cut
      PROVE  Books(base'[j], valuation'[j], operations', j)
  <2> DEFINE b == base[j]
             v == valuation[j]
  <2>1. Books(b, v, operations, j) /\ b.op \in Nat BY <1>1 DEF CInv, AllBooks
  <2>2. old.item = j /\ old.kind # "EXTERNAL" => old.at < v.cut BY <1>7, <1>12
  <2> HIDE DEF b, v
  <2>3. Books(b, v, operations', j)
    BY <1>1, <1>5, <1>11, <2>1, <2>2, BooksRevise
  <2> QED BY <1>12, <2>3 DEF b, v
<1>13. Written
  <2>1. CASE valuation' = [valuation EXCEPT ![i] = new] /\ base' = [base EXCEPT ![i] = start]
    <3>1. /\ valuation'[i] = new /\ base'[i] = start
          /\ \A j \in Items : j # i => valuation'[j] = valuation[j] /\ base'[j] = base[j]
      BY <1>1, <1>4, <2>1
    <3>2. Books(start, new, operations', i)
      <4>1. CASE stock[i] = 0 BY <1>1, <1>9, <1>10, <4>1, BooksFresh
      <4>2. CASE stock[i] # 0 BY <1>9, <4>2 DEF Books
      <4> QED BY <4>1, <4>2
    <3>3. AllBooks' BY <1>12, <3>1, <3>2 DEF AllBooks
    <3>4. /\ base' \in [Items -> [op : Nat, value : Nat]]
          /\ \A j \in Items : base'[j].op <= n
      BY <1>1, <1>9, <2>1
    <3>5. valuation' \in [Items -> ValuationRow] BY <1>1, <1>9, <2>1
    <3> QED BY <1>1, <1>6, <1>10, <3>3, <3>4, <3>5 DEF Written
  <2>2. CASE /\ old.kind = "EXTERNAL" \/ old.at < row.cut
             /\ valuation' = valuation /\ base' = base
    <3>1. AllBooks' BY <1>12, <2>2 DEF AllBooks
    <3> QED BY <1>1, <1>6, <1>10, <2>2, <3>1 DEF Written
  <2> QED BY <1>8, <2>1, <2>2
<1>14. AllReturns'
  <2>1. /\ DOMAIN operations' = DOMAIN operations /\ operations'[k] = op
        /\ \A r \in DOMAIN operations : r # k => operations'[r] = operations[r]
    BY <1>1, <1>6
  <2>2. Sourced(operations) /\ \A x \in DOMAIN operations : Bounded(x, operations)
    BY DEF CInv, AllReturns
  <2>3. \A r \in DOMAIN operations : /\ operations'[r].kind = operations[r].kind
                                     /\ operations'[r].source = operations[r].source
                                     /\ operations'[r].qty = operations[r].qty
    BY <1>5, <2>1
  <2>4. Sourced(operations') BY <2>1, <2>2, <2>3 DEF Sourced
  <2>5. \A x : RetOf(x, operations') = RetOf(x, operations) BY <2>1, <2>3 DEF RetOf
  <2>6. \A x : k \notin RetOf(x, operations) BY <1>6 DEF RetOf
  <2>7. ASSUME NEW x \in DOMAIN operations, x # k PROVE Bounded(x, operations')
    <3>1. \A r \in RetOf(x, operations) : operations'[r] = operations[r]
      BY <2>1, <2>6 DEF RetOf
    <3> QED BY <2>1, <2>2, <2>5, <2>7, <3>1, BoundedSame
  <2>8. Bounded(k, operations')
    <3>1. CASE old.kind = "CONSUMPTION"
      <4>1. RetOf(k, operations') = {} BY <1>6, <2>5, <3>1 DEF RetOf, ReturnsOf
      <4>2. QtyBack(k, operations') = 0 /\ NetBack(k, operations') = 0 BY <4>1, NoReturns
      <4>3. op.qty > 0 /\ op.qty \in Nat BY <1>1, <1>5, <2>2, <3>1 DEF Sourced, OperationRow
      <4>4. op.net \in Nat BY <1>5, <1>2
      <4> QED BY <2>1, <4>2, <4>3, <4>4 DEF Bounded
    <3>2. CASE old.kind # "CONSUMPTION" BY <1>5, <2>1, <3>2 DEF Bounded
    <3> QED BY <3>1, <3>2
  <2> QED BY <2>1, <2>4, <2>7, <2>8 DEF AllReturns
<1> QED BY <1>13, <1>14 DEF Held

(* A return is worth its share of what is left of the cost, if it is known.*)
LEMMA ReturnHeld ==
  ASSUME CInv, NEW k \in DOMAIN operations, NEW q \in Quantities, DoReturn(Return(k, q))
  PROVE  Held
<1> DEFINE old == operations[k]
           left == old.qty - Returned(k)
           net == IF Remaining(k) = NULL THEN NULL
                  ELSE AllocatedCost(Remaining(k), q, left)
           op == [Operation(old.item, "RETURN", q, net) EXCEPT
                    !.source = k, !.visit = old.visit]
           some == old.net - NetBack(k, operations)
<1>1. /\ operations \in Seq(OperationRow) /\ old \in OperationRow
      /\ q \in Nat \ {0} /\ k \in Nat
  BY CostsAssumption DEF CInv, TypeOK
<1>2. /\ old.kind = "CONSUMPTION" /\ q <= left
      /\ Add(old.item, q, net) /\ operations' = Append(operations, op)
  BY DEF DoReturn, Return
<1>3. /\ Sourced(operations) /\ Bounded(k, operations)
      /\ \A x \in DOMAIN operations : Bounded(x, operations)
  BY DEF CInv, AllReturns
<1>4. left = old.qty - QtyBack(k, operations) /\ QtyBack(k, operations) \in Nat
      /\ (NetKnown(k, operations) => NetBack(k, operations) \in Nat)
  BY <1>1, BackNat DEF Returned, QtyBack, ReturnsOf, RetOf, NetKnown
<1>5. Remaining(k) = IF NetKnown(k, operations) THEN some ELSE NULL
  BY DEF Remaining, NetKnown, NetBack, ReturnsOf, RetOf
<1>6. old.qty \in Nat /\ old.net \in Nat \cup {NULL} /\ old.item \in Items
      /\ old.visit \in Visits \cup {NULL}
  BY <1>1 DEF OperationRow
<1> HIDE DEF old
<1>7. left \in Nat \ {0} BY <1>1, <1>2, <1>4, <1>6
<1>8. NetKnown(k, operations) => some \in Nat
  BY <1>2, <1>3, <1>4, <1>6 DEF Bounded, NetKnown, old
<1> HIDE DEF left, some
<1>9. /\ NetKnown(k, operations) => net \in Nat /\ net = AllocatedCost(some, q, left)
      /\ ~NetKnown(k, operations) => net = NULL
  <2>1. ASSUME NetKnown(k, operations) PROVE net = AllocatedCost(some, q, left)
    <3>1. some # NULL BY <1>8, <2>1, CostsAssumption
    <3> QED BY <1>5, <2>1, <3>1
  <2>2. ASSUME NetKnown(k, operations) PROVE AllocatedCost(some, q, left) \in Nat
    <3>1. some \in Nat /\ q \in Nat /\ q <= left BY <1>1, <1>2, <1>8, <2>2
    <3>2. AllocatedCost(some, q, left) \in 0..some BY <1>7, <3>1, Shares
    <3> QED BY <3>1, <3>2
  <2>3. ASSUME ~NetKnown(k, operations) PROVE net = NULL BY <1>5, <2>3
  <2> QED BY <2>1, <2>2, <2>3
<1> HIDE DEF net
<1>10. net \in Nat \cup {NULL} BY <1>9
<1>11. /\ op \in OperationRow /\ op.item = old.item /\ op.kind = "RETURN"
       /\ op.net = net /\ op.qty = q /\ op.source = k
  <2> DEFINE kind == "RETURN"
             new == Operation(old.item, kind, q, net)
  <2>1. TypeOK /\ kind \in Kinds BY DEF CInv, Kinds
  <2> HIDE DEF kind
  <2>2. /\ new \in OperationRow /\ new.item = old.item /\ new.kind = kind
        /\ new.qty = q /\ new.net = net
    BY <1>1, <1>6, <1>10, <2>1, OperationOK
  <2>3. op = [new EXCEPT !.source = k, !.visit = old.visit] BY DEF kind
  <2> HIDE DEF new, op
  <2>4. op \in OperationRow BY <1>1, <1>6, <2>2, <2>3 DEF OperationRow
  <2>5. /\ op.item = old.item /\ op.kind = kind /\ op.net = net /\ op.qty = q
        /\ op.source = k
    BY <2>2, <2>3 DEF OperationRow
  <2> QED BY <2>4, <2>5 DEF kind
<1> HIDE DEF op
<1>12. Written
  <2> DEFINE i == old.item
  <2>1. i \in Items /\ op.item = i /\ Add(i, q, net) BY <1>2, <1>6, <1>11
  <2> HIDE DEF i
  <2> QED BY <1>1, <1>2, <1>10, <1>11, <2>1, AddBooks DEF CInv
<1>13. Sourced(operations') /\ \A x \in DOMAIN operations' : Bounded(x, operations')
  <2>1. Longer(operations', operations, op) BY <1>2 DEF Longer
  <2>2. /\ operations[k].kind = "CONSUMPTION" /\ op.qty > 0
        /\ op.qty <= operations[k].qty - QtyBack(k, operations)
    BY <1>1, <1>2, <1>4, <1>11 DEF old
  <2>3. /\ NetKnown(k, operations) =>
              op.net = AllocatedCost(operations[k].net - NetBack(k, operations), op.qty,
                                     operations[k].qty - QtyBack(k, operations))
        /\ ~NetKnown(k, operations) => op.net = NULL
    BY <1>4, <1>9, <1>11 DEF old, some
  <2> QED BY <1>1, <1>3, <1>11, <2>1, <2>2, <2>3, ReturnsAdd
<1> QED BY <1>12, <1>13 DEF Held, AllReturns

(* A purchase made for a visit never enters the stock.                     *)
LEMMA ExternalHeld ==
  ASSUME CInv, NEW op \in OperationRow, op.kind = "EXTERNAL",
         operations' = Append(operations, op), UNCHANGED <<stock, valuation, base>>
  PROVE  Held
<1>1. /\ operations \in Seq(OperationRow) /\ TypeOK
      /\ \A j \in Items : base[j].op \in 0..Len(operations)
      /\ \A j \in Items : Books(base[j], valuation[j], operations, j)
  BY DEF CInv, TypeOK, AllBooks
<1>2. Longer(operations', operations, op) BY DEF Longer
<1>3. ASSUME NEW j \in Items PROVE Books(base'[j], valuation'[j], operations', j)
  <2> DEFINE b == base[j]
             v == valuation[j]
  <2>1. b.op \in 0..Len(operations) /\ Books(b, v, operations, j) BY <1>1
  <2> HIDE DEF b, v
  <2>2. Books(b, v, operations', j) BY <1>1, <1>2, <2>1, BooksKeep
  <2> QED BY <2>2 DEF b, v
<1>4. /\ operations' \in Seq(OperationRow)
      /\ \A j \in Items : base[j].op <= Len(operations')
  BY <1>1
<1>5. Written BY <1>1, <1>3, <1>4 DEF Written, AllBooks, TypeOK
<1> QED BY <1>5, AppendHeld

(* A close under way: its instant is that of its start.                    *)
LEMMA CloseHeld ==
  ASSUME CInv, NEW v \in Visits, NEW line \in Lines, CloseApply(v, line)
  PROVE  Held
<1> DEFINE kind == IF line.origin = "DESDE_STOCK" THEN "CONSUMPTION" ELSE "EXTERNAL"
           net == NULL
           i == line.item
           q == line.qty
           op == [Operation(i, kind, q, net) EXCEPT !.at = closing[v], !.visit = v]
<1>1. i \in Items /\ q \in Nat \ {0}
  <2>1. line \in [item : Items, qty : Nat \ {0}, origin : Origins] BY CostsAssumption
  <2> QED BY <2>1
<1>2. closing[v] \in Nat /\ net \in Nat \cup {NULL} /\ kind \in Kinds /\ TypeOK
  BY DEF CInv, TypeOK, Kinds
<1>3. \/ UNCHANGED <<stock, valuation, operations, base>>
      \/ kind = "CONSUMPTION" /\ ApplyDelta(i, -q, op)
      \/ /\ kind = "EXTERNAL" /\ operations' = Append(operations, op)
         /\ UNCHANGED <<stock, valuation, base>>
  BY DEF CloseApply
<1> HIDE DEF i, q, kind, net
<1>4. op \in OperationRow /\ op.item = i /\ op.kind = kind /\ op.qty = q
  <2> DEFINE new == Operation(i, kind, q, net)
  <2>1. /\ new \in OperationRow /\ new.item = i /\ new.kind = kind /\ new.qty = q
    BY <1>1, <1>2, OperationOK
  <2>2. op = [new EXCEPT !.at = closing[v], !.visit = v] OBVIOUS
  <2> HIDE DEF new, op
  <2>3. op \in OperationRow BY <1>2, <2>1, <2>2 DEF OperationRow
  <2> QED BY <2>1, <2>2, <2>3 DEF OperationRow
<1> HIDE DEF op
<1>5. CASE kind = "CONSUMPTION" /\ ApplyDelta(i, -q, op)
  <2> DEFINE d == -q
  <2>1. d \in Int /\ ApplyDelta(i, d, op) BY <1>1, <1>5
  <2>2. /\ op.item = i /\ op.kind = "CONSUMPTION" /\ op.qty > 0 BY <1>1, <1>4, <1>5
  <2> HIDE DEF d
  <2> QED BY <1>1, <1>4, <2>1, <2>2, DeltaHeld
<1>6. CASE /\ kind = "EXTERNAL" /\ operations' = Append(operations, op)
           /\ UNCHANGED <<stock, valuation, base>>
  BY <1>4, <1>6, ExternalHeld
<1>7. CASE UNCHANGED <<stock, valuation, operations, base>>
  BY <1>7 DEF Held, Written, CInv, TypeOK, AllBooks, AllReturns
<1> QED BY <1>3, <1>5, <1>6, <1>7

-----------------------------------------------------------------------------
(* One command, whichever it is.                                           *)
LEMMA WorkHeld ==
  ASSUME CInv, NEW c \in Commands, Work(c)
  PROVE  Held
<1>1. CASE \E i \in Items, q \in Quantities, net \in Nets \cup {NULL} : c = Receive(i, q, net)
  <2>1. PICK i \in Items, q \in Quantities, net \in Nets \cup {NULL} : c = Receive(i, q, net)
    BY <1>1
  <2>2. c.action = "receive" BY <2>1 DEF Receive
  <2>3. DoReceive(c) BY <2>2 DEF Work
  <2> QED BY <2>1, <2>3, ReceiveHeld
<1>2. CASE \E i \in Items, d \in Deltas : c = Adjust(i, d)
  <2>1. PICK i \in Items, d \in Deltas : c = Adjust(i, d) BY <1>2
  <2>2. c.action = "adjust" BY <2>1 DEF Adjust
  <2>3. DoAdjust(c) BY <2>2 DEF Work
  <2> QED BY <2>1, <2>3, AdjustHeld
<1>3. CASE \E i \in Items, value \in Nets :
             c = Opening(i, stock[i], valuation[i].version, value)
  <2>1. PICK i \in Items, value \in Nets :
          c = Opening(i, stock[i], valuation[i].version, value)
    BY <1>3
  <2>2. c.action = "opening" BY <2>1 DEF Opening
  <2>3. DoOpening(c) BY <2>2 DEF Work
  <2> QED BY <2>1, <2>3, OpeningHeld
<1>4. CASE \E correct \in BOOLEAN, k \in DOMAIN operations, net \in Nets :
             c = Revise(correct, k, operations[k].version, net)
  <2>1. PICK correct \in BOOLEAN, k \in DOMAIN operations, net \in Nets :
          c = Revise(correct, k, operations[k].version, net)
    BY <1>4
  <2>2. /\ c.action \in {"complete", "correct"}
        /\ c.op \in DOMAIN operations /\ c.net \in Nets
    BY <2>1 DEF Revise
  <2>3. DoRevise(c) BY <2>2 DEF Work
  <2> QED BY <2>2, <2>3, ReviseHeld
<1>5. CASE \E k \in DOMAIN operations, q \in Quantities : c = Return(k, q)
  <2>1. PICK k \in DOMAIN operations, q \in Quantities : c = Return(k, q) BY <1>5
  <2>2. c.action = "return" BY <2>1 DEF Return
  <2>3. DoReturn(c) BY <2>2 DEF Work
  <2> QED BY <2>1, <2>3, ReturnHeld
<1> QED BY <1>1, <1>2, <1>3, <1>4, <1>5 DEF Commands

(* Pieces that enter at the counter, with no price.                        *)
LEMMA EntradaHeld ==
  ASSUME CInv, NEW i \in Items, NEW q \in Quantities, Entrada(i, q)
  PROVE  Held
<1> DEFINE kind == "RECEIPT"
           net == NULL
           op == Operation(i, kind, q, net)
<1>1. /\ q \in Nat \ {0} /\ q \in Int /\ net \in Nat \cup {NULL} /\ TypeOK
      /\ kind \in Kinds /\ ApplyDelta(i, q, op)
  BY CostsAssumption DEF CInv, Kinds, Entrada
<1> HIDE DEF kind, net
<1>2. op \in OperationRow /\ op.item = i /\ op.kind = kind BY <1>1, OperationOK
<1>3. kind = "RECEIPT" BY DEF kind
<1> HIDE DEF op
<1> QED BY <1>1, <1>2, <1>3, DeltaHeld

LEMMA CInit == Init => CInv
<1> SUFFICES ASSUME Init PROVE CInv OBVIOUS
<1>1. /\ operations = << >> /\ operations \in Seq(OperationRow) /\ Len(operations) = 0
  BY DEF Init
<1>2. TypeOK BY <1>1 DEF Init, TypeOK, ValuationRow
<1>3. AllBooks BY DEF Init, AllBooks, Books
<1>4. AllReturns BY <1>1 DEF AllReturns, Sourced
<1> QED BY <1>2, <1>3, <1>4 DEF CInv

LEMMA CStep == CInv /\ [Next]_vars => CInv'
<1> SUFFICES ASSUME CInv, [Next]_vars PROVE CInv' OBVIOUS
<1> USE DEF CInv
<1>1. ASSUME Held, closing' \in [Visits -> Nat], edit' = edit PROVE CInv'
  BY <1>1 DEF Held, Written, TypeOK
<1>2. ASSUME NEW k \in Keys, NEW c \in Commands, Execute(k, c) PROVE CInv'
  <2>1. Work(c) /\ UNCHANGED <<closing, edit>> BY <1>2 DEF Execute
  <2>2. closing' \in [Visits -> Nat] BY <2>1 DEF TypeOK
  <2> QED BY <1>1, <2>1, <2>2, WorkHeld
<1>3. ASSUME NEW i \in Items, NEW q \in Quantities, Entrada(i, q) PROVE CInv'
  <2>1. UNCHANGED <<closing, edit>> BY <1>3 DEF Entrada
  <2> QED BY <1>1, <1>3, <2>1, EntradaHeld DEF TypeOK
<1>4. ASSUME NEW i \in Items, NEW d \in Deltas, Ajuste(i, d) PROVE CInv'
  <2>1. DoAdjust(Adjust(i, d)) /\ UNCHANGED <<closing, edit>> BY <1>4 DEF Ajuste
  <2> QED BY <1>1, <2>1, AdjustHeld DEF TypeOK
<1>5. ASSUME NEW v \in Visits, CloseStart(v) \/ CloseAbort(v) PROVE CInv'
  <2>1. UNCHANGED <<stock, valuation, operations, edit, base>>
    BY <1>5 DEF CloseStart, CloseAbort
  <2>2. CloseStamp \in Nat BY DEF CloseStamp, TypeOK
  <2>3. closing' \in [Visits -> Nat]
    BY <1>5, <2>2 DEF CloseStart, CloseAbort, TypeOK
  <2> QED BY <2>1, <2>3 DEF TypeOK, AllBooks, AllReturns
<1>6. ASSUME NEW v \in Visits, NEW line \in Lines, CloseApply(v, line) PROVE CInv'
  <2>1. Held BY <1>6, CloseHeld
  <2>2. closing' = [closing EXCEPT ![v] = 0] /\ edit' = edit BY <1>6 DEF CloseApply
  <2> QED BY <1>1, <2>1, <2>2 DEF TypeOK
<1>7. ASSUME NEW i \in Items, EditStart(i) \/ EditSave(i) PROVE CInv'
  <2>1. UNCHANGED <<valuation, operations, closing, base>>
    BY <1>7 DEF EditStart, EditSave
  <2>2. stock' \in [Items -> Nat] /\ edit' \in [Items -> Nat \cup {NULL}]
    BY <1>7 DEF EditStart, EditSave, TypeOK
  <2> QED BY <2>1, <2>2 DEF TypeOK, AllBooks, AllReturns
<1>8. CASE UNCHANGED vars BY <1>8 DEF vars, TypeOK, AllBooks, AllReturns
<1> QED BY <1>2, <1>3, <1>4, <1>5, <1>6, <1>7, <1>8 DEF Next

(* Quantities, values and prices are natural numbers or unknown: no stock  *)
(* and no value is ever negative, and no books begin in the future.        *)
THEOREM TypeCorrect == Spec => []TypeOK
<1>1. CInv => TypeOK BY DEF CInv
<1> QED BY <1>1, CInit, CStep, PTL DEF Spec

(* INV-001 section 4, for any number of items, closes and amounts: a       *)
(* valuation that is complete is what the operations since its cut add up  *)
(* to, to the cent.                                                        *)
THEOREM ValueIsConserved == Spec => []ValueConserved
<1>1. CInv => ValueConserved BY ConservedIsBooks DEF CInv
<1> QED BY <1>1, CInit, CStep, PTL DEF Spec

(* INV-001 section 6: in any number of returns, no more comes back than    *)
(* was taken, and the last piece brings all the rest of its cost.          *)
THEOREM ReturnsAreBounded == Spec => []ReturnsBounded
<1>1. CInv => ReturnsBounded
  <2> SUFFICES ASSUME CInv, NEW k \in DOMAIN operations, operations[k].kind = "CONSUMPTION"
               PROVE  /\ Returned(k) <= operations[k].qty
                      /\ Remaining(k) # NULL => Remaining(k) >= 0
                      /\ Remaining(k) # NULL /\ Returned(k) = operations[k].qty
                           => Remaining(k) = 0
    BY DEF ReturnsBounded
  <2>1. Bounded(k, operations) BY DEF CInv, AllReturns
  <2>2. Returned(k) = QtyBack(k, operations)
    BY DEF Returned, QtyBack, ReturnsOf, RetOf
  <2>3. Remaining(k) = IF NetKnown(k, operations)
                       THEN operations[k].net - NetBack(k, operations) ELSE NULL
    BY DEF Remaining, NetKnown, NetBack, ReturnsOf, RetOf
  <2> QED BY <2>1, <2>2, <2>3 DEF Bounded
<1> QED BY <1>1, CInit, CStep, PTL DEF Spec
=============================================================================
