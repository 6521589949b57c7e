---------------------------- MODULE SumTheorems ----------------------------
(* Lemmas about the sums of Functions.tla, for the modules that keep books *)
(* in them.  The library's induction theorems take an operator; here each  *)
(* induction is a search for a least counterexample instead: the least     *)
(* element of a set of naturals, or a minimal element of a set of finite   *)
(* sets, exists because the orders are well-founded.                       *)
EXTENDS Integers, Functions, FiniteSets, FiniteSetTheorems, WellFoundedInduction, TLAPS

-----------------------------------------------------------------------------
(* A set of naturals that is not empty has a least element.                *)
LEMMA Least ==
  ASSUME NEW T, T \subseteq Nat, T # {}
  PROVE  \E m \in T : \A k \in T : m <= k
<1>1. IsWellFoundedOn(OpToRel(<, Nat), Nat) BY NatLessThanWellFounded
<1>2. PICK m \in T : \A k \in T : ~(<<k, m>> \in OpToRel(<, Nat))
  BY <1>1, WFMin
<1>3. \A k \in T : k < m => <<k, m>> \in OpToRel(<, Nat)
  BY DEF OpToRel
<1>4. \A k \in T : ~(k < m) BY <1>2, <1>3
<1> QED BY <1>4

(* The element a sum takes first, and the function that adds w up over the *)
(* subsets of S: SumFunctionOnSet chooses the one there is.                *)
Some(S) == CHOOSE x \in S : TRUE

Adds(g, w, S) ==
    g = [s \in SUBSET S |-> IF s = {} THEN 0 ELSE w[Some(s)] + g[s \ {Some(s)}]]

-----------------------------------------------------------------------------
LEMMA SomeIn == ASSUME NEW S, S # {} PROVE Some(S) \in S
BY DEF Some

(* Some member of a set of finite sets includes no other member.           *)
LEMMA MinimalSet ==
  ASSUME NEW S, IsFiniteSet(S), NEW T, T \subseteq SUBSET S, T # {}
  PROVE  \E m \in T : \A k \in T : k \subseteq m => k = m
<1>1. SUBSET S = FiniteSubsetsOf(S) BY FS_FiniteSubsetsOfFinite
<1>2. IsWellFoundedOn(StrictSubsetOrdering(S), SUBSET S)
  BY <1>1, FS_StrictSubsetOrderingWellFounded
<1>3. PICK m \in T : \A k \in T : ~(<<k, m>> \in StrictSubsetOrdering(S))
  BY <1>2, WFMin
<1>4. ASSUME NEW k \in T, k \subseteq m, k # m PROVE <<k, m>> \in StrictSubsetOrdering(S)
  BY <1>4 DEF StrictSubsetOrdering
<1>5. \A k \in T : k \subseteq m => k = m BY <1>3, <1>4, Zenon
<1> QED BY <1>5, Zenon

(* The sum of the library, its recursive function written out.             *)
LEMMA Expand == ASSUME NEW w, NEW S PROVE
  \E iter : /\ iter = (CHOOSE g : Adds(g, w, S))
            /\ SumFunctionOnSet(w, S) = iter[S]
BY DEF SumFunctionOnSet, FoldFunctionOnSet, MapThenFoldSet, Adds, Some

(* The functions that add up over S and over a subset of it agree, and     *)
(* there is one: the recursion of SumFunctionOnSet defines a function.     *)
LEMMA Agree ==
  ASSUME NEW w, NEW S, IsFiniteSet(S), NEW g, Adds(g, w, S),
         NEW R \in SUBSET S, NEW h, Adds(h, w, R)
  PROVE  \A s \in SUBSET R : g[s] = h[s]
<1> DEFINE Bad == {s \in SUBSET R : g[s] # h[s]}
<1> SUFFICES ASSUME Bad # {} PROVE FALSE OBVIOUS
<1>1. IsFiniteSet(R) BY FS_Subset
<1>2. PICK m \in Bad : \A k \in Bad : k \subseteq m => k = m
  <2>1. Bad \subseteq SUBSET R OBVIOUS
  <2> HIDE DEF Bad
  <2> QED BY <1>1, <2>1, MinimalSet
<1> DEFINE c == Some(m)
<1>3. /\ g[m] = IF m = {} THEN 0 ELSE w[c] + g[m \ {c}]
      /\ h[m] = IF m = {} THEN 0 ELSE w[c] + h[m \ {c}]
  BY DEF Adds
<1>4. m # {} BY <1>3
<1>5. c \in m BY <1>4, SomeIn
<1>6. m \ {c} \notin Bad
  <2> SUFFICES ASSUME m \ {c} \in Bad PROVE FALSE OBVIOUS
  <2>1. m \ {c} = m BY <1>2
  <2> QED BY <2>1, <1>5
<1>7. g[m \ {c}] = h[m \ {c}] BY <1>6
<1> QED BY <1>3, <1>7

LEMMA AddsUp ==
  ASSUME NEW w, NEW S, IsFiniteSet(S)
  PROVE  \E g : Adds(g, w, S)
<1> DEFINE Bad == {s \in SUBSET S : ~\E g : Adds(g, w, s)}
           G(s) == CHOOSE g : Adds(g, w, s)
<1> SUFFICES ASSUME Bad # {} PROVE FALSE OBVIOUS
<1>1. PICK m \in Bad : \A k \in Bad : k \subseteq m => k = m
  <2>1. Bad \subseteq SUBSET S OBVIOUS
  <2> HIDE DEF Bad
  <2> QED BY <2>1, MinimalSet
<1>2. \A s \in SUBSET m : s # m => Adds(G(s), w, s)
  <2> TAKE s \in SUBSET m
  <2> HAVE s # m
  <2>1. s \notin Bad BY <1>1
  <2>2. s \in SUBSET S OBVIOUS
  <2> QED BY <2>1, <2>2
<1> DEFINE Value(s) == IF s = {} THEN 0 ELSE w[Some(s)] + G(s \ {Some(s)})[s \ {Some(s)}]
           g == [s \in SUBSET m |-> Value(s)]
<1>3. \A s \in SUBSET m : s # m => g[s] = G(s)[s]
  <2> TAKE s \in SUBSET m
  <2> HAVE s # m
  <2>1. Adds(G(s), w, s) BY <1>2
  <2>2. G(s)[s] = IF s = {} THEN 0 ELSE w[Some(s)] + G(s)[s \ {Some(s)}]
    <3> HIDE DEF G
    <3> QED BY <2>1 DEF Adds
  <2>3. CASE s = {} BY <2>2, <2>3
  <2>4. CASE s # {}
    <3> DEFINE r == s \ {Some(s)}
    <3>1. Some(s) \in s BY <2>4, SomeIn
    <3>2. r \in SUBSET m /\ r # m /\ r \in SUBSET s BY <3>1
    <3>3. Adds(G(r), w, r) BY <1>2, <3>2
    <3>4. IsFiniteSet(s)
      <4>1. s \in SUBSET S OBVIOUS
      <4> QED BY <4>1, FS_Subset
    <3>5. G(s)[r] = G(r)[r]
      <4> HIDE DEF G
      <4>1. r \in SUBSET r OBVIOUS
      <4> QED BY <2>1, <3>2, <3>3, <3>4, <4>1, Agree
    <3>6. g[s] = w[Some(s)] + G(r)[r] BY <2>4
    <3> QED BY <2>2, <2>4, <3>5, <3>6
  <2> QED BY <2>3, <2>4
<1>4. Adds(g, w, m)
  <2> DEFINE Next(s) == IF s = {} THEN 0 ELSE w[Some(s)] + g[s \ {Some(s)}]
  <2>2. ASSUME NEW s \in SUBSET m, s # {} PROVE Value(s) = Next(s)
    <3> DEFINE r == s \ {Some(s)}
    <3>1. Some(s) \in s BY <2>2, SomeIn
    <3>2. r \in SUBSET m /\ r # m BY <3>1
    <3>3. g[r] = G(r)[r] BY <1>3, <3>2
    <3> HIDE DEF g, G
    <3> QED BY <2>2, <3>3
  <2>3. \A s \in SUBSET m : Value(s) = Next(s)
    <3> HIDE DEF g, G
    <3> QED BY <2>2
  <2>4. g = [s \in SUBSET m |-> Next(s)]
    <3> HIDE DEF Value, Next
    <3> QED BY <2>3
  <2> QED
    <3> HIDE DEF g
    <3> QED BY <2>4 DEF Adds
<1> QED
  <2> HIDE DEF g
  <2> QED BY <1>4

-----------------------------------------------------------------------------
(* The sum of nothing; and a sum, an element taken off.                    *)
LEMMA SumEmpty == ASSUME NEW w PROVE SumFunctionOnSet(w, {}) = 0
<1>1. PICK iter : /\ iter = (CHOOSE g : Adds(g, w, {}))
                  /\ SumFunctionOnSet(w, {}) = iter[{}]
  BY Expand, Zenon
<1>2. IsFiniteSet({}) BY FS_EmptySet
<1>3. Adds(iter, w, {}) BY <1>1, <1>2, AddsUp
<1> QED BY <1>1, <1>3 DEF Adds

LEMMA SumSome ==
  ASSUME NEW w, NEW S, IsFiniteSet(S), S # {}
  PROVE  SumFunctionOnSet(w, S) = w[Some(S)] + SumFunctionOnSet(w, S \ {Some(S)})
<1> DEFINE r == S \ {Some(S)}
<1>1. PICK g : /\ g = (CHOOSE f : Adds(f, w, S))
               /\ SumFunctionOnSet(w, S) = g[S]
  BY Expand, Zenon
<1>2. PICK h : /\ h = (CHOOSE f : Adds(f, w, r))
               /\ SumFunctionOnSet(w, r) = h[r]
  BY Expand, Zenon
<1>3. IsFiniteSet(r) /\ r \in SUBSET S BY FS_Subset
<1>4. Adds(g, w, S) BY <1>1, AddsUp, Zenon
<1>5. Adds(h, w, r) BY <1>2, <1>3, AddsUp, Zenon
<1>6. g[r] = h[r]
  <2>1. r \in SUBSET r OBVIOUS
  <2> HIDE DEF r
  <2> QED BY <1>3, <1>4, <1>5, <2>1, Agree
<1>7. g[S] = w[Some(S)] + g[r] BY <1>4 DEF Adds
<1> QED BY <1>1, <1>2, <1>6, <1>7

(* A sum depends only on the values it adds.                               *)
LEMMA SumSame ==
  ASSUME NEW w, NEW v, NEW S, IsFiniteSet(S), \A x \in S : w[x] = v[x]
  PROVE  SumFunctionOnSet(w, S) = SumFunctionOnSet(v, S)
<1> DEFINE Bad == {s \in SUBSET S : SumFunctionOnSet(w, s) # SumFunctionOnSet(v, s)}
<1> SUFFICES ASSUME Bad # {} PROVE FALSE OBVIOUS
<1>1. PICK m \in Bad : \A k \in Bad : k \subseteq m => k = m
  <2>1. Bad \subseteq SUBSET S OBVIOUS
  <2> HIDE DEF Bad
  <2> QED BY <2>1, MinimalSet
<1> DEFINE r == m \ {Some(m)}
<1>2. m # {}
  <2> SUFFICES ASSUME m = {} PROVE FALSE OBVIOUS
  <2>1. SumFunctionOnSet(w, m) = 0 /\ SumFunctionOnSet(v, m) = 0 BY SumEmpty
  <2> QED BY <2>1
<1>3. Some(m) \in m BY <1>2, SomeIn
<1>4. r \notin Bad
  <2> SUFFICES ASSUME r \in Bad PROVE FALSE OBVIOUS
  <2>1. r = m BY <1>1
  <2> QED BY <2>1, <1>3
<1>5. SumFunctionOnSet(w, r) = SumFunctionOnSet(v, r) BY <1>4
<1>6. IsFiniteSet(m) BY FS_Subset
<1>7. /\ SumFunctionOnSet(w, m) = w[Some(m)] + SumFunctionOnSet(w, r)
      /\ SumFunctionOnSet(v, m) = v[Some(m)] + SumFunctionOnSet(v, r)
  BY <1>2, <1>6, SumSome
<1> QED BY <1>3, <1>5, <1>7

(* A sum of integers is an integer, a sum of naturals a natural.           *)
LEMMA SumInt ==
  ASSUME NEW w, NEW S, IsFiniteSet(S), \A x \in S : w[x] \in Int
  PROVE  SumFunctionOnSet(w, S) \in Int
<1> DEFINE Bad == {s \in SUBSET S : SumFunctionOnSet(w, s) \notin Int}
<1> SUFFICES ASSUME Bad # {} PROVE FALSE OBVIOUS
<1>1. PICK m \in Bad : \A k \in Bad : k \subseteq m => k = m
  <2>1. Bad \subseteq SUBSET S OBVIOUS
  <2> HIDE DEF Bad
  <2> QED BY <2>1, MinimalSet
<1> DEFINE r == m \ {Some(m)}
<1>2. m # {}
  <2> SUFFICES ASSUME m = {} PROVE FALSE OBVIOUS
  <2>1. SumFunctionOnSet(w, m) = 0 BY SumEmpty
  <2> QED BY <2>1
<1>3. Some(m) \in m BY <1>2, SomeIn
<1>4. r \notin Bad
  <2> SUFFICES ASSUME r \in Bad PROVE FALSE OBVIOUS
  <2>1. r = m BY <1>1
  <2> QED BY <2>1, <1>3
<1>5. SumFunctionOnSet(w, r) \in Int BY <1>4
<1>6. IsFiniteSet(m) BY FS_Subset
<1>7. SumFunctionOnSet(w, m) = w[Some(m)] + SumFunctionOnSet(w, r)
  BY <1>2, <1>6, SumSome
<1> QED BY <1>3, <1>5, <1>7

(* Any element may be taken off, not only the one the sum begins with.     *)
LEMMA SumRemove ==
  ASSUME NEW w, NEW S, IsFiniteSet(S), \A x \in S : w[x] \in Int, NEW x \in S
  PROVE  SumFunctionOnSet(w, S) = w[x] + SumFunctionOnSet(w, S \ {x})
<1> DEFINE Good(s, y) == SumFunctionOnSet(w, s) = w[y] + SumFunctionOnSet(w, s \ {y})
           Bad == {s \in SUBSET S : \E y \in s : ~Good(s, y)}
<1> SUFFICES ASSUME Bad # {} PROVE FALSE OBVIOUS
<1>1. PICK m \in Bad : \A k \in Bad : k \subseteq m => k = m
  <2>1. Bad \subseteq SUBSET S OBVIOUS
  <2> HIDE DEF Bad
  <2> QED BY <2>1, MinimalSet
<1>2. PICK y \in m : ~Good(m, y) OBVIOUS
<1> DEFINE c == Some(m)
           r == m \ {c}
<1>3. c \in m BY SomeIn
<1>4. IsFiniteSet(m) /\ m # {} /\ IsFiniteSet(r) /\ IsFiniteSet(m \ {y})
  BY FS_Subset
<1>5. Good(m, c) BY <1>4, SumSome
<1>6. y # c BY <1>2, <1>5
<1>7. Good(r, y)
  <2>1. r # m BY <1>3
  <2>2. r \notin Bad BY <1>1, <2>1
  <2> QED BY <1>6, <2>2
<1>8. Good(m \ {y}, c)
  <2>1. m \ {y} \notin Bad
    <3> SUFFICES ASSUME m \ {y} \in Bad PROVE FALSE OBVIOUS
    <3>1. m \ {y} = m BY <1>1
    <3> QED BY <3>1
  <2>2. m \ {y} \in SUBSET S /\ c \in m \ {y} BY <1>3, <1>6
  <2> QED BY <2>1, <2>2
<1>9. r \ {y} = (m \ {y}) \ {c} OBVIOUS
<1>10. SumFunctionOnSet(w, r \ {y}) \in Int
  <2>1. IsFiniteSet(r \ {y}) BY <1>4, FS_Subset
  <2>2. \A z \in r \ {y} : w[z] \in Int OBVIOUS
  <2> QED BY <2>1, <2>2, SumInt
<1>11. w[c] \in Int /\ w[y] \in Int BY <1>3
<1>12. /\ SumFunctionOnSet(w, m) = w[c] + SumFunctionOnSet(w, r)
       /\ SumFunctionOnSet(w, r) = w[y] + SumFunctionOnSet(w, r \ {y})
       /\ SumFunctionOnSet(w, m \ {y}) = w[c] + SumFunctionOnSet(w, r \ {y})
  BY <1>5, <1>7, <1>8, <1>9
<1> HIDE DEF c, r
<1> QED BY <1>2, <1>10, <1>11, <1>12

LEMMA SumAdd ==
  ASSUME NEW w, NEW S, IsFiniteSet(S), NEW x, x \notin S,
         \A y \in S \cup {x} : w[y] \in Int
  PROVE  SumFunctionOnSet(w, S \cup {x}) = w[x] + SumFunctionOnSet(w, S)
<1>1. IsFiniteSet(S \cup {x}) BY FS_AddElement
<1>2. (S \cup {x}) \ {x} = S OBVIOUS
<1> QED BY <1>1, <1>2, SumRemove

LEMMA SumNat ==
  ASSUME NEW w, NEW S, IsFiniteSet(S), \A x \in S : w[x] \in Nat
  PROVE  SumFunctionOnSet(w, S) \in Nat
<1> DEFINE Bad == {s \in SUBSET S : SumFunctionOnSet(w, s) \notin Nat}
<1> SUFFICES ASSUME Bad # {} PROVE FALSE OBVIOUS
<1>1. PICK m \in Bad : \A k \in Bad : k \subseteq m => k = m
  <2>1. Bad \subseteq SUBSET S OBVIOUS
  <2> HIDE DEF Bad
  <2> QED BY <2>1, MinimalSet
<1> DEFINE r == m \ {Some(m)}
<1>2. m # {}
  <2> SUFFICES ASSUME m = {} PROVE FALSE OBVIOUS
  <2>1. SumFunctionOnSet(w, m) = 0 BY SumEmpty
  <2> QED BY <2>1
<1>3. Some(m) \in m BY <1>2, SomeIn
<1>4. r \notin Bad
  <2> SUFFICES ASSUME r \in Bad PROVE FALSE OBVIOUS
  <2>1. r = m BY <1>1
  <2> QED BY <2>1, <1>3
<1>5. SumFunctionOnSet(w, r) \in Nat BY <1>4
<1>6. IsFiniteSet(m) BY FS_Subset
<1>7. SumFunctionOnSet(w, m) = w[Some(m)] + SumFunctionOnSet(w, r)
  BY <1>2, <1>6, SumSome
<1> QED BY <1>3, <1>5, <1>7
=============================================================================
