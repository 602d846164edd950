--------------------------- MODULE ProtocolProofs ---------------------------
(***************************************************************************)
(* The values of Protocol 2, for every value, every wire and every limit:  *)
(* what is read of a wire is written as that wire, and what is written of  *)
(* a value is read as that value.                                          *)
(*                                                                         *)
(* Both go level by level, from the deepest values up, and within a list   *)
(* or a map part by part.  The functions that ProtocolValue defines by     *)
(* recursion are shown to exist before anything is said of their values.   *)
(***************************************************************************)
EXTENDS ProtocolValue, FormatProofs, SequenceTheorems

-----------------------------------------------------------------------------
(* The order of the keys of a map.                                         *)

\* Bytes in memory are ordered like words in a dictionary.
LEMMA LessIrreflexive == \A a \in Seq(Nat) : ~Less(a, a)
BY DEF Less

LEMMA LessTransitive ==
    ASSUME NEW a \in Seq(Nat), NEW b \in Seq(Nat), NEW c \in Seq(Nat), Less(a, b), Less(b, c)
    PROVE  Less(a, c)
<1>1. PICK m \in 0 .. Len(a) : /\ m < Len(b) /\ \A i \in 1 .. m : a[i] = b[i]
                               /\ m = Len(a) \/ a[m + 1] < b[m + 1]
  BY DEF Less
<1>2. PICK n \in 0 .. Len(b) : /\ n < Len(c) /\ \A i \in 1 .. n : b[i] = c[i]
                               /\ n = Len(b) \/ b[n + 1] < c[n + 1]
  BY DEF Less
<1>3. \A i \in 1 .. Len(a) : a[i] \in Nat
  OBVIOUS
<1>4. \A i \in 1 .. Len(b) : b[i] \in Nat
  OBVIOUS
<1>5. \A i \in 1 .. Len(c) : c[i] \in Nat
  OBVIOUS
<1>6. m \in Nat /\ n \in Nat /\ Len(a) \in Nat /\ Len(b) \in Nat /\ Len(c) \in Nat
  OBVIOUS
<1>7. CASE m < n
  <2>1. b[m + 1] = c[m + 1] /\ m < Len(c)
    BY <1>2, <1>6, <1>7
  <2>2. \A i \in 1 .. m : a[i] = c[i]
    BY <1>1, <1>2, <1>6, <1>7
  <2> QED
    BY <1>1, <2>1, <2>2 DEF Less
<1>8. CASE m = n
  <2>1. \A i \in 1 .. m : a[i] = c[i]
    BY <1>1, <1>2, <1>8
  <2>2. ASSUME m # Len(a) PROVE a[m + 1] < c[m + 1]
    <3>1. a[m + 1] < b[m + 1] /\ b[m + 1] < c[m + 1]
      BY <1>1, <1>2, <1>8, <2>2
    <3>2. m + 1 \in 1 .. Len(a) /\ m + 1 \in 1 .. Len(b) /\ m + 1 \in 1 .. Len(c)
      BY <1>1, <1>2, <1>6, <1>8, <2>2, SMTT(30)
    <3>3. a[m + 1] \in Nat /\ b[m + 1] \in Nat /\ c[m + 1] \in Nat
      BY <1>3, <1>4, <1>5, <3>2
    <3> QED
      BY <3>1, <3>3, SMTT(30)
  <2>3. m < Len(c)
    BY <1>2, <1>8
  <2> QED
    BY <2>1, <2>2, <2>3 DEF Less
<1>9. CASE m > n
  <2>1. a[n + 1] = b[n + 1] /\ n \in 0 .. Len(a)
    BY <1>1, <1>6, <1>9
  <2>2. n # Len(b)
    BY <1>1, <1>6, <1>9
  <2>3. \A i \in 1 .. n : a[i] = c[i]
    BY <1>1, <1>2, <1>6, <1>9
  <2> QED
    BY <1>2, <2>1, <2>2, <2>3 DEF Less
<1> QED
  BY <1>6, <1>7, <1>8, <1>9

LEMMA LessTotal ==
    ASSUME NEW a \in Seq(Nat), NEW b \in Seq(Nat), a # b
    PROVE  Less(a, b) \/ Less(b, a)
<1> DEFINE T == {n \in Nat : /\ n <= Len(a) /\ n <= Len(b)
                             /\ n = Len(a) \/ n = Len(b) \/ a[n + 1] # b[n + 1]}
<1>1. Len(a) \in Nat /\ Len(b) \in Nat
  OBVIOUS
<1>2. T # {}
  <2>1. Len(a) \in T \/ Len(b) \in T
    BY <1>1
  <2> QED
    BY <2>1
<1>3. PICK x \in T : \A y \in T : x <= y
  <2>1. T \in SUBSET Nat
    OBVIOUS
  <2> HIDE DEF T
  <2> QED
    BY <1>2, <2>1, LeastNatural
<1>4. x \in Nat /\ x <= Len(a) /\ x <= Len(b) /\ (x = Len(a) \/ x = Len(b) \/ a[x + 1] # b[x + 1])
  OBVIOUS
<1>5. \A i \in 1 .. x : a[i] = b[i]
  <2> TAKE i \in 1 .. x
  <2>1. i - 1 \in Nat /\ i - 1 < x /\ (i - 1) + 1 = i
    BY <1>4
  <2>2. i - 1 \notin T
    <3> HIDE DEF T
    <3>1. \A y \in T : x <= y
      BY <1>3
    <3> QED
      BY <1>4, <2>1, <3>1
  <2>3. i - 1 <= Len(a) /\ i - 1 <= Len(b) /\ i - 1 # Len(a) /\ i - 1 # Len(b)
    BY <1>1, <1>4, <2>1, SMTT(30)
  <2>4. a[(i - 1) + 1] = b[(i - 1) + 1]
    BY <2>1, <2>2, <2>3
  <2> QED
    BY <2>1, <2>4
<1> HIDE DEF T
<1>6. CASE x = Len(a) /\ x = Len(b)
  <2>1. a = [i \in 1 .. Len(a) |-> a[i]] /\ b = [i \in 1 .. Len(b) |-> b[i]]
    OBVIOUS
  <2>2. [i \in 1 .. x |-> a[i]] = [i \in 1 .. x |-> b[i]]
    BY <1>5
  <2>3. a = b
    BY <1>6, <2>1, <2>2
  <2> QED
    BY <2>3
<1>7. CASE x = Len(a) /\ x < Len(b)
  BY <1>4, <1>5, <1>7 DEF Less
<1>8. CASE x = Len(b) /\ x < Len(a)
  <2>1. x \in 0 .. Len(b) /\ \A i \in 1 .. x : b[i] = a[i]
    BY <1>4, <1>5, <1>8
  <2> QED
    BY <1>8, <2>1 DEF Less
<1>9. CASE x < Len(a) /\ x < Len(b)
  <2>1. a[x + 1] \in Nat /\ b[x + 1] \in Nat /\ a[x + 1] # b[x + 1]
    BY <1>4, <1>9
  <2>2. CASE a[x + 1] < b[x + 1]
    BY <1>4, <1>5, <1>9, <2>2 DEF Less
  <2>3. CASE b[x + 1] < a[x + 1]
    <3>1. x \in 0 .. Len(b) /\ \A i \in 1 .. x : b[i] = a[i]
      BY <1>4, <1>5, <1>9
    <3> QED
      BY <1>9, <2>3, <3>1 DEF Less
  <2> QED
    BY <2>1, <2>2, <2>3
<1> QED
  BY <1>1, <1>4, <1>6, <1>7, <1>8, <1>9

\* s ascends, as the keys of a map do on the wire.
Ascends(s) == \A i, j \in DOMAIN s : i < j => Less(s[i], s[j])

\* Ascending keys are all different.
LEMMA AscendingApart ==
    ASSUME NEW n \in Nat, NEW s \in [1 .. n -> Seq(Nat)], Ascends(s)
    PROVE  \A i, j \in 1 .. n : s[i] = s[j] => i = j
<1> TAKE i, j \in 1 .. n
<1> HAVE s[i] = s[j]
<1>1. s[i] \in Seq(Nat) /\ s[j] \in Seq(Nat)
  OBVIOUS
<1>2. ~Less(s[i], s[j]) /\ ~Less(s[j], s[i])
  BY <1>1, LessIrreflexive
<1>3. ~(i < j) /\ ~(j < i)
  BY <1>2 DEF Ascends
<1> QED
  BY <1>3

\* Of finitely many keys one is the greatest.
LEMMA GreatestKey ==
    ASSUME NEW K \in SUBSET Seq(Nat), IsFiniteSet(K), K # {}
    PROVE  \E m \in K : \A x \in K : x = m \/ Less(x, m)
<1> DEFINE Has(S) == \E m \in S : \A x \in S : x = m \/ Less(x, m)
           T == {n \in Nat : \A S \in SUBSET Seq(Nat) :
                                IsFiniteSet(S) /\ Cardinality(S) = n + 1 => Has(S)}
<1>1. ASSUME NEW S \in SUBSET Seq(Nat), NEW x \in S, Has(S \ {x}) PROVE Has(S)
  <2>1. PICK m \in S \ {x} : \A y \in S \ {x} : y = m \/ Less(y, m)
    BY <1>1
  <2>2. Less(x, m) \/ Less(m, x)
    BY <2>1, LessTotal
  <2>3. CASE Less(x, m)
    BY <2>1, <2>3
  <2>4. CASE Less(m, x)
    <3>1. \A y \in S : y = x \/ Less(y, x)
      BY <2>1, <2>4, LessTransitive
    <3> QED
      BY <3>1
  <2> QED
    BY <2>2, <2>3, <2>4
<1>2. ASSUME NEW S \in SUBSET Seq(Nat), NEW x, S = {x} PROVE Has(S)
  BY <1>2
<1> HIDE DEF Has
<1>3. 0 \in T
  <2>1. ASSUME NEW S \in SUBSET Seq(Nat), IsFiniteSet(S), Cardinality(S) = 0 + 1 PROVE Has(S)
    <3>1. \E x : S = {x}
      <4>1. Cardinality(S) = 1
        BY <2>1
      <4> QED
        BY <2>1, <4>1, FS_Singleton, Zenon
    <3> QED
      BY <1>2, <3>1
  <2> QED
    BY <2>1
<1>4. ASSUME NEW n \in T PROVE n + 1 \in T
  <2>1. ASSUME NEW S \in SUBSET Seq(Nat), IsFiniteSet(S), Cardinality(S) = (n + 1) + 1 PROVE Has(S)
    <3>1. PICK x : x \in S
      BY <2>1, FS_EmptySet
    <3>2. IsFiniteSet(S \ {x}) /\ Cardinality(S \ {x}) = n + 1
      BY <2>1, <3>1, FS_RemoveElement, SMTT(30)
    <3>3. Has(S \ {x})
      BY <3>2
    <3> QED
      BY <1>1, <3>1, <3>3
  <2> QED
    BY <2>1
<1>5. T = Nat
  <2>1. T \in SUBSET Nat
    OBVIOUS
  <2> HIDE DEF T
  <2> QED
    BY <1>3, <1>4, <2>1, Induction
<1>6. Cardinality(K) \in Nat /\ Cardinality(K) # 0
  BY FS_CardinalityType, FS_EmptySet
<1>7. PICK n \in Nat : Cardinality(K) = n + 1
  <2>1. Cardinality(K) - 1 \in Nat /\ Cardinality(K) = (Cardinality(K) - 1) + 1
    BY <1>6
  <2> QED
    BY <2>1
<1>8. n \in T
  BY <1>5
<1>9. Has(K)
  BY <1>7, <1>8
<1> QED
  BY <1>9 DEF Has

\* Any finite set of keys can be written in ascending order.
LEMMA SortedExists ==
    ASSUME NEW K \in SUBSET Seq(Nat), IsFiniteSet(K)
    PROVE  \E s \in [1 .. Cardinality(K) -> K] : Ascends(s)
<1> DEFINE Has(S) == \E s \in [1 .. Cardinality(S) -> S] : Ascends(s)
           T == {n \in Nat : \A S \in SUBSET Seq(Nat) : IsFiniteSet(S) /\ Cardinality(S) = n => Has(S)}
<1>1. ASSUME NEW S \in SUBSET Seq(Nat), NEW n \in Nat, Cardinality(S) = n + 1,
             NEW m \in S, \A x \in S : x = m \/ Less(x, m),
             NEW t \in [1 .. n -> S \ {m}], Ascends(t)
      PROVE  Has(S)
  <2> DEFINE s == [i \in 1 .. n + 1 |-> IF i <= n THEN t[i] ELSE m]
  <2>1. s \in [1 .. n + 1 -> S]
    OBVIOUS
  <2>2. ASSUME NEW i \in 1 .. n + 1, NEW j \in 1 .. n + 1, i < j PROVE Less(s[i], s[j])
    <3>1. i \in 1 .. n /\ s[i] = t[i] /\ t[i] \in S \ {m}
      BY <2>2
    <3>2. CASE j \in 1 .. n
      BY <1>1, <2>2, <3>1, <3>2 DEF Ascends
    <3>3. CASE j = n + 1
      <4>1. s[j] = m
        BY <3>3
      <4> QED
        BY <1>1, <3>1, <4>1
    <3> QED
      BY <3>2, <3>3
  <2>3. Ascends(s)
    BY <2>1, <2>2 DEF Ascends
  <2> HIDE DEF s
  <2> QED
    BY <1>1, <2>1, <2>3
<1>2. ASSUME NEW S, Cardinality(S) = 0 PROVE Has(S)
  <2>1. <<>> \in [1 .. 0 -> S] /\ Ascends(<<>>)
    BY DEF Ascends
  <2> QED
    BY <1>2, <2>1
<1> HIDE DEF Has
<1>3. 0 \in T
  BY <1>2
<1>4. ASSUME NEW n \in T PROVE n + 1 \in T
  <2>1. ASSUME NEW S \in SUBSET Seq(Nat), IsFiniteSet(S), Cardinality(S) = n + 1 PROVE Has(S)
    <3>1. S # {}
      BY <2>1, FS_EmptySet
    <3>2. PICK m \in S : \A x \in S : x = m \/ Less(x, m)
      BY <2>1, <3>1, GreatestKey
    <3>3. IsFiniteSet(S \ {m}) /\ Cardinality(S \ {m}) = n
      BY <2>1, <3>2, FS_RemoveElement
    <3>4. Has(S \ {m})
      BY <3>3
    <3>5. PICK t \in [1 .. n -> S \ {m}] : Ascends(t)
      BY <3>3, <3>4 DEF Has
    <3> QED
      BY <1>1, <2>1, <3>2, <3>5
  <2> QED
    BY <2>1
<1>5. T = Nat
  <2>1. T \in SUBSET Nat
    OBVIOUS
  <2> HIDE DEF T
  <2> QED
    BY <1>3, <1>4, <2>1, Induction
<1>6. Cardinality(K) \in T
  BY <1>5, FS_CardinalityType
<1>7. Has(K)
  BY <1>6
<1> QED
  BY <1>7 DEF Has

\* The keys in ascending order: all of them.
LEMMA SortedKeys ==
    ASSUME NEW K \in SUBSET Seq(Nat), IsFiniteSet(K)
    PROVE  /\ Cardinality(K) \in Nat /\ Sorted(K) \in [1 .. Cardinality(K) -> K] /\ Ascends(Sorted(K))
           /\ \A x \in K : \E i \in 1 .. Cardinality(K) : Sorted(K)[i] = x
<1> DEFINE n == Cardinality(K)
           s == Sorted(K)
<1>1. n \in Nat
  BY FS_CardinalityType
<1>2. s \in [1 .. n -> K] /\ Ascends(s)
  <2>1. \E t \in [1 .. n -> K] : Ascends(t)
    BY SortedExists
  <2>2. s = CHOOSE t \in [1 .. n -> K] : Ascends(t)
    BY Zenon DEF Sorted, Ascends
  <2> QED
    BY <2>1, <2>2
<1>3. \A x \in K : \E i \in 1 .. n : s[i] = x
  <2> HIDE DEF n, s
  <2>1. s \in [1 .. n -> Seq(Nat)]
    BY <1>2
  <2>2. \A i, j \in 1 .. n : s[i] = s[j] => i = j
    BY <1>1, <1>2, <2>1, AscendingApart
  <2>3. s \in Injection(1 .. n, K)
    BY <1>2, <2>2 DEF Injection, IsInjective
  <2>4. IsFiniteSet(1 .. n) /\ Cardinality(1 .. n) = n
    BY <1>1, FS_Interval
  <2>5. s \in Surjection(1 .. n, K)
    BY <2>3, <2>4, FS_Injection DEF n
  <2> QED
    BY <2>5 DEF Surjection
<1> QED
  BY <1>1, <1>2, <1>3

\* There is one way only to write the same keys in ascending order.
LEMMA AscendingUnique ==
    ASSUME NEW n \in Nat, NEW s \in [1 .. n -> Seq(Nat)], NEW t \in [1 .. n -> Seq(Nat)],
           Ascends(s), Ascends(t),
           \A i \in 1 .. n : \E j \in 1 .. n : t[j] = s[i],
           \A i \in 1 .. n : \E j \in 1 .. n : s[j] = t[i]
    PROVE  s = t
<1> DEFINE T == {i \in 1 .. n : s[i] # t[i]}
<1> SUFFICES ASSUME T # {} PROVE FALSE
  <2>1. T = {} => \A i \in 1 .. n : s[i] = t[i]
    OBVIOUS
  <2>2. (\A i \in 1 .. n : s[i] = t[i]) => s = t
    OBVIOUS
  <2> HIDE DEF T
  <2> QED
    BY <2>1, <2>2, Zenon
<1>1. PICK x \in T : \A y \in T : x <= y
  <2>1. T \in SUBSET Nat
    OBVIOUS
  <2> HIDE DEF T
  <2> QED
    BY <2>1, LeastNatural
<1>2. x \in 1 .. n /\ s[x] # t[x] /\ \A y \in 1 .. n : y < x => s[y] = t[y]
  <2>1. \A y \in 1 .. n : y < x => y \notin T
    <3> HIDE DEF T
    <3>1. T \subseteq 1 .. n
      BY DEF T
    <3> QED
      BY <1>1, <3>1
  <2> QED
    BY <2>1
<1> HIDE DEF T
\* No sequence may have at x what is greater than what the other one has there.
<1>3. ASSUME NEW a \in [1 .. n -> Seq(Nat)], NEW b \in [1 .. n -> Seq(Nat)], Ascends(a), Ascends(b),
             \A i \in 1 .. n : \E j \in 1 .. n : b[j] = a[i],
             \A y \in 1 .. n : y < x => a[y] = b[y]
      PROVE  ~Less(a[x], b[x])
  <2> SUFFICES ASSUME Less(a[x], b[x]) PROVE FALSE
    OBVIOUS
  <2>1. PICK j \in 1 .. n : b[j] = a[x]
    BY <1>2, <1>3
  <2>2. CASE j < x
    <3>1. a[j] = a[x]
      BY <1>3, <2>1, <2>2
    <3>2. \A i, k \in 1 .. n : a[i] = a[k] => i = k
      BY <1>3, AscendingApart
    <3>3. j = x
      BY <1>2, <3>1, <3>2
    <3> QED
      BY <1>2, <2>2, <3>3
  <2>3. CASE j = x
    BY <1>2, <2>1, <2>3, LessIrreflexive
  <2>4. CASE x < j
    <3>1. Less(b[x], b[j])
      BY <1>2, <1>3, <2>4 DEF Ascends
    <3>2. Less(a[x], a[x])
      BY <1>2, <2>1, <3>1, LessTransitive
    <3> QED
      BY <1>2, <3>2, LessIrreflexive
  <2> QED
    BY <1>2, <2>2, <2>3, <2>4
<1>4. ~Less(s[x], t[x])
  BY <1>2, <1>3
<1>5. ~Less(t[x], s[x])
  BY <1>2, <1>3
<1>6. s[x] \in Seq(Nat) /\ t[x] \in Seq(Nat)
  BY <1>2
<1> QED
  BY <1>2, <1>4, <1>5, <1>6, LessTotal

\* Keys that were written in ascending order are found in that order.
LEMMA SortedIs ==
    ASSUME NEW n \in Nat, NEW s \in [1 .. n -> Seq(Nat)], Ascends(s)
    PROVE  Sorted({s[i] : i \in 1 .. n}) = s
<1> DEFINE K == {s[i] : i \in 1 .. n}
<1>1. K \in SUBSET Seq(Nat) /\ s \in [1 .. n -> K]
  OBVIOUS
<1>2. IsFiniteSet(K) /\ Cardinality(K) = n
  <2>1. \A i, j \in 1 .. n : s[i] = s[j] => i = j
    BY AscendingApart
  <2>2. s \in Bijection(1 .. n, K)
    BY <2>1 DEF Bijection, Injection, IsInjective, Surjection
  <2>3. IsFiniteSet(1 .. n) /\ Cardinality(1 .. n) = n
    BY FS_Interval
  <2>4. ExistsBijection(1 .. n, K)
    BY <2>2 DEF ExistsBijection
  <2> HIDE DEF K
  <2> QED
    BY <2>3, <2>4, FS_Bijection
<1>3. /\ Sorted(K) \in [1 .. n -> K] /\ Ascends(Sorted(K))
      /\ \A x \in K : \E i \in 1 .. n : Sorted(K)[i] = x
  <2> HIDE DEF K
  <2> QED
    BY <1>1, <1>2, SortedKeys
<1>4. Sorted(K) \in [1 .. n -> Seq(Nat)]
  BY <1>1, <1>3
<1>5. \A i \in 1 .. n : \E j \in 1 .. n : Sorted(K)[j] = s[i]
  BY <1>3
<1>6. \A i \in 1 .. n : \E j \in 1 .. n : s[j] = Sorted(K)[i]
  <2> TAKE i \in 1 .. n
  <2>1. Sorted(K)[i] \in K
    BY <1>3
  <2> QED
    BY <2>1
<1> HIDE DEF K
<1>7. Sorted(K) = s
  BY <1>3, <1>4, <1>5, <1>6, AscendingUnique
<1> QED
  BY <1>7 DEF K

-----------------------------------------------------------------------------
(* The functions that ProtocolValue defines by recursion.                  *)

Nested(level) == UNION {{w.parts[x] : x \in DOMAIN w.parts} : w \in level}

WithinRun(v) ==
    \E f : /\ Within(v) = f
           /\ f[0] = {v} /\ \A i \in 1 .. MaxDepth + 1 : f[i] = Nested(f[i - 1])

\* The values nested in v exist, level by level.
LEMMA WithinSteps ==
    ASSUME NEW v
    PROVE  WithinRun(v)
<1> DEFINE N == MaxDepth + 1
           Step(f, i) == IF i = 0 THEN {v} ELSE Nested(f[i - 1])
           Upto(n) == \E f : \A i \in 0 .. N : i < n => f[i] = Step(f, i)
           T == {n \in Nat : Upto(n)}
           F == CHOOSE f : f = [i \in 0 .. MaxDepth + 1 |-> IF i = 0 THEN {v} ELSE Nested(f[i - 1])]
<1>1. Within(v) = F
  BY Zenon DEF Within, Nested
<1>2. F = CHOOSE f : f = [i \in 0 .. N |-> Step(f, i)]
  BY Zenon
<1>3. \A f : Step(f, 0) = {v} /\ \A i \in 1 .. N : Step(f, i) = Nested(f[i - 1])
  BY DepthAssumption
<1>4. \A f, g : \A i \in 0 .. N : (i # 0 => f[i - 1] = g[i - 1]) => Step(f, i) = Step(g, i)
  OBVIOUS
<1>5. N \in Nat
  BY DepthAssumption
<1> HIDE DEF Step, F, N
<1>6. 0 \in T
  OBVIOUS
<1>7. ASSUME NEW n \in T PROVE n + 1 \in T
  <2>1. n \in Nat
    OBVIOUS
  <2>2. PICK f : \A i \in 0 .. N : i < n => f[i] = Step(f, i)
    OBVIOUS
  <2> HIDE DEF T
  <2> DEFINE h == [i \in 0 .. N |-> IF i < n THEN f[i] ELSE Step(f, i)]
  <2>3. \A i \in 0 .. N : i < n + 1 => h[i] = Step(h, i)
    <3> SUFFICES ASSUME NEW i \in 0 .. N, i < n + 1 PROVE h[i] = Step(h, i)
      OBVIOUS
    <3>1. h[i] = Step(f, i)
      BY <2>2
    <3>2. i # 0 => h[i - 1] = f[i - 1]
      BY <1>5, <2>1
    <3> HIDE DEF h
    <3> QED
      BY <1>4, <3>1, <3>2
  <2> HIDE DEF h
  <2>4. Upto(n + 1)
    BY <2>3
  <2> QED
    BY <2>1, <2>4 DEF T
<1>8. T = Nat
  <2>1. T \in SUBSET Nat
    OBVIOUS
  <2> HIDE DEF T
  <2> QED
    BY <1>6, <1>7, <2>1, Induction
<1>9. Upto(N + 1)
  <2>1. \A n \in Nat : Upto(n)
    BY <1>8
  <2> HIDE DEF Upto
  <2> QED
    BY <1>5, <2>1
<1>10. PICK g : \A i \in 0 .. N : i < N + 1 => g[i] = Step(g, i)
  BY <1>9
<1> DEFINE e == [i \in 0 .. N |-> g[i]]
<1>11. \A i \in 0 .. N : g[i] = Step(e, i)
  <2>1. \A i \in 0 .. N : i # 0 => e[i - 1] = g[i - 1]
    BY <1>5
  <2> HIDE DEF e
  <2> QED
    BY <1>4, <1>5, <1>10, <2>1
<1>12. e = [i \in 0 .. N |-> Step(e, i)]
  BY <1>11
<1> HIDE DEF e
<1>13. F = [i \in 0 .. N |-> Step(F, i)]
  BY <1>2, <1>12, Zenon
<1>14. \A i \in 0 .. N : F[i] = Step(F, i)
  <2> DEFINE s(i) == Step(F, i)
  <2>1. F = [i \in 0 .. N |-> s(i)]
    BY <1>13, Zenon
  <2> HIDE DEF s
  <2>2. \A i \in 0 .. N : F[i] = s(i)
    BY <2>1
  <2> QED
    BY <2>2 DEF s
<1>15. F[0] = {v}
  BY <1>3, <1>5, <1>14
<1>16. \A i \in 1 .. N : F[i] = Nested(F[i - 1])
  BY <1>3, <1>5, <1>14
<1> QED
  BY <1>1, <1>15, <1>16 DEF N, WithinRun

NextBody(v, forms, b, i) ==
    Joined(b, Joined(KeyForm(v.tag, Places(v)[i]), forms[v.parts[Places(v)[i]]]))

BodyRun(v, forms) ==
    \E f : /\ GroupForm(v, forms) = f[Len(Places(v))]
           /\ f[0] = Emit(<<v.tag, Len(Places(v))>>, 1) /\ \A i \in 1 .. Len(Places(v)) : f[i] = NextBody(v, forms, f[i - 1], i)

\* What is written of a list or a map exists, part by part.
LEMMA BodySteps ==
    ASSUME NEW v, NEW forms, Len(Places(v)) \in Nat
    PROVE  BodyRun(v, forms)
<1> DEFINE N == Len(Places(v))
           Step(f, i) == IF i = 0 THEN Emit(<<v.tag, Len(Places(v))>>, 1) ELSE NextBody(v, forms, f[i - 1], i)
           Upto(n) == \E f : \A i \in 0 .. N : i < n => f[i] = Step(f, i)
           T == {n \in Nat : Upto(n)}
           F == CHOOSE f : f = [i \in 0 .. Len(Places(v)) |-> IF i = 0 THEN Emit(<<v.tag, Len(Places(v))>>, 1) ELSE NextBody(v, forms, f[i - 1], i)]
<1>1. GroupForm(v, forms) = F[Len(Places(v))]
  BY Zenon DEF GroupForm, NextBody
<1>2. F = CHOOSE f : f = [i \in 0 .. N |-> Step(f, i)]
  BY Zenon
<1>3. \A f : Step(f, 0) = Emit(<<v.tag, Len(Places(v))>>, 1) /\ \A i \in 1 .. N : Step(f, i) = NextBody(v, forms, f[i - 1], i)
  OBVIOUS
<1>4. \A f, g : \A i \in 0 .. N : (i # 0 => f[i - 1] = g[i - 1]) => Step(f, i) = Step(g, i)
  OBVIOUS
<1>5. N \in Nat
  OBVIOUS
<1> HIDE DEF Step, F, N
<1>6. 0 \in T
  OBVIOUS
<1>7. ASSUME NEW n \in T PROVE n + 1 \in T
  <2>1. n \in Nat
    OBVIOUS
  <2>2. PICK f : \A i \in 0 .. N : i < n => f[i] = Step(f, i)
    OBVIOUS
  <2> HIDE DEF T
  <2> DEFINE h == [i \in 0 .. N |-> IF i < n THEN f[i] ELSE Step(f, i)]
  <2>3. \A i \in 0 .. N : i < n + 1 => h[i] = Step(h, i)
    <3> SUFFICES ASSUME NEW i \in 0 .. N, i < n + 1 PROVE h[i] = Step(h, i)
      OBVIOUS
    <3>1. h[i] = Step(f, i)
      BY <2>2
    <3>2. i # 0 => h[i - 1] = f[i - 1]
      BY <1>5, <2>1
    <3> HIDE DEF h
    <3> QED
      BY <1>4, <3>1, <3>2
  <2> HIDE DEF h
  <2>4. Upto(n + 1)
    BY <2>3
  <2> QED
    BY <2>1, <2>4 DEF T
<1>8. T = Nat
  <2>1. T \in SUBSET Nat
    OBVIOUS
  <2> HIDE DEF T
  <2> QED
    BY <1>6, <1>7, <2>1, Induction
<1>9. Upto(N + 1)
  <2>1. \A n \in Nat : Upto(n)
    BY <1>8
  <2> HIDE DEF Upto
  <2> QED
    BY <1>5, <2>1
<1>10. PICK g : \A i \in 0 .. N : i < N + 1 => g[i] = Step(g, i)
  BY <1>9
<1> DEFINE e == [i \in 0 .. N |-> g[i]]
<1>11. \A i \in 0 .. N : g[i] = Step(e, i)
  <2>1. \A i \in 0 .. N : i # 0 => e[i - 1] = g[i - 1]
    BY <1>5
  <2> HIDE DEF e
  <2> QED
    BY <1>4, <1>5, <1>10, <2>1
<1>12. e = [i \in 0 .. N |-> Step(e, i)]
  BY <1>11
<1> HIDE DEF e
<1>13. F = [i \in 0 .. N |-> Step(F, i)]
  BY <1>2, <1>12, Zenon
<1>14. \A i \in 0 .. N : F[i] = Step(F, i)
  <2> DEFINE s(i) == Step(F, i)
  <2>1. F = [i \in 0 .. N |-> s(i)]
    BY <1>13, Zenon
  <2> HIDE DEF s
  <2>2. \A i \in 0 .. N : F[i] = s(i)
    BY <2>1
  <2> QED
    BY <2>2 DEF s
<1>15. F[0] = Emit(<<v.tag, Len(Places(v))>>, 1)
  BY <1>3, <1>5, <1>14
<1>16. \A i \in 1 .. N : F[i] = NextBody(v, forms, F[i - 1], i)
  BY <1>3, <1>5, <1>14
<1> QED
  BY <1>1, <1>15, <1>16 DEF N, BodyRun

NoForms(v) == [w \in Within(v)[MaxDepth + 1] |-> Refused]
NextForms(v, f, n) == [w \in Within(v)[MaxDepth + 1 - n] |-> Form(w, f)]

FormsRun(v) ==
    \E f : /\ Encode(v) = f[MaxDepth + 1][v]
           /\ f[0] = NoForms(v) /\ \A i \in 1 .. MaxDepth + 1 : f[i] = NextForms(v, f[i - 1], i)

\* The forms of the values in v exist, level by level.
LEMMA FormsSteps ==
    ASSUME NEW v
    PROVE  FormsRun(v)
<1> DEFINE N == MaxDepth + 1
           Step(f, i) == IF i = 0 THEN NoForms(v) ELSE NextForms(v, f[i - 1], i)
           Upto(n) == \E f : \A i \in 0 .. N : i < n => f[i] = Step(f, i)
           T == {n \in Nat : Upto(n)}
           F == CHOOSE f : f = [i \in 0 .. MaxDepth + 1 |-> IF i = 0 THEN NoForms(v) ELSE NextForms(v, f[i - 1], i)]
<1>1. Encode(v) = F[MaxDepth + 1][v]
  BY Zenon DEF Encode, NoForms, NextForms
<1>2. F = CHOOSE f : f = [i \in 0 .. N |-> Step(f, i)]
  BY Zenon
<1>3. \A f : Step(f, 0) = NoForms(v) /\ \A i \in 1 .. N : Step(f, i) = NextForms(v, f[i - 1], i)
  BY DepthAssumption
<1>4. \A f, g : \A i \in 0 .. N : (i # 0 => f[i - 1] = g[i - 1]) => Step(f, i) = Step(g, i)
  OBVIOUS
<1>5. N \in Nat
  BY DepthAssumption
<1> HIDE DEF Step, F, N
<1>6. 0 \in T
  OBVIOUS
<1>7. ASSUME NEW n \in T PROVE n + 1 \in T
  <2>1. n \in Nat
    OBVIOUS
  <2>2. PICK f : \A i \in 0 .. N : i < n => f[i] = Step(f, i)
    OBVIOUS
  <2> HIDE DEF T
  <2> DEFINE h == [i \in 0 .. N |-> IF i < n THEN f[i] ELSE Step(f, i)]
  <2>3. \A i \in 0 .. N : i < n + 1 => h[i] = Step(h, i)
    <3> SUFFICES ASSUME NEW i \in 0 .. N, i < n + 1 PROVE h[i] = Step(h, i)
      OBVIOUS
    <3>1. h[i] = Step(f, i)
      BY <2>2
    <3>2. i # 0 => h[i - 1] = f[i - 1]
      BY <1>5, <2>1
    <3> HIDE DEF h
    <3> QED
      BY <1>4, <3>1, <3>2
  <2> HIDE DEF h
  <2>4. Upto(n + 1)
    BY <2>3
  <2> QED
    BY <2>1, <2>4 DEF T
<1>8. T = Nat
  <2>1. T \in SUBSET Nat
    OBVIOUS
  <2> HIDE DEF T
  <2> QED
    BY <1>6, <1>7, <2>1, Induction
<1>9. Upto(N + 1)
  <2>1. \A n \in Nat : Upto(n)
    BY <1>8
  <2> HIDE DEF Upto
  <2> QED
    BY <1>5, <2>1
<1>10. PICK g : \A i \in 0 .. N : i < N + 1 => g[i] = Step(g, i)
  BY <1>9
<1> DEFINE e == [i \in 0 .. N |-> g[i]]
<1>11. \A i \in 0 .. N : g[i] = Step(e, i)
  <2>1. \A i \in 0 .. N : i # 0 => e[i - 1] = g[i - 1]
    BY <1>5
  <2> HIDE DEF e
  <2> QED
    BY <1>4, <1>5, <1>10, <2>1
<1>12. e = [i \in 0 .. N |-> Step(e, i)]
  BY <1>11
<1> HIDE DEF e
<1>13. F = [i \in 0 .. N |-> Step(F, i)]
  BY <1>2, <1>12, Zenon
<1>14. \A i \in 0 .. N : F[i] = Step(F, i)
  <2> DEFINE s(i) == Step(F, i)
  <2>1. F = [i \in 0 .. N |-> s(i)]
    BY <1>13, Zenon
  <2> HIDE DEF s
  <2>2. \A i \in 0 .. N : F[i] = s(i)
    BY <2>1
  <2> QED
    BY <2>2 DEF s
<1>15. F[0] = NoForms(v)
  BY <1>3, <1>5, <1>14
<1>16. \A i \in 1 .. N : F[i] = NextForms(v, F[i - 1], i)
  BY <1>3, <1>5, <1>14
<1> QED
  BY <1>1, <1>15, <1>16 DEF N, FormsRun

Following(nested, tag, s, i) == NextPart(nested, tag, i, s)

PartsRun(nested, tag, count, at, had) ==
    \E f : /\ ReadGroup(nested, tag, count, at, had) =
                  IF f[count].ok THEN Read(Group(tag, f[count].parts), f[count].next, f[count].items)
                  ELSE Wrong
           /\ f[0] = Start(at, had) /\ \A i \in 1 .. count : f[i] = Following(nested, tag, f[i - 1], i)

\* What is read of a list or a map exists, part by part.
LEMMA PartsSteps ==
    ASSUME NEW nested, NEW tag, NEW count \in Nat, NEW at, NEW had
    PROVE  PartsRun(nested, tag, count, at, had)
<1> DEFINE N == count
           Step(f, i) == IF i = 0 THEN Start(at, had) ELSE Following(nested, tag, f[i - 1], i)
           Upto(n) == \E f : \A i \in 0 .. N : i < n => f[i] = Step(f, i)
           T == {n \in Nat : Upto(n)}
           F == CHOOSE f : f = [i \in 0 .. count |-> IF i = 0 THEN Start(at, had) ELSE Following(nested, tag, f[i - 1], i)]
<1>1. ReadGroup(nested, tag, count, at, had) =
             IF F[count].ok THEN Read(Group(tag, F[count].parts), F[count].next, F[count].items) ELSE Wrong
  BY Zenon DEF ReadGroup, Following
<1>2. F = CHOOSE f : f = [i \in 0 .. N |-> Step(f, i)]
  BY Zenon
<1>3. \A f : Step(f, 0) = Start(at, had) /\ \A i \in 1 .. N : Step(f, i) = Following(nested, tag, f[i - 1], i)
  OBVIOUS
<1>4. \A f, g : \A i \in 0 .. N : (i # 0 => f[i - 1] = g[i - 1]) => Step(f, i) = Step(g, i)
  OBVIOUS
<1>5. N \in Nat
  OBVIOUS
<1> HIDE DEF Step, F, N
<1>6. 0 \in T
  OBVIOUS
<1>7. ASSUME NEW n \in T PROVE n + 1 \in T
  <2>1. n \in Nat
    OBVIOUS
  <2>2. PICK f : \A i \in 0 .. N : i < n => f[i] = Step(f, i)
    OBVIOUS
  <2> HIDE DEF T
  <2> DEFINE h == [i \in 0 .. N |-> IF i < n THEN f[i] ELSE Step(f, i)]
  <2>3. \A i \in 0 .. N : i < n + 1 => h[i] = Step(h, i)
    <3> SUFFICES ASSUME NEW i \in 0 .. N, i < n + 1 PROVE h[i] = Step(h, i)
      OBVIOUS
    <3>1. h[i] = Step(f, i)
      BY <2>2
    <3>2. i # 0 => h[i - 1] = f[i - 1]
      BY <1>5, <2>1
    <3> HIDE DEF h
    <3> QED
      BY <1>4, <3>1, <3>2
  <2> HIDE DEF h
  <2>4. Upto(n + 1)
    BY <2>3
  <2> QED
    BY <2>1, <2>4 DEF T
<1>8. T = Nat
  <2>1. T \in SUBSET Nat
    OBVIOUS
  <2> HIDE DEF T
  <2> QED
    BY <1>6, <1>7, <2>1, Induction
<1>9. Upto(N + 1)
  <2>1. \A n \in Nat : Upto(n)
    BY <1>8
  <2> HIDE DEF Upto
  <2> QED
    BY <1>5, <2>1
<1>10. PICK g : \A i \in 0 .. N : i < N + 1 => g[i] = Step(g, i)
  BY <1>9
<1> DEFINE e == [i \in 0 .. N |-> g[i]]
<1>11. \A i \in 0 .. N : g[i] = Step(e, i)
  <2>1. \A i \in 0 .. N : i # 0 => e[i - 1] = g[i - 1]
    BY <1>5
  <2> HIDE DEF e
  <2> QED
    BY <1>4, <1>5, <1>10, <2>1
<1>12. e = [i \in 0 .. N |-> Step(e, i)]
  BY <1>11
<1> HIDE DEF e
<1>13. F = [i \in 0 .. N |-> Step(F, i)]
  BY <1>2, <1>12, Zenon
<1>14. \A i \in 0 .. N : F[i] = Step(F, i)
  <2> DEFINE s(i) == Step(F, i)
  <2>1. F = [i \in 0 .. N |-> s(i)]
    BY <1>13, Zenon
  <2> HIDE DEF s
  <2>2. \A i \in 0 .. N : F[i] = s(i)
    BY <2>1
  <2> QED
    BY <2>2 DEF s
<1>15. F[0] = Start(at, had)
  BY <1>3, <1>5, <1>14
<1>16. \A i \in 1 .. N : F[i] = Following(nested, tag, F[i - 1], i)
  BY <1>3, <1>5, <1>14
<1> QED
  BY <1>1, <1>15, <1>16 DEF N, PartsRun

NoValues == [p \in Nat \X Nat |-> Wrong]
NextValues(data, max, values) == [p \in Nat \X Nat |-> ReadValue(data, max, values, p[1], p[2])]
WholeRead(data, read) == IF read.ok /\ read.next = Len(data) + 1 THEN read ELSE Wrong

ValuesRun(data, max) ==
    \E f : /\ Decode(data, max) = WholeRead(data, f[MaxDepth + 1][<<1, 0>>])
           /\ f[0] = NoValues /\ \A i \in 1 .. MaxDepth + 1 : f[i] = NextValues(data, max, f[i - 1])

\* What the reader makes of the wire exists, level by level.
LEMMA ValuesSteps ==
    ASSUME NEW data, NEW max
    PROVE  ValuesRun(data, max)
<1> DEFINE N == MaxDepth + 1
           Step(f, i) == IF i = 0 THEN NoValues ELSE NextValues(data, max, f[i - 1])
           Upto(n) == \E f : \A i \in 0 .. N : i < n => f[i] = Step(f, i)
           T == {n \in Nat : Upto(n)}
           F == CHOOSE f : f = [i \in 0 .. MaxDepth + 1 |-> IF i = 0 THEN NoValues ELSE NextValues(data, max, f[i - 1])]
<1>1. Decode(data, max) = WholeRead(data, F[MaxDepth + 1][<<1, 0>>])
  BY Zenon DEF Decode, WholeRead, NoValues, NextValues
<1>2. F = CHOOSE f : f = [i \in 0 .. N |-> Step(f, i)]
  BY Zenon
<1>3. \A f : Step(f, 0) = NoValues /\ \A i \in 1 .. N : Step(f, i) = NextValues(data, max, f[i - 1])
  BY DepthAssumption
<1>4. \A f, g : \A i \in 0 .. N : (i # 0 => f[i - 1] = g[i - 1]) => Step(f, i) = Step(g, i)
  OBVIOUS
<1>5. N \in Nat
  BY DepthAssumption
<1> HIDE DEF Step, F, N
<1>6. 0 \in T
  OBVIOUS
<1>7. ASSUME NEW n \in T PROVE n + 1 \in T
  <2>1. n \in Nat
    OBVIOUS
  <2>2. PICK f : \A i \in 0 .. N : i < n => f[i] = Step(f, i)
    OBVIOUS
  <2> HIDE DEF T
  <2> DEFINE h == [i \in 0 .. N |-> IF i < n THEN f[i] ELSE Step(f, i)]
  <2>3. \A i \in 0 .. N : i < n + 1 => h[i] = Step(h, i)
    <3> SUFFICES ASSUME NEW i \in 0 .. N, i < n + 1 PROVE h[i] = Step(h, i)
      OBVIOUS
    <3>1. h[i] = Step(f, i)
      BY <2>2
    <3>2. i # 0 => h[i - 1] = f[i - 1]
      BY <1>5, <2>1
    <3> HIDE DEF h
    <3> QED
      BY <1>4, <3>1, <3>2
  <2> HIDE DEF h
  <2>4. Upto(n + 1)
    BY <2>3
  <2> QED
    BY <2>1, <2>4 DEF T
<1>8. T = Nat
  <2>1. T \in SUBSET Nat
    OBVIOUS
  <2> HIDE DEF T
  <2> QED
    BY <1>6, <1>7, <2>1, Induction
<1>9. Upto(N + 1)
  <2>1. \A n \in Nat : Upto(n)
    BY <1>8
  <2> HIDE DEF Upto
  <2> QED
    BY <1>5, <2>1
<1>10. PICK g : \A i \in 0 .. N : i < N + 1 => g[i] = Step(g, i)
  BY <1>9
<1> DEFINE e == [i \in 0 .. N |-> g[i]]
<1>11. \A i \in 0 .. N : g[i] = Step(e, i)
  <2>1. \A i \in 0 .. N : i # 0 => e[i - 1] = g[i - 1]
    BY <1>5
  <2> HIDE DEF e
  <2> QED
    BY <1>4, <1>5, <1>10, <2>1
<1>12. e = [i \in 0 .. N |-> Step(e, i)]
  BY <1>11
<1> HIDE DEF e
<1>13. F = [i \in 0 .. N |-> Step(F, i)]
  BY <1>2, <1>12, Zenon
<1>14. \A i \in 0 .. N : F[i] = Step(F, i)
  <2> DEFINE s(i) == Step(F, i)
  <2>1. F = [i \in 0 .. N |-> s(i)]
    BY <1>13, Zenon
  <2> HIDE DEF s
  <2>2. \A i \in 0 .. N : F[i] = s(i)
    BY <2>1
  <2> QED
    BY <2>2 DEF s
<1>15. F[0] = NoValues
  BY <1>3, <1>5, <1>14
<1>16. \A i \in 1 .. N : F[i] = NextValues(data, max, F[i - 1])
  BY <1>3, <1>5, <1>14
<1> QED
  BY <1>1, <1>15, <1>16 DEF N, ValuesRun
-----------------------------------------------------------------------------
(* What is read of a wire is written as that wire.                         *)

\* Two adjacent parts of a wire make one.
LEMMA AdjacentParts ==
    ASSUME NEW data \in Seq(Nat), NEW a \in Nat \ {0}, NEW b \in Nat, NEW c \in Nat,
           a <= b, b <= c, c <= Len(data) + 1
    PROVE  SubSeq(data, a, b - 1) \o SubSeq(data, b, c - 1) = SubSeq(data, a, c - 1)
<1>1. a \in 1 .. Len(data) + 1 /\ b - 1 \in a - 1 .. Len(data) /\ c - 1 \in b - 1 .. Len(data)
  OBVIOUS
<1>2. SubSeq(data, a, b - 1) \o SubSeq(data, (b - 1) + 1, c - 1) = SubSeq(data, a, c - 1)
  BY <1>1, ConcatAdjacentSubSeq
<1>3. (b - 1) + 1 = b
  OBVIOUS
<1> QED
  BY <1>2, <1>3

\* What was read at token a after b values ends within the wire and the limit.
Bounded(data, max, r, a, b) ==
    /\ r.next \in Nat /\ a < r.next /\ r.next <= Len(data) + 1
    /\ r.items \in Nat /\ b < r.items /\ r.items <= max

\* The tokens from a up to what follows r, and the values that are counted there.
Stretch(data, r, a, b) == Emit(SubSeq(data, a, r.next - 1), r.items - b)

\* What `nested` reads stays within bounds, and its strings are what was read.
ReadsWell(data, max, nested) ==
    \A a \in Nat \ {0}, b \in Nat :
        nested[<<a, b>>].ok =>
            /\ Bounded(data, max, nested[<<a, b>>], a, b)
            /\ nested[<<a, b>>].value.tag = TagStr =>
                   /\ nested[<<a, b>>].value.raw \in Seq(Nat)
                   /\ TextForm(TagStr, nested[<<a, b>>].value.raw) = Stretch(data, nested[<<a, b>>], a, b)

\* The forms of the values in S are what `nested` reads them of.
FormsAreRead(data, nested, forms, S) ==
    \A a \in Nat \ {0}, b \in Nat :
        nested[<<a, b>>].ok /\ nested[<<a, b>>].value \in S =>
            forms[nested[<<a, b>>].value] = Stretch(data, nested[<<a, b>>], a, b)

\* Part i of a list or a map, which makes t of s: its place, and its value.
PartFits(data, max, nested, tag, i, s, t) ==
    /\ s.ok /\ Bounded(data, max, t, s.next, s.items)
    /\ tag = TagList => t.previous = i
    /\ tag = TagMap => t.previous \in Seq(Nat) /\ (i = 1 \/ Less(s.previous, t.previous))
    /\ t.parts = Bind(s.parts, t.previous, t.parts[t.previous])
    /\ \A forms, S :
           t.parts[t.previous] \in S /\ FormsAreRead(data, nested, forms, S) =>
               Joined(KeyForm(tag, t.previous), forms[t.parts[t.previous]])
                   = Stretch(data, t, s.next, s.items)

\* A part that was read is written as the tokens it was read from.
LEMMA PartIsRead ==
    ASSUME NEW data \in Seq(Nat), NEW max \in Nat, NEW nested, ReadsWell(data, max, nested),
           NEW tag \in {TagList, TagMap}, NEW i \in Nat \ {0},
           NEW s, s.next \in Nat \ {0}, s.items \in Nat,
           NEW t, t = NextPart(nested, tag, i, s), t.ok
    PROVE  PartFits(data, max, nested, tag, i, s, t)
<1> DEFINE at == NextPlace(nested, tag, i, s)
           part == nested[<<at.next, at.items>>]
           key == nested[<<s.next, s.items>>]
<1>1. /\ s.ok /\ at.ok /\ part.ok
      /\ t = [ok |-> TRUE, parts |-> Bind(s.parts, at.place, part.value),
              next |-> part.next, items |-> part.items, previous |-> at.place]
  <2>1. ~(s.ok /\ at.ok /\ part.ok) => t = Stopped
    BY DEF NextPart
  <2>2. ~Stopped.ok
    BY DEF Stopped, Start
  <2>3. s.ok /\ at.ok /\ part.ok
    BY <2>1, <2>2
  <2> QED
    BY <2>3 DEF NextPart
<1>2. /\ t.parts = Bind(s.parts, at.place, part.value) /\ t.next = part.next
      /\ t.items = part.items /\ t.previous = at.place
      /\ t.parts[t.previous] = part.value
  <2>1. Bind(s.parts, at.place, part.value)[at.place] = part.value
    BY DEF Bind
  <2> QED
    BY <1>1, <2>1
<1>3. CASE tag = TagMap
  <2>1. /\ at.place = key.value.raw /\ at.next = key.next /\ at.items = key.items
        /\ key.ok /\ key.value.tag = TagStr /\ (i = 1 \/ Less(s.previous, key.value.raw))
    BY <1>1, <1>3 DEF NextPlace, MayFollow
  <2> HIDE DEF at, part, key
  <2>2. /\ Bounded(data, max, key, s.next, s.items) /\ key.value.raw \in Seq(Nat)
        /\ TextForm(TagStr, key.value.raw) = Stretch(data, key, s.next, s.items)
    BY <2>1 DEF ReadsWell, key
  <2>3. key.next \in Nat \ {0} /\ key.items \in Nat
    BY <2>2 DEF Bounded
  <2>4. Bounded(data, max, part, key.next, key.items)
    BY <1>1, <2>1, <2>3 DEF ReadsWell, part
  <2>5. Bounded(data, max, t, s.next, s.items)
    BY <1>2, <2>2, <2>4, SMTT(30) DEF Bounded
  <2>6. ASSUME NEW forms, NEW S, part.value \in S, FormsAreRead(data, nested, forms, S)
        PROVE  Joined(KeyForm(tag, t.previous), forms[part.value]) = Stretch(data, t, s.next, s.items)
    <3>1. forms[part.value] = Stretch(data, part, key.next, key.items)
      BY <1>1, <2>1, <2>3, <2>6 DEF FormsAreRead, part
    <3>2. KeyForm(tag, t.previous) = Stretch(data, key, s.next, s.items)
      BY <1>2, <1>3, <2>1, <2>2 DEF KeyForm
    <3>3. SubSeq(data, s.next, key.next - 1) \o SubSeq(data, key.next, part.next - 1)
              = SubSeq(data, s.next, part.next - 1)
      <4>1. /\ s.next \in Nat \ {0} /\ key.next \in Nat /\ part.next \in Nat
            /\ s.next <= key.next /\ key.next <= part.next /\ part.next <= Len(data) + 1
        BY <2>2, <2>4 DEF Bounded
      <4> QED
        BY <4>1, AdjacentParts
    <3>4. (key.items - s.items) + (part.items - key.items) = part.items - s.items
      BY <2>2, <2>4, SMTT(30) DEF Bounded
    <3>5. Joined(Stretch(data, key, s.next, s.items), Stretch(data, part, key.next, key.items))
              = Stretch(data, part, s.next, s.items)
      BY <3>3, <3>4 DEF Joined, Stretch, Emit
    <3>6. Stretch(data, part, s.next, s.items) = Stretch(data, t, s.next, s.items)
      BY <1>2 DEF Stretch
    <3> QED
      BY <3>1, <3>2, <3>5, <3>6
  <2>7. t.previous \in Seq(Nat) /\ (i = 1 \/ Less(s.previous, t.previous)) /\ tag # TagList
    BY <1>2, <1>3, <2>1, <2>2 DEF TagList, TagMap
  <2> QED
    BY <1>1, <1>2, <2>5, <2>6, <2>7 DEF PartFits
<1>4. CASE tag = TagList
  <2>1. at.place = i /\ at.next = s.next /\ at.items = s.items
    BY <1>4 DEF NextPlace, TagList, TagMap
  <2> HIDE DEF at, part, key
  <2>2. Bounded(data, max, part, s.next, s.items)
    BY <1>1, <2>1 DEF ReadsWell, part
  <2>3. Bounded(data, max, t, s.next, s.items)
    BY <1>2, <2>2 DEF Bounded
  <2>4. ASSUME NEW forms, NEW S, part.value \in S, FormsAreRead(data, nested, forms, S)
        PROVE  Joined(KeyForm(tag, t.previous), forms[part.value]) = Stretch(data, t, s.next, s.items)
    <3>1. forms[part.value] = Stretch(data, part, s.next, s.items)
      BY <1>1, <2>1, <2>4, SMTT(30) DEF FormsAreRead, part
    <3>2. KeyForm(tag, t.previous) = Emit(<<>>, 0)
      BY <1>4 DEF KeyForm, TagList, TagMap
    <3>3. /\ SubSeq(data, s.next, part.next - 1) \in Seq(Nat)
          /\ 0 + (part.items - s.items) = part.items - s.items
      <4>1. s.next \in Nat \ {0} /\ part.next \in Nat /\ s.next < part.next /\ part.next <= Len(data) + 1
        BY <2>2 DEF Bounded
      <4>2. SubSeq(data, s.next, part.next - 1) \in Seq(Nat)
        BY <4>1
      <4>3. 0 + (part.items - s.items) = part.items - s.items
        BY <2>2 DEF Bounded
      <4> QED
        BY <4>2, <4>3
    <3>4. \A x \in Seq(Nat) : <<>> \o x = x
      OBVIOUS
    <3>5. Joined(Emit(<<>>, 0), Stretch(data, part, s.next, s.items)) = Stretch(data, part, s.next, s.items)
      BY <3>3, <3>4 DEF Joined, Stretch, Emit
    <3>6. Stretch(data, part, s.next, s.items) = Stretch(data, t, s.next, s.items)
      BY <1>2 DEF Stretch
    <3> QED
      BY <3>1, <3>2, <3>5, <3>6
  <2>5. t.previous = i /\ tag # TagMap
    BY <1>2, <1>4, <2>1 DEF TagList, TagMap
  <2> QED
    BY <1>1, <1>2, <2>3, <2>4, <2>5 DEF PartFits
<1> QED
  BY <1>3, <1>4
-----------------------------------------------------------------------------
(* What was read of a list or a map.                                       *)

LEMMA JoinedThrice == \A x, y, z \in Seq(Nat) : (x \o y) \o z = x \o (y \o z)
<1> TAKE x, y, z \in Seq(Nat)
<1> QED
  BY SMTT(30), ConcatProperties

\* Places that each are greater than the one before ascend.
LEMMA ChainAscends ==
    ASSUME NEW n \in Nat, NEW s \in [1 .. n -> Seq(Nat)], \A i \in 2 .. n : Less(s[i - 1], s[i])
    PROVE  Ascends(s)
<1> DEFINE T == {m \in Nat : \A i, j \in 1 .. n : j = i + m + 1 => Less(s[i], s[j])}
<1>1. 0 \in T
  BY SMTT(20)
<1>2. ASSUME NEW m \in T PROVE m + 1 \in T
  <2>1. m \in Nat
    BY <1>2
  <2>2. ASSUME NEW i \in 1 .. n, NEW j \in 1 .. n, j = i + (m + 1) + 1 PROVE Less(s[i], s[j])
    <3>1. j - 1 \in 1 .. n /\ j - 1 = i + m + 1 /\ j \in 2 .. n
      BY <2>1, <2>2
    <3>2. Less(s[i], s[j - 1])
      BY <3>1
    <3>3. Less(s[j - 1], s[j])
      BY <3>1
    <3>4. s[i] \in Seq(Nat) /\ s[j - 1] \in Seq(Nat) /\ s[j] \in Seq(Nat)
      BY <3>1
    <3> QED
      BY <3>2, <3>3, <3>4, LessTransitive
  <2> QED
    BY <2>1, <2>2
<1>3. T \in SUBSET Nat
  OBVIOUS
<1>4. T = Nat
  <2> HIDE DEF T
  <2> QED
    BY <1>1, <1>2, <1>3, Induction
<1>5. ASSUME NEW i \in 1 .. n, NEW j \in 1 .. n, i < j PROVE Less(s[i], s[j])
  <2>1. j - i - 1 \in T /\ j = i + (j - i - 1) + 1
    <3>1. j - i - 1 \in Nat
      BY <1>5
    <3> HIDE DEF T
    <3> QED
      BY <1>4, <3>1
  <2> QED
    BY <2>1
<1> QED
  BY <1>5 DEF Ascends

\* Every part is bound to the place that was read before it, and no two to one.
Gathers(f, count) ==
    /\ f[0].parts = <<>>
    /\ \A i \in 1 .. count : f[i].parts = Bind(f[i - 1].parts, f[i].previous, f[i].parts[f[i].previous])
    /\ \A i, j \in 1 .. count : f[i].previous = f[j].previous => i = j

\* Parts that are bound to places of their own stay what they were bound to.
LEMMA PartsGather ==
    ASSUME NEW count \in Nat, NEW f, Gathers(f, count)
    PROVE  /\ DOMAIN f[count].parts = {f[j].previous : j \in 1 .. count}
           /\ \A j \in 1 .. count :
                  f[count].parts[f[j].previous] = f[j].parts[f[j].previous]
<1> DEFINE Kept(i) == /\ DOMAIN f[i].parts = {f[j].previous : j \in 1 .. i}
                      /\ \A j \in 1 .. i : f[i].parts[f[j].previous] = f[j].parts[f[j].previous]
           T == {i \in Nat : i <= count => Kept(i)}
<1>1. 0 \in T
  <2>1. DOMAIN f[0].parts = {} /\ 1 .. 0 = {}
    BY DEF Gathers
  <2> QED
    BY <2>1
<1>2. ASSUME NEW i \in T PROVE i + 1 \in T
  <2>1. i \in Nat
    BY <1>2
  <2>2. ASSUME i + 1 <= count PROVE Kept(i + 1)
    <3>1. Kept(i) /\ i + 1 \in 1 .. count /\ (i + 1) - 1 = i
      BY <1>2, <2>1, <2>2
    <3> DEFINE x == f[i + 1].previous
               y == f[i + 1].parts[f[i + 1].previous]
    <3>2. f[i + 1].parts = Bind(f[i].parts, x, y)
      BY <3>1 DEF Gathers
    <3> HIDE DEF x, y
    <3>3. DOMAIN f[i + 1].parts = DOMAIN f[i].parts \cup {x}
      BY <3>2 DEF Bind
    <3>4. DOMAIN f[i + 1].parts = {f[j].previous : j \in 1 .. i + 1}
      <4>1. 1 .. i + 1 = (1 .. i) \cup {i + 1}
        BY <2>1
      <4>2. {f[j].previous : j \in (1 .. i) \cup {i + 1}} = {f[j].previous : j \in 1 .. i} \cup {f[i + 1].previous}
        OBVIOUS
      <4> QED
        BY <3>1, <3>3, <4>1, <4>2 DEF x
    <3>5. ASSUME NEW j \in 1 .. i + 1
          PROVE  f[i + 1].parts[f[j].previous] = f[j].parts[f[j].previous]
      <4>1. CASE j = i + 1
        BY <4>1
      <4>2. CASE j # i + 1
        <5>1. j \in 1 .. i /\ j \in 1 .. count
          BY <2>1, <2>2, <4>2
        <5>2. f[j].previous # x /\ f[j].previous \in DOMAIN f[i].parts
          BY <3>1, <4>2, <5>1 DEF x, Gathers
        <5>3. f[i + 1].parts[f[j].previous] = f[i].parts[f[j].previous]
          BY <3>2, <5>2 DEF Bind
        <5> QED
          BY <3>1, <5>1, <5>3
      <4> QED
        BY <4>1, <4>2
    <3> QED
      BY <3>4, <3>5
  <2> QED
    BY <2>1, <2>2
<1>3. T \in SUBSET Nat
  OBVIOUS
<1>4. count \in T
  <2> HIDE DEF T
  <2> QED
    BY <1>1, <1>2, <1>3, Induction
<1> QED
  BY <1>4

\* The steps of a list or a map that was read to its end.
Chain(nested, tag, count, n, k, f) ==
    /\ f[0] = Start(n, k) /\ f[count].ok
    /\ \A i \in 1 .. count : f[i] = NextPart(nested, tag, i, f[i - 1])

\* A wire is still being read.
Inside(data, max, s, n, k) ==
    /\ s.ok /\ s.next \in Nat /\ n <= s.next /\ s.next <= Len(data) + 1
    /\ s.items \in Nat /\ k <= s.items /\ s.items <= max

\* The reader moves forward, within the wire and within its limit.
LEMMA ChainInside ==
    ASSUME NEW data \in Seq(Nat), NEW max \in Nat, NEW nested, ReadsWell(data, max, nested),
           NEW tag \in {TagList, TagMap}, NEW count \in Nat,
           NEW n \in Nat \ {0}, n <= Len(data) + 1, NEW k \in Nat, k <= max,
           NEW f, Chain(nested, tag, count, n, k, f)
    PROVE  \A i \in 0 .. count : Inside(data, max, f[i], n, k)
<1>1. ASSUME NEW i \in 1 .. count, f[i].ok PROVE f[i - 1].ok
  <2>1. f[i] = NextPart(nested, tag, i, f[i - 1])
    BY DEF Chain
  <2>2. ~f[i - 1].ok => f[i] = Stopped
    BY <2>1 DEF NextPart
  <2>3. ~Stopped.ok
    BY DEF Stopped, Start
  <2> QED
    BY <1>1, <2>2, <2>3
<1> DEFINE T == {j \in Nat : j <= count => f[count - j].ok}
           U == {j \in Nat : j <= count => Inside(data, max, f[j], n, k)}
<1>2. 0 \in T
  BY DEF Chain
<1>3. ASSUME NEW j \in T PROVE j + 1 \in T
  <2>1. CASE j + 1 <= count
    <3>1. count - j \in 1 .. count /\ f[count - j].ok /\ (count - j) - 1 = count - (j + 1)
      BY <1>3, <2>1
    <3> QED
      BY <1>1, <3>1
  <2> QED
    BY <1>3, <2>1
<1>4. T \in SUBSET Nat /\ U \in SUBSET Nat
  OBVIOUS
<1>5. ASSUME NEW i \in 0 .. count PROVE f[i].ok
  <2>1. T = Nat
    <3> HIDE DEF T
    <3> QED
      BY <1>2, <1>3, <1>4, Induction
  <2>2. count - i \in T /\ count - (count - i) = i /\ count - i <= count
    <3>1. count - i \in Nat
      OBVIOUS
    <3> HIDE DEF T
    <3> QED
      BY <2>1, <3>1
  <2> QED
    BY <2>2
<1>6. 0 \in U
  <2>1. f[0].ok /\ f[0].next = n /\ f[0].items = k
    BY DEF Chain, Start
  <2> QED
    BY <2>1 DEF Inside
<1>9. ASSUME NEW s, NEW t, Inside(data, max, s, n, k), t.ok, Bounded(data, max, t, s.next, s.items)
      PROVE  Inside(data, max, t, n, k)
  BY <1>9, SMTT(30) DEF Inside, Bounded
<1>7. ASSUME NEW j \in U PROVE j + 1 \in U
  <2>1. j \in Nat
    BY <1>7
  <2>2. ASSUME j + 1 <= count PROVE Inside(data, max, f[j + 1], n, k)
    <3>1. Inside(data, max, f[j], n, k) /\ j + 1 \in 1 .. count /\ (j + 1) - 1 = j /\ f[j + 1].ok
      BY <1>5, <1>7, <2>1, <2>2
    <3>2. f[j + 1] = NextPart(nested, tag, j + 1, f[j])
      BY <3>1 DEF Chain
    <3>3. f[j].next \in Nat \ {0} /\ f[j].items \in Nat /\ j + 1 \in Nat \ {0}
      BY <3>1 DEF Inside
    <3>4. Bounded(data, max, f[j + 1], f[j].next, f[j].items)
      BY <3>1, <3>2, <3>3, PartIsRead, SMTT(30) DEF PartFits
    <3> QED
      BY <1>9, <3>1, <3>4
  <2> QED
    BY <2>1, <2>2
<1>8. U = Nat
  <2> HIDE DEF U
  <2> QED
    BY <1>4, <1>6, <1>7, Induction
<1> QED
  BY <1>8

\* The places of what was read, in the order in which it was read.
LEMMA ChainPlaces ==
    ASSUME NEW data \in Seq(Nat), NEW max \in Nat, NEW nested, ReadsWell(data, max, nested),
           NEW tag \in {TagList, TagMap}, NEW count \in Nat,
           NEW n \in Nat \ {0}, n <= Len(data) + 1, NEW k \in Nat, k <= max,
           NEW f, Chain(nested, tag, count, n, k, f)
    PROVE  /\ Places(Group(tag, f[count].parts)) = [i \in 1 .. count |-> f[i].previous]
           /\ \A i \in 1 .. count :
                  /\ f[i].previous \in DOMAIN f[count].parts
                  /\ f[count].parts[f[i].previous] = f[i].parts[f[i].previous]
<1> DEFINE ks == [i \in 1 .. count |-> f[i].previous]
           g == Group(tag, f[count].parts)
<1>1. ASSUME NEW i \in 1 .. count
      PROVE  /\ tag = TagList => f[i].previous = i
             /\ tag = TagMap => /\ f[i].previous \in Seq(Nat)
                                /\ i = 1 \/ Less(f[i - 1].previous, f[i].previous)
             /\ f[i].parts = Bind(f[i - 1].parts, f[i].previous, f[i].parts[f[i].previous])
  <2>1. Inside(data, max, f[i], n, k) /\ Inside(data, max, f[i - 1], n, k)
    BY ChainInside
  <2>2. f[i] = NextPart(nested, tag, i, f[i - 1])
    BY DEF Chain
  <2>3. f[i].ok /\ f[i - 1].next \in Nat \ {0} /\ f[i - 1].items \in Nat /\ i \in Nat \ {0}
    BY <2>1 DEF Inside
  <2> QED
    BY <2>2, <2>3, PartIsRead, SMTT(30) DEF PartFits
<1>2. tag = TagMap => ks \in [1 .. count -> Seq(Nat)] /\ Ascends(ks)
  <2>1. SUFFICES ASSUME tag = TagMap PROVE ks \in [1 .. count -> Seq(Nat)] /\ Ascends(ks)
    OBVIOUS
  <2>2. ks \in [1 .. count -> Seq(Nat)]
    BY <1>1, <2>1
  <2>3. \A i \in 2 .. count : Less(ks[i - 1], ks[i])
    BY <1>1, <2>1
  <2> HIDE DEF ks
  <2> QED
    BY <2>2, <2>3, ChainAscends
<1>3. \A i, j \in 1 .. count : f[i].previous = f[j].previous => i = j
  <2>1. CASE tag = TagList
    BY <1>1, <2>1
  <2>2. CASE tag = TagMap
    <3>1. \A i, j \in 1 .. count : ks[i] = ks[j] => i = j
      <4> HIDE DEF ks
      <4> QED
        BY <1>2, <2>2, AscendingApart
    <3> QED
      BY <3>1
  <2> QED
    BY <2>1, <2>2
<1>4. f[0].parts = <<>>
  BY DEF Chain, Start
<1>5. /\ DOMAIN f[count].parts = {f[j].previous : j \in 1 .. count}
      /\ \A j \in 1 .. count : f[count].parts[f[j].previous] = f[j].parts[f[j].previous]
  <2>1. \A i \in 1 .. count :
            f[i].parts = Bind(f[i - 1].parts, f[i].previous, f[i].parts[f[i].previous])
    BY <1>1
  <2>2. Gathers(f, count)
    BY <1>3, <1>4, <2>1 DEF Gathers
  <2> QED
    BY <2>2, PartsGather
<1>6. Places(g) = ks
  <2>1. g.tag = tag /\ g.parts = f[count].parts
    BY DEF Group
  <2>2. CASE tag = TagList
    <3>1. DOMAIN f[count].parts = 1 .. count
      BY <1>1, <1>5, <2>2
    <3>2. Places(g) = [i \in 1 .. count |-> i]
      BY <2>1, <2>2, <3>1 DEF Places, TagList, TagMap
    <3> QED
      BY <1>1, <2>2, <3>2
  <2>3. CASE tag = TagMap
    <3>1. DOMAIN f[count].parts = {ks[j] : j \in 1 .. count}
      BY <1>5
    <3>2. Places(g) = Sorted({ks[j] : j \in 1 .. count})
      BY <2>1, <2>3, <3>1 DEF Places
    <3> HIDE DEF ks
    <3> QED
      BY <1>2, <2>3, <3>2, SortedIs
  <2> QED
    BY <2>2, <2>3
<1> QED
  BY <1>5, <1>6

\* A list or a map that was read: its form, if the forms of its parts are what
\* was read of them.
GroupFits(data, max, nested, tag, count, r, n, k) ==
    /\ Inside(data, max, r, n, k) /\ r.value = Group(tag, r.value.parts)
    /\ \A forms, S :
           Nested({r.value}) \subseteq S /\ FormsAreRead(data, nested, forms, S) =>
               GroupForm(r.value, forms) =
                   Emit(<<tag, count>> \o SubSeq(data, n, r.next - 1), 1 + (r.items - k))

\* A list or a map that was read is written as the tokens it was read from.
LEMMA GroupIsRead ==
    ASSUME NEW data \in Seq(Nat), NEW max \in Nat, NEW nested, ReadsWell(data, max, nested),
           NEW tag \in {TagList, TagMap}, NEW count \in Nat,
           NEW n \in Nat \ {0}, n <= Len(data) + 1, NEW k \in Nat, k <= max,
           NEW r, r = ReadGroup(nested, tag, count, n, k), r.ok
    PROVE  GroupFits(data, max, nested, tag, count, r, n, k)
<1>1. PICK f : /\ ReadGroup(nested, tag, count, n, k) =
                      IF f[count].ok THEN Read(Group(tag, f[count].parts), f[count].next, f[count].items)
                      ELSE Wrong
               /\ f[0] = Start(n, k) /\ \A i \in 1 .. count : f[i] = Following(nested, tag, f[i - 1], i)
  <2>1. PartsRun(nested, tag, count, n, k)
    BY PartsSteps
  <2> QED
    BY <2>1 DEF PartsRun
<1>2. f[count].ok
  BY <1>1 DEF Wrong
<1>3. Chain(nested, tag, count, n, k, f)
  BY <1>1, <1>2 DEF Chain, Following
<1>4. \A i \in 0 .. count : Inside(data, max, f[i], n, k)
  BY <1>3, ChainInside
<1>5. /\ r.ok /\ r.next = f[count].next /\ r.items = f[count].items
      /\ r.value = Group(tag, f[count].parts)
  BY <1>1, <1>2 DEF Read
<1>6. r.value.parts = f[count].parts /\ r.value.tag = tag
  BY <1>5 DEF Group
<1>7. Inside(data, max, r, n, k)
  <2>1. Inside(data, max, f[count], n, k)
    BY <1>4
  <2> QED
    BY <1>5, <2>1 DEF Inside
<1>8. /\ Places(r.value) = [i \in 1 .. count |-> f[i].previous]
      /\ \A i \in 1 .. count : /\ f[i].previous \in DOMAIN f[count].parts
                               /\ f[count].parts[f[i].previous] = f[i].parts[f[i].previous]
  BY <1>3, <1>5, ChainPlaces
<1>9. /\ Len(Places(r.value)) = count
      /\ \A i \in 1 .. count : Places(r.value)[i] = f[i].previous
  BY <1>8
<1>10. ASSUME NEW forms, NEW S, Nested({r.value}) \subseteq S, FormsAreRead(data, nested, forms, S)
       PROVE  GroupForm(r.value, forms) =
                  Emit(<<tag, count>> \o SubSeq(data, n, r.next - 1), 1 + (r.items - k))
  <2>1. PICK g : /\ GroupForm(r.value, forms) = g[count]
                 /\ g[0] = Emit(<<tag, count>>, 1)
                 /\ \A i \in 1 .. count : g[i] = NextBody(r.value, forms, g[i - 1], i)
    <3>1. BodyRun(r.value, forms)
      BY <1>9, BodySteps
    <3> QED
      BY <1>6, <1>9, <3>1 DEF BodyRun
  <2>2. ASSUME NEW i \in 1 .. count
        PROVE  g[i] = Joined(g[i - 1], Stretch(data, f[i], f[i - 1].next, f[i - 1].items))
    <3> DEFINE x == f[i].previous
               v == f[i].parts[f[i].previous]
    <3>1. g[i] = Joined(g[i - 1], Joined(KeyForm(tag, x), forms[v]))
      BY <1>6, <1>8, <1>9, <2>1 DEF NextBody
    <3>2. v \in S
      <4>1. r.value.parts[x] = v /\ x \in DOMAIN r.value.parts
        BY <1>6, <1>8
      <4>2. v \in Nested({r.value})
        <5>1. \A w : Nested({w}) = {w.parts[z] : z \in DOMAIN w.parts}
          BY DEF Nested
        <5> HIDE DEF v, x
        <5>2. Nested({r.value}) = {r.value.parts[z] : z \in DOMAIN r.value.parts}
          BY <5>1
        <5> QED
          BY <4>1, <5>2
      <4> QED
        BY <1>10, <4>2
    <3>3. Inside(data, max, f[i - 1], n, k) /\ Inside(data, max, f[i], n, k)
      BY <1>4
    <3>4. f[i - 1].next \in Nat \ {0} /\ f[i - 1].items \in Nat /\ i \in Nat \ {0} /\ f[i].ok
      BY <3>3 DEF Inside
    <3>5. f[i] = NextPart(nested, tag, i, f[i - 1])
      BY <1>3 DEF Chain
    <3>6. \A forms1, S1 :
              v \in S1 /\ FormsAreRead(data, nested, forms1, S1) =>
                  Joined(KeyForm(tag, x), forms1[v]) = Stretch(data, f[i], f[i - 1].next, f[i - 1].items)
      <4>1. PartFits(data, max, nested, tag, i, f[i - 1], f[i])
        BY <3>4, <3>5, PartIsRead
      <4> QED
        BY <4>1 DEF PartFits
    <3>7. Joined(KeyForm(tag, x), forms[v]) = Stretch(data, f[i], f[i - 1].next, f[i - 1].items)
      <4> HIDE DEF v, x
      <4> QED
        BY <1>10, <3>2, <3>6
    <3> QED
      BY <3>1, <3>7
  <2> DEFINE head == <<tag, count>>
             Upto(i) == Emit(head \o SubSeq(data, n, f[i].next - 1), 1 + (f[i].items - k))
             T == {i \in Nat : i <= count => g[i] = Upto(i)}
  <2>3. head \in Seq(Nat)
    BY DEF TagList, TagMap
  <2> HIDE DEF head
  <2>4. 0 \in T
    <3>1. f[0].next = n /\ f[0].items = k
      BY <1>1 DEF Start
    <3>2. SubSeq(data, n, n - 1) = <<>>
      BY SubSeqEmpty
    <3>3. head \o <<>> = head
      BY <2>3, ConcatEmptySeq
    <3>4. 1 + (k - k) = 1
      OBVIOUS
    <3> QED
      BY <2>1, <3>1, <3>2, <3>3, <3>4 DEF head
  <2>5. ASSUME NEW i \in T PROVE i + 1 \in T
    <3>1. i \in Nat
      BY <2>5
    <3>2. ASSUME i + 1 <= count PROVE g[i + 1] = Upto(i + 1)
      <4>1. i + 1 \in 1 .. count /\ (i + 1) - 1 = i /\ g[i] = Upto(i)
        BY <2>5, <3>1, <3>2
      <4> DEFINE a == f[i].next
                 c == f[i + 1].next
                 p == f[i].items
                 q == f[i + 1].items
      <4>2. g[i + 1] = Joined(g[i], Emit(SubSeq(data, a, c - 1), q - p))
        BY <2>2, <4>1 DEF Stretch
      <4>3. /\ a \in Nat /\ n <= a /\ p \in Nat /\ k <= p
            /\ c \in Nat /\ c <= Len(data) + 1 /\ q \in Nat
        <5>1. Inside(data, max, f[i], n, k) /\ Inside(data, max, f[i + 1], n, k)
          BY <1>4, <3>1, <4>1
        <5> QED
          BY <5>1 DEF Inside
      <4>4. a <= c
        <5>1. Inside(data, max, f[i], n, k) /\ Inside(data, max, f[i + 1], n, k)
          BY <1>4, <3>1, <4>1
        <5>2. f[i].next \in Nat \ {0} /\ f[i].items \in Nat /\ i + 1 \in Nat \ {0} /\ f[i + 1].ok
          BY <3>1, <5>1 DEF Inside
        <5>3. f[i + 1] = NextPart(nested, tag, i + 1, f[i])
          BY <1>3, <4>1 DEF Chain
        <5>4. Bounded(data, max, f[i + 1], f[i].next, f[i].items)
          BY <5>2, <5>3, PartIsRead, SMTT(30) DEF PartFits
        <5> QED
          BY <4>3, <5>4 DEF Bounded
      <4>5. g[i] = Emit(head \o SubSeq(data, n, a - 1), 1 + (p - k))
        BY <4>1
      <4> HIDE DEF a, c, p, q
      <4>6. SubSeq(data, n, a - 1) \in Seq(Nat) /\ SubSeq(data, a, c - 1) \in Seq(Nat)
        <5>1. \A j \in n .. a - 1 : data[j] \in Nat
          BY <4>3, <4>4
        <5>2. \A j \in a .. c - 1 : data[j] \in Nat
          BY <4>3, <4>4
        <5> QED
          BY <4>3, <5>1, <5>2, SubSeqProperties
      <4>7. (head \o SubSeq(data, n, a - 1)) \o SubSeq(data, a, c - 1) = head \o SubSeq(data, n, c - 1)
        <5>1. SubSeq(data, n, a - 1) \o SubSeq(data, a, c - 1) = SubSeq(data, n, c - 1)
          BY <4>3, <4>4, AdjacentParts
        <5>2. (head \o SubSeq(data, n, a - 1)) \o SubSeq(data, a, c - 1)
                  = head \o (SubSeq(data, n, a - 1) \o SubSeq(data, a, c - 1))
          BY <2>3, <4>6, JoinedThrice
        <5> QED
          BY <5>1, <5>2
      <4>8. (1 + (p - k)) + (q - p) = 1 + (q - k)
        BY <4>3
      <4>9. g[i + 1] = Emit((head \o SubSeq(data, n, a - 1)) \o SubSeq(data, a, c - 1), (1 + (p - k)) + (q - p))
        BY <4>2, <4>5 DEF Joined, Emit
      <4> QED
        BY <4>7, <4>8, <4>9 DEF c, q
    <3> QED
      BY <3>1, <3>2
  <2>6. T \in SUBSET Nat
    OBVIOUS
  <2>7. count \in T
    <3> HIDE DEF T
    <3> QED
      BY <2>4, <2>5, <2>6, Induction
  <2> QED
    BY <1>5, <2>1, <2>7 DEF head
<1> QED
  BY <1>5, <1>6, <1>7, <1>10 DEF GroupFits
-----------------------------------------------------------------------------
(* What was read of one value.                                             *)

\* The first tokens of a part of the wire.
LEMMA FirstTokens ==
    ASSUME NEW data \in Seq(Nat), NEW n \in Nat \ {0}
    PROVE  /\ n <= Len(data) => SubSeq(data, n, n) = <<data[n]>>
           /\ n + 1 <= Len(data) => SubSeq(data, n, n + 1) = <<data[n], data[n + 1]>>
<1>1. ASSUME n <= Len(data) PROVE SubSeq(data, n, n) = <<data[n]>>
  <2> DEFINE s == SubSeq(data, n, n)
  <2>1. data[n] \in Nat /\ \A i \in n .. n : data[i] \in Nat
    BY <1>1
  <2>2. s \in Seq(Nat) /\ Len(s) = 1 /\ \A i \in 1 .. 1 : s[i] = data[n + i - 1]
    <3>1. n - n + 1 = 1 /\ n <= n /\ n \in Int
      OBVIOUS
    <3> QED
      BY <2>1, <3>1, SubSeqProperties
  <2> HIDE DEF s
  <2>3. s[1] = data[n]
    <3>1. n + 1 - 1 = n /\ 1 \in 1 .. 1
      OBVIOUS
    <3> QED
      BY <2>2, <3>1
  <2>4. s = <<s[1]>>
    BY <2>2
  <2> QED
    BY <2>3, <2>4 DEF s
<1>2. ASSUME n + 1 <= Len(data) PROVE SubSeq(data, n, n + 1) = <<data[n], data[n + 1]>>
  <2> DEFINE s == SubSeq(data, n, n + 1)
  <2>1. data[n] \in Nat /\ data[n + 1] \in Nat /\ \A i \in n .. n + 1 : data[i] \in Nat
    BY <1>2
  <2>2. s \in Seq(Nat) /\ Len(s) = 2 /\ \A i \in 1 .. 2 : s[i] = data[n + i - 1]
    <3>1. (n + 1) - n + 1 = 2 /\ n <= n + 1 /\ n \in Int /\ n + 1 \in Int
      OBVIOUS
    <3> QED
      BY <2>1, <3>1, SubSeqProperties
  <2> HIDE DEF s
  <2>3. s[1] = data[n] /\ s[2] = data[n + 1]
    <3>1. n + 1 - 1 = n /\ n + 2 - 1 = n + 1 /\ 1 \in 1 .. 2 /\ 2 \in 1 .. 2
      OBVIOUS
    <3> QED
      BY <2>2, <3>1
  <2>4. s = <<s[1], s[2]>>
    BY <2>2
  <2> QED
    BY <2>3, <2>4 DEF s
<1> QED
  BY <1>1, <1>2

\* A string that was read, and where it stands.
StringFits(data, n) ==
    LET raw == SubSeq(data, n + 2, n + 1 + data[n + 1])
    IN /\ raw \in Seq(Nat) /\ Len(raw) = data[n + 1]
       /\ <<data[n], Len(raw)>> \o raw = SubSeq(data, n, n + 1 + data[n + 1])

\* A string that was read is written as the tokens it was read from.
LEMMA StringIsRead ==
    ASSUME NEW data \in Seq(Nat), NEW n \in Nat \ {0}, n + 1 + data[n + 1] <= Len(data),
           n + 1 <= Len(data)
    PROVE  StringFits(data, n)
<1> DEFINE count == data[n + 1]
           raw == SubSeq(data, n + 2, n + 1 + count)
<1>1. count \in Nat
  OBVIOUS
<1> HIDE DEF count
<1>2. raw \in Seq(Nat) /\ Len(raw) = count
  <2>1. \A i \in n + 2 .. n + 1 + count : data[i] \in Nat
    BY <1>1 DEF count
  <2>2. raw \in Seq(Nat) /\ Len(raw) = IF n + 2 <= n + 1 + count THEN (n + 1 + count) - (n + 2) + 1 ELSE 0
    BY <1>1, <2>1, SubSeqProperties
  <2> QED
    BY <1>1, <2>2
<1>3. SubSeq(data, n, n + 1) \o raw = SubSeq(data, n, n + 1 + count)
  <2>1. /\ n + 2 \in Nat /\ n <= n + 2 /\ n + 2 + count \in Nat /\ n + 2 <= n + 2 + count
        /\ n + 2 + count <= Len(data) + 1
    BY <1>1, SMTT(30) DEF count
  <2>2. SubSeq(data, n, (n + 2) - 1) \o SubSeq(data, n + 2, (n + 2 + count) - 1)
            = SubSeq(data, n, (n + 2 + count) - 1)
    BY <2>1, AdjacentParts
  <2>3. (n + 2) - 1 = n + 1 /\ (n + 2 + count) - 1 = n + 1 + count
    BY <1>1
  <2> QED
    BY <2>2, <2>3
<1>4. SubSeq(data, n, n + 1) = <<data[n], count>>
  BY FirstTokens DEF count
<1> QED
  BY <1>2, <1>3, <1>4 DEF count, StringFits

\* A value that was read: its end, and its form if the forms of its parts are
\* what was read of them.
ValueFits(data, max, nested, r, n, k) ==
    /\ Bounded(data, max, r, n, k)
    /\ r.value.tag = TagStr =>
           r.value.raw \in Seq(Nat) /\ TextForm(TagStr, r.value.raw) = Stretch(data, r, n, k)
    /\ \A forms, S :
           Nested({r.value}) \subseteq S /\ FormsAreRead(data, nested, forms, S) =>
               Form(r.value, forms) = Stretch(data, r, n, k)

\* So is any value, if what is nested in it is.
LEMMA ValueIsRead ==
    ASSUME NEW data \in Seq(Nat), NEW max \in Nat, NEW nested, ReadsWell(data, max, nested),
           NEW n \in Nat \ {0}, NEW k \in Nat,
           NEW r, r = ReadValue(data, max, nested, n, k), r.ok
    PROVE  ValueFits(data, max, nested, r, n, k)
<1> DEFINE tag == data[n]
           count == data[n + 1]
           raw == SubSeq(data, n + 2, n + 1 + count)
           short == n + 1 > Len(data)
<1> USE DEF TagNull, TagFalse, TagTrue, TagInt64, TagFloat64, TagBytes, TagStr, TagList, TagMap
<1>1. k < max /\ n <= Len(data) /\ tag \in Nat
  <2>1. ~(k >= max \/ n > Len(data))
    BY DEF ReadValue, Wrong
  <2> QED
    BY <2>1
<1>2. r = CASE tag \in {TagNull, TagFalse, TagTrue} -> Read(Scalar(tag), n + 1, k + 1)
            [] tag \in {TagInt64, TagFloat64} ->
                   IF short \/ count = Unsuited THEN Wrong ELSE Read(Number(tag, count), n + 2, k + 1)
            [] tag \in {TagBytes, TagStr} ->
                   IF short \/ n + 1 + count > Len(data) \/ (tag = TagStr /\ Contains(raw, Unsuited))
                   THEN Wrong ELSE Read(Text(tag, raw), n + 2 + count, k + 1)
            [] tag \in {TagList, TagMap} ->
                   IF short \/ ~LeavesRoom(count, tag, max - k - 1) THEN Wrong
                   ELSE ReadGroup(nested, tag, count, n + 2, k + 1)
            [] OTHER -> Wrong
  <2>1. ~(k >= max \/ n > Len(data))
    BY <1>1
  <2> QED
    BY <2>1, Zenon DEF ReadValue
<1>3. ~Wrong.ok
  BY DEF Wrong
<1>4. tag \in {TagNull, TagFalse, TagTrue, TagInt64, TagFloat64, TagBytes, TagStr, TagList, TagMap}
  <2> HIDE DEF tag, count, raw, short
  <2>1. tag \notin {TagNull, TagFalse, TagTrue, TagInt64, TagFloat64, TagBytes, TagStr, TagList, TagMap} => r = Wrong
    BY <1>2
  <2> QED
    BY <1>3, <2>1
<1>5. CASE tag \in {TagNull, TagFalse, TagTrue}
  <2>1. r = Read(Scalar(tag), n + 1, k + 1)
    <3> HIDE DEF tag, count, raw, short
    <3> QED
      BY <1>2, <1>5, SMTT(30)
  <2>2. r.value.tag = tag /\ r.next = n + 1 /\ r.items = k + 1
    BY <2>1 DEF Read, Scalar
  <2>3. Bounded(data, max, r, n, k)
    BY <1>1, <2>2 DEF Bounded
  <2>4. ASSUME NEW forms PROVE Form(r.value, forms) = Stretch(data, r, n, k)
    <3>1. Form(r.value, forms) = Emit(<<tag>>, 1)
      <4> HIDE DEF tag
      <4> QED
        BY <1>5, <2>2, SMTT(30) DEF Form
    <3>2. SubSeq(data, n, (n + 1) - 1) = <<tag>> /\ (k + 1) - k = 1
      <4>1. (n + 1) - 1 = n
        OBVIOUS
      <4> QED
        BY <1>1, <4>1, FirstTokens
    <3> QED
      BY <2>2, <3>1, <3>2 DEF Stretch
  <2> QED
    BY <1>5, <2>2, <2>3, <2>4 DEF ValueFits
<1>6. CASE tag \in {TagInt64, TagFloat64}
  <2>1. ~short /\ count # Unsuited /\ r = Read(Number(tag, count), n + 2, k + 1)
    <3> HIDE DEF tag, count, raw, short
    <3> QED
      BY <1>2, <1>3, <1>6, SMTT(30)
  <2>2. r.value.tag = tag /\ r.value.raw = <<count>> /\ r.next = n + 2 /\ r.items = k + 1
    BY <2>1 DEF Read, Number
  <2>3. Bounded(data, max, r, n, k)
    <3>1. n + 2 \in Nat /\ n < n + 2 /\ n + 2 <= Len(data) + 1 /\ k + 1 \in Nat /\ k < k + 1 /\ k + 1 <= max
      BY <1>1, <2>1
    <3> QED
      BY <2>2, <3>1 DEF Bounded
  <2>4. ASSUME NEW forms PROVE Form(r.value, forms) = Stretch(data, r, n, k)
    <3>1. Form(r.value, forms) = Emit(<<tag>> \o <<count>>, 1)
      <4> DEFINE v == r.value
      <4>1. v.tag = tag /\ v.raw = <<count>> /\ v.raw[1] = count
        BY <2>2
      <4> HIDE DEF tag, count, v
      <4>2. Form(v, forms) = IF v.raw[1] = Unsuited THEN Refused ELSE Emit(<<v.tag>> \o v.raw, 1)
        BY <1>6, <4>1 DEF Form
      <4> QED
        BY <2>1, <4>1, <4>2 DEF v
    <3>2. SubSeq(data, n, (n + 2) - 1) = <<tag, count>> /\ (k + 1) - k = 1
      <4>1. (n + 2) - 1 = n + 1
        OBVIOUS
      <4> QED
        BY <2>1, <4>1, FirstTokens
    <3>3. <<tag>> \o <<count>> = <<tag, count>>
      <4>1. tag \in Nat /\ count \in Nat
        BY <1>1, <2>1
      <4> HIDE DEF tag, count
      <4>2. <<tag>> \in Seq(Nat) /\ <<count>> \in Seq(Nat) /\ Len(<<tag>>) = 1 /\ Len(<<count>>) = 1
        BY <4>1
      <4> DEFINE s == <<tag>> \o <<count>>
      <4>3. s \in Seq(Nat) /\ Len(s) = 2 /\ s[1] = tag /\ s[2] = count
        BY <4>2, ConcatProperties
      <4> HIDE DEF s
      <4>4. s = <<s[1], s[2]>>
        BY <4>3
      <4> QED
        BY <4>3, <4>4 DEF s
    <3> QED
      BY <2>2, <3>1, <3>2, <3>3 DEF Stretch
  <2> QED
    BY <1>6, <2>2, <2>3, <2>4 DEF ValueFits
<1>7. CASE tag \in {TagBytes, TagStr}
  <2>1. /\ ~short /\ n + 1 + count <= Len(data) /\ ~(tag = TagStr /\ Contains(raw, Unsuited))
        /\ r = Read(Text(tag, raw), n + 2 + count, k + 1)
    <3>1. ~(short \/ n + 1 + count > Len(data) \/ (tag = TagStr /\ Contains(raw, Unsuited)))
      <4> HIDE DEF tag, count, raw, short
      <4> QED
        BY <1>2, <1>3, <1>7
    <3>2. r = Read(Text(tag, raw), n + 2 + count, k + 1)
      <4> HIDE DEF tag, count, raw, short
      <4> QED
        BY <1>2, <1>7, <3>1
    <3>3. count \in Nat
      BY <3>1
    <3> QED
      BY <3>1, <3>2, <3>3
  <2>2. r.value.tag = tag /\ r.value.raw = raw /\ r.next = n + 2 + count /\ r.items = k + 1
    BY <2>1 DEF Read, Text
  <2>3. count \in Nat
    BY <2>1, SMTT(30)
  <2>4. Bounded(data, max, r, n, k)
    <3>1. /\ n + 2 + count \in Nat /\ n < n + 2 + count /\ n + 2 + count <= Len(data) + 1
          /\ k + 1 \in Nat /\ k < k + 1 /\ k + 1 <= max
      BY <1>1, <2>1, SMTT(30)
    <3> HIDE DEF count
    <3> QED
      BY <2>2, <3>1 DEF Bounded
  <2>5. raw \in Seq(Nat) /\ <<tag, Len(raw)>> \o raw = SubSeq(data, n, n + 1 + count)
    <3>1. n + 1 <= Len(data) /\ n + 1 + data[n + 1] <= Len(data)
      BY <2>1
    <3>2. StringFits(data, n)
      BY <3>1, StringIsRead
    <3> QED
      BY <3>2, Zenon DEF StringFits
  <2>6. TextForm(tag, raw) = Stretch(data, r, n, k)
    <3> HIDE DEF tag, count, raw
    <3>1. TextForm(tag, raw) = Emit(SubSeq(data, n, n + 1 + count), 1)
      BY <2>1, <2>5 DEF TextForm
    <3>2. (n + 2 + count) - 1 = n + 1 + count /\ (k + 1) - k = 1
      BY <2>3
    <3> QED
      BY <2>2, <3>1, <3>2 DEF Stretch
  <2>7. ASSUME NEW forms PROVE Form(r.value, forms) = Stretch(data, r, n, k)
    <3> HIDE DEF tag, count, raw
    <3> QED
      BY <1>7, <2>2, <2>6 DEF Form
  <2> HIDE DEF tag, count, raw
  <2> QED
    BY <2>2, <2>4, <2>5, <2>6, <2>7 DEF ValueFits
<1>8. CASE tag \in {TagList, TagMap}
  <2>1. ~short /\ r = ReadGroup(nested, tag, count, n + 2, k + 1)
    <3> HIDE DEF tag, count, raw, short
    <3> QED
      BY <1>2, <1>3, <1>8
  <2>2. /\ n + 2 \in Nat \ {0} /\ n + 2 <= Len(data) + 1 /\ count \in Nat
        /\ k + 1 \in Nat /\ k + 1 <= max
    BY <1>1, <2>1
  <2> HIDE DEF tag, count, raw, short
  <2>3. GroupFits(data, max, nested, tag, count, r, n + 2, k + 1)
    <3>1. tag \in {48, 49}
      BY <1>8
    <3> HIDE DEF TagNull, TagFalse, TagTrue, TagInt64, TagFloat64, TagBytes, TagStr, TagList, TagMap
    <3> QED
      BY <1>8, <2>1, <2>2, GroupIsRead
  <2>4. r.value.tag = tag
    BY <2>3 DEF GroupFits, Group
  <2>9. Inside(data, max, r, n + 2, k + 1)
    BY <2>3 DEF GroupFits
  <2>5. Bounded(data, max, r, n, k)
    BY <2>9 DEF Bounded, Inside
  <2>6. <<tag, count>> \o SubSeq(data, n + 2, r.next - 1) = SubSeq(data, n, r.next - 1)
    <3>1. r.next \in Nat /\ n + 2 <= r.next /\ r.next <= Len(data) + 1
      BY <2>9 DEF Inside
    <3>5. n + 2 \in Nat /\ n <= n + 2
      OBVIOUS
    <3>2. SubSeq(data, n, (n + 2) - 1) \o SubSeq(data, n + 2, r.next - 1) = SubSeq(data, n, r.next - 1)
      BY <3>1, <3>5, AdjacentParts
    <3>3. (n + 2) - 1 = n + 1
      OBVIOUS
    <3>4. SubSeq(data, n, n + 1) = <<tag, count>>
      BY <2>2, FirstTokens DEF tag, count
    <3> QED
      BY <3>2, <3>3, <3>4
  <2>7. 1 + (r.items - (k + 1)) = r.items - k
    BY <2>9 DEF Inside
  <2>8. ASSUME NEW forms, NEW S, Nested({r.value}) \subseteq S, FormsAreRead(data, nested, forms, S)
        PROVE  Form(r.value, forms) = Stretch(data, r, n, k)
    <3>1. Form(r.value, forms) = GroupForm(r.value, forms)
      BY <1>8, <2>4 DEF Form
    <3>2. GroupForm(r.value, forms) =
                       Emit(<<tag, count>> \o SubSeq(data, n + 2, r.next - 1), 1 + (r.items - (k + 1)))
      BY <2>3, <2>8 DEF GroupFits
    <3> QED
      BY <2>6, <2>7, <3>1, <3>2 DEF Stretch
  <2>10. r.value.tag # TagStr
    BY <1>8, <2>4
  <2> QED
    BY <2>5, <2>8, <2>10 DEF ValueFits
<1> QED
  BY <1>4, <1>5, <1>6, <1>7, <1>8

\* A level of the reader, and what is below it.
LEMMA LevelIsRead ==
    ASSUME NEW data \in Seq(Nat), NEW max \in Nat, NEW nested, ReadsWell(data, max, nested)
    PROVE  /\ ReadsWell(data, max, NextValues(data, max, nested))
           /\ \A forms, next, S, U :
                  /\ FormsAreRead(data, nested, forms, S) /\ Nested(U) \subseteq S
                  /\ \A w \in U : next[w] = Form(w, forms)
                  => FormsAreRead(data, NextValues(data, max, nested), next, U)
<1> DEFINE values == NextValues(data, max, nested)
<1>1. ASSUME NEW n \in Nat \ {0}, NEW k \in Nat, values[<<n, k>>].ok
      PROVE  ValueFits(data, max, nested, values[<<n, k>>], n, k)
  <2>1. values[<<n, k>>] = ReadValue(data, max, nested, n, k)
    BY DEF NextValues
  <2> HIDE DEF values
  <2> QED
    BY <1>1, <2>1, ValueIsRead
<1> HIDE DEF values
<1>2. ReadsWell(data, max, values)
  BY <1>1 DEF ReadsWell, ValueFits
<1>3. ASSUME NEW forms, NEW next, NEW S, NEW U,
             FormsAreRead(data, nested, forms, S), Nested(U) \subseteq S,
             \A w \in U : next[w] = Form(w, forms)
      PROVE  FormsAreRead(data, values, next, U)
  <2>1. ASSUME NEW n \in Nat \ {0}, NEW k \in Nat, values[<<n, k>>].ok, values[<<n, k>>].value \in U
        PROVE  next[values[<<n, k>>].value] = Stretch(data, values[<<n, k>>], n, k)
    <3> DEFINE r == values[<<n, k>>]
    <3>1. ValueFits(data, max, nested, r, n, k)
      BY <1>1, <2>1
    <3>2. Nested({r.value}) \subseteq S
      <4>1. r.value \in U
        BY <2>1
      <4> HIDE DEF r
      <4>2. Nested({r.value}) \subseteq Nested(U)
        BY <4>1 DEF Nested
      <4> QED
        BY <1>3, <4>2
    <3>3. Form(r.value, forms) = Stretch(data, r, n, k)
      <4> HIDE DEF r
      <4> QED
        BY <1>3, <3>1, <3>2 DEF ValueFits
    <3> QED
      BY <1>3, <2>1, <3>3
  <2> QED
    BY <2>1 DEF FormsAreRead
<1> QED
  BY <1>2, <1>3 DEF values

\* What the whole reader accepts is the one form of the value it returns.
LEMMA ReadIsWritten ==
    ASSUME NEW data \in Seq(Nat), NEW max \in Nat, Decode(data, max).ok
    PROVE  /\ Encode(Decode(data, max).value) = Emit(data, Decode(data, max).items)
           /\ Decode(data, max).items <= max
<1> DEFINE m == MaxDepth + 1
           read == Decode(data, max)
           v == read.value
<1>1. PICK values : /\ Decode(data, max) = WholeRead(data, values[m][<<1, 0>>])
                    /\ values[0] = NoValues
                    /\ \A i \in 1 .. m : values[i] = NextValues(data, max, values[i - 1])
  <2>1. ValuesRun(data, max)
    BY ValuesSteps
  <2> QED
    BY <2>1, Zenon DEF ValuesRun
<1>2. read = values[m][<<1, 0>>] /\ read.next = Len(data) + 1 /\ read.ok
  <2>1. ~Wrong.ok
    BY DEF Wrong
  <2> QED
    BY <1>1, <2>1 DEF WholeRead
<1>3. m \in Nat \ {0}
  BY DepthAssumption
<1> HIDE DEF read, m
<1>4. PICK forms : /\ Encode(v) = forms[m][v] /\ forms[0] = NoForms(v)
                   /\ \A i \in 1 .. m : forms[i] = NextForms(v, forms[i - 1], i)
  <2>1. FormsRun(v)
    BY FormsSteps
  <2> QED
    BY <2>1, Zenon DEF FormsRun, m
<1>5. PICK within : /\ Within(v) = within
                    /\ within[0] = {v} /\ \A i \in 1 .. m : within[i] = Nested(within[i - 1])
  <2>1. WithinRun(v)
    BY WithinSteps
  <2> QED
    BY <2>1, Zenon DEF WithinRun, m
<1> HIDE DEF v
<1> DEFINE T == {n \in Nat : n <= m => /\ ReadsWell(data, max, values[n])
                                       /\ FormsAreRead(data, values[n], forms[n], within[m - n])}
<1>6. 0 \in T
  <2>1. \A a \in Nat \ {0}, b \in Nat : ~values[0][<<a, b>>].ok
    BY <1>1 DEF NoValues, Wrong
  <2> QED
    BY <2>1 DEF ReadsWell, FormsAreRead
<1>7. ASSUME NEW n \in T PROVE n + 1 \in T
  <2>1. n \in Nat
    BY <1>7
  <2>2. ASSUME n + 1 <= m
        PROVE  /\ ReadsWell(data, max, values[n + 1])
               /\ FormsAreRead(data, values[n + 1], forms[n + 1], within[m - (n + 1)])
    <3>1. n + 1 \in 1 .. m /\ (n + 1) - 1 = n /\ m - n \in 1 .. m /\ (m - n) - 1 = m - (n + 1)
      BY <1>3, <2>1, <2>2
    <3>2. ReadsWell(data, max, values[n]) /\ FormsAreRead(data, values[n], forms[n], within[m - n])
      <4>1. n <= m
        BY <1>3, <2>1, <2>2
      <4> QED
        BY <1>7, <4>1
    <3>3. values[n + 1] = NextValues(data, max, values[n])
      BY <1>1, <3>1
    <3>4. within[m - n] = Nested(within[m - (n + 1)])
      BY <1>5, <3>1
    <3>5. \A w \in within[m - (n + 1)] : forms[n + 1][w] = Form(w, forms[n])
      <4>1. forms[n + 1] = NextForms(v, forms[n], n + 1)
        BY <1>4, <3>1
      <4>2. MaxDepth + 1 - (n + 1) = m - (n + 1)
        BY <2>1, DepthAssumption DEF m
      <4> QED
        BY <1>5, <4>1, <4>2 DEF NextForms
    <3> HIDE DEF T
    <3> DEFINE y == NextValues(data, max, values[n])
    <3>6. /\ ReadsWell(data, max, y)
          /\ \A f, g, S, U :
                  /\ FormsAreRead(data, values[n], f, S) /\ Nested(U) \subseteq S
                  /\ \A w \in U : g[w] = Form(w, f)
                  => FormsAreRead(data, y, g, U)
      BY <3>2, LevelIsRead
    <3> HIDE DEF y
    <3>7. FormsAreRead(data, y, forms[n + 1], within[m - (n + 1)])
      BY <3>2, <3>4, <3>5, <3>6
    <3> QED
      BY <3>3, <3>6, <3>7 DEF y
  <2> QED
    BY <2>1, <2>2
<1>8. T \in SUBSET Nat
  OBVIOUS
<1>9. m \in T /\ m - m = 0
  <2> HIDE DEF T
  <2> QED
    BY <1>3, <1>6, <1>7, <1>8, Induction, SMTT(30)
<1>10. ReadsWell(data, max, values[m]) /\ FormsAreRead(data, values[m], forms[m], within[0])
  BY <1>9
<1>11. forms[m][v] = Stretch(data, read, 1, 0)
  <2>1. values[m][<<1, 0>>].ok /\ values[m][<<1, 0>>].value \in within[0]
    BY <1>2, <1>5 DEF v
  <2> QED
    BY <1>2, <1>10, <2>1 DEF FormsAreRead, v
<1>12. Bounded(data, max, read, 1, 0)
  BY <1>2, <1>10 DEF ReadsWell
<1>13. Stretch(data, read, 1, 0) = Emit(data, read.items)
  <2>1. (Len(data) + 1) - 1 = Len(data) /\ read.items - 0 = read.items
    BY <1>12 DEF Bounded
  <2>2. SubSeq(data, 1, Len(data)) = data
    BY SubSeqFull
  <2> QED
    BY <1>2, <2>1, <2>2 DEF Stretch
<1>14. read.items <= max
  BY <1>12 DEF Bounded
<1> QED
  BY <1>4, <1>11, <1>13, <1>14 DEF read, v
-----------------------------------------------------------------------------
(* What is written of a value is read as that value.                       *)

\* The tokens stand in the wire from p on.
Stands(data, p, bytes) ==
    /\ p + Len(bytes) <= Len(data) + 1
    /\ \A i \in 1 .. Len(bytes) : data[p + i - 1] = bytes[i]

\* What is read at p after k values where the form of w stands.
Expected(max, w, form, p, k) ==
    IF k + form.items <= max THEN Read(w, p + Len(form.bytes), k + form.items) ELSE Wrong

\* `nested` reads w wherever its form stands.
Reads(data, max, nested, w, form) ==
    \A p \in Nat \ {0}, k \in Nat :
        Stands(data, p, form.bytes) => nested[<<p, k>>] = Expected(max, w, form, p, k)
ReadsForms(data, max, nested, forms, S) ==
    \A w \in S : forms[w].ok => Reads(data, max, nested, w, forms[w])
ReadsTexts(data, max, nested) ==
    \A raw \in Seq(Nat) :
        ~Contains(raw, Unsuited) =>
            Reads(data, max, nested, Text(TagStr, raw), TextForm(TagStr, raw))

\* A form that is written counts at least so many values.
WellFormed(form, least) ==
    form.ok => form.bytes \in Seq(Nat) /\ form.items \in Nat /\ least <= form.items

\* What is joined stands in the wire one behind the other.
LEMMA StandsBoth ==
    ASSUME NEW data \in Seq(Nat), NEW p \in Nat \ {0}, NEW a \in Seq(Nat), NEW b \in Seq(Nat),
           Stands(data, p, a \o b)
    PROVE  Stands(data, p, a) /\ Stands(data, p + Len(a), b)
<1> DEFINE c == a \o b
<1>1. /\ c \in Seq(Nat) /\ Len(c) = Len(a) + Len(b) /\ Len(a) \in Nat /\ Len(b) \in Nat
      /\ Len(data) \in Nat
      /\ \A i \in 1 .. Len(a) + Len(b) : c[i] = IF i <= Len(a) THEN a[i] ELSE b[i - Len(a)]
  BY ConcatProperties
<1>2. /\ p + Len(c) <= Len(data) + 1 /\ \A i \in 1 .. Len(c) : data[p + i - 1] = c[i]
  BY DEF Stands
<1> HIDE DEF c
<1>3. Stands(data, p, a)
  <2>1. p + Len(a) <= Len(data) + 1
    BY <1>1, <1>2
  <2>2. ASSUME NEW i \in 1 .. Len(a) PROVE data[p + i - 1] = a[i]
    <3>1. i \in 1 .. Len(c) /\ i \in 1 .. Len(a) + Len(b) /\ i <= Len(a)
      BY <1>1
    <3> QED
      BY <1>1, <1>2, <3>1
  <2> QED
    BY <2>1, <2>2 DEF Stands
<1>4. Stands(data, p + Len(a), b)
  <2>1. (p + Len(a)) + Len(b) <= Len(data) + 1
    BY <1>1, <1>2
  <2>2. ASSUME NEW i \in 1 .. Len(b) PROVE data[(p + Len(a)) + i - 1] = b[i]
    <3>1. /\ i + Len(a) \in 1 .. Len(c) /\ i + Len(a) \in 1 .. Len(a) + Len(b)
          /\ ~(i + Len(a) <= Len(a)) /\ (i + Len(a)) - Len(a) = i
          /\ p + (i + Len(a)) - 1 = (p + Len(a)) + i - 1
      BY <1>1, SMTT(30)
    <3> QED
      BY <1>1, <1>2, <3>1
  <2> QED
    BY <2>1, <2>2 DEF Stands
<1> QED
  BY <1>3, <1>4

\* Forms are joined if both can be written.
LEMMA JoinedOk ==
    ASSUME NEW a, NEW b
    PROVE  /\ Joined(a, b).ok <=> a.ok /\ b.ok
           /\ Joined(a, b).ok => /\ Joined(a, b).bytes = a.bytes \o b.bytes
                                 /\ Joined(a, b).items = a.items + b.items
BY DEF Joined, Emit, Refused

\* What is joined of well formed forms is well formed.
LEMMA JoinedForms ==
    ASSUME NEW a, NEW b, NEW m \in Nat, NEW n \in Nat, WellFormed(a, m), WellFormed(b, n)
    PROVE  /\ WellFormed(Joined(a, b), m + n)
           /\ Joined(a, b).ok => Len(Joined(a, b).bytes) = Len(a.bytes) + Len(b.bytes)
<1>1. CASE Joined(a, b).ok
  <2>1. /\ a.bytes \in Seq(Nat) /\ b.bytes \in Seq(Nat)
        /\ a.items \in Nat /\ b.items \in Nat /\ m <= a.items /\ n <= b.items
        /\ Joined(a, b).bytes = a.bytes \o b.bytes /\ Joined(a, b).items = a.items + b.items
    BY <1>1, JoinedOk DEF WellFormed
  <2> QED
    BY <2>1, ConcatProperties DEF WellFormed
<1>2. CASE ~Joined(a, b).ok
  BY <1>2 DEF WellFormed
<1> QED
  BY <1>1, <1>2

\* What is written of part i.
PartForm(v, forms, i) ==
    Joined(KeyForm(v.tag, Places(v)[i]), forms[v.parts[Places(v)[i]]])

\* How many values a part has at least, and i parts with what they are in.
PartLeast(tag) == IF tag = TagMap THEN 2 ELSE 1
Fewest(tag, i)  == IF tag = TagMap THEN 1 + 2 * i ELSE 1 + i

\* The steps in which a list or a map is written.
BodyChain(v, forms, b) ==
    /\ Len(Places(v)) \in Nat /\ v.tag \in Nat
    /\ b[0] = Emit(<<v.tag, Len(Places(v))>>, 1)
    /\ \A i \in 1 .. Len(Places(v)) :
           /\ b[i] = Joined(b[i - 1], PartForm(v, forms, i))
           /\ WellFormed(PartForm(v, forms, i), PartLeast(v.tag))

\* So much of a list or a map is written as its parts can be.
LEMMA BodyOk ==
    ASSUME NEW v, NEW forms, NEW b, BodyChain(v, forms, b)
    PROVE  \A i \in 0 .. Len(Places(v)) :
               b[i].ok <=> \A j \in 1 .. i : PartForm(v, forms, j).ok
<1> DEFINE n == Len(Places(v))
           T == {i \in Nat : i <= n => (b[i].ok <=> \A j \in 1 .. i : PartForm(v, forms, j).ok)}
<1>1. 0 \in T
  BY DEF BodyChain, Emit
<1>2. ASSUME NEW i \in T PROVE i + 1 \in T
  <2>1. i \in Nat
    BY <1>2
  <2>2. ASSUME i + 1 <= n
        PROVE  b[i + 1].ok <=> \A j \in 1 .. i + 1 : PartForm(v, forms, j).ok
    <3>1. i + 1 \in 1 .. n /\ (i + 1) - 1 = i /\ i <= n
      BY <2>1, <2>2 DEF BodyChain
    <3>2. b[i].ok <=> \A j \in 1 .. i : PartForm(v, forms, j).ok
      BY <1>2, <3>1
    <3>3. b[i + 1] = Joined(b[i], PartForm(v, forms, i + 1))
      BY <3>1 DEF BodyChain
    <3>4. b[i + 1].ok <=> b[i].ok /\ PartForm(v, forms, i + 1).ok
      BY <3>3 DEF Joined, Emit, Refused
    <3>5. \A j : j \in 1 .. i + 1 <=> j \in 1 .. i \/ j = i + 1
      BY <2>1
    <3> QED
      BY <3>2, <3>4, <3>5
  <2> QED
    BY <2>1, <2>2
<1>3. T \in SUBSET Nat
  OBVIOUS
<1>4. T = Nat
  <2> HIDE DEF T
  <2> QED
    BY <1>1, <1>2, <1>3, Induction
<1>5. n \in Nat
  BY DEF BodyChain
<1> QED
  BY <1>4, <1>5

\* What is written of a list or a map is well formed.
LEMMA BodyForms ==
    ASSUME NEW v, NEW forms, NEW b, BodyChain(v, forms, b)
    PROVE  \A i \in 0 .. Len(Places(v)) : WellFormed(b[i], Fewest(v.tag, i))
<1> DEFINE n == Len(Places(v))
           T == {i \in Nat : i <= n => WellFormed(b[i], Fewest(v.tag, i))}
<1>1. 0 \in T
  <2>1. b[0] = Emit(<<v.tag, n>>, 1) /\ v.tag \in Nat /\ n \in Nat
    BY DEF BodyChain
  <2> HIDE DEF n
  <2>2. <<v.tag, n>> \in Seq(Nat)
    BY <2>1
  <2>3. b[0].bytes \in Seq(Nat) /\ b[0].items = 1
    BY <2>1, <2>2 DEF Emit
  <2>4. Fewest(v.tag, 0) = 1
    BY DEF Fewest
  <2> QED
    BY <2>3, <2>4 DEF WellFormed
<1>2. ASSUME NEW i \in T PROVE i + 1 \in T
  <2>1. i \in Nat /\ n \in Nat
    BY <1>2 DEF BodyChain
  <2>2. ASSUME i + 1 <= n PROVE WellFormed(b[i + 1], Fewest(v.tag, i + 1))
    <3>1. i + 1 \in 1 .. n /\ (i + 1) - 1 = i /\ i <= n
      BY <2>1, <2>2
    <3>2. WellFormed(b[i], Fewest(v.tag, i))
      BY <1>2, <3>1
    <3>3. /\ b[i + 1] = Joined(b[i], PartForm(v, forms, i + 1))
          /\ WellFormed(PartForm(v, forms, i + 1), PartLeast(v.tag))
      BY <3>1 DEF BodyChain
    <3>4. /\ Fewest(v.tag, i) \in Nat /\ PartLeast(v.tag) \in Nat
          /\ Fewest(v.tag, i) + PartLeast(v.tag) = Fewest(v.tag, i + 1)
      BY <2>1 DEF Fewest, PartLeast
    <3>5. WellFormed(Joined(b[i], PartForm(v, forms, i + 1)), Fewest(v.tag, i) + PartLeast(v.tag))
      BY <3>2, <3>3, <3>4, JoinedForms
    <3> QED
      BY <3>3, <3>4, <3>5
  <2> QED
    BY <2>1, <2>2
<1>3. T \in SUBSET Nat
  OBVIOUS
<1>4. T = Nat
  <2> HIDE DEF T
  <2> QED
    BY <1>1, <1>2, <1>3, Induction
<1>5. n \in Nat
  BY DEF BodyChain
<1> QED
  BY <1>4, <1>5

\* All that is written of a list or a map stands in the wire.
BodyStanding(v, forms, b, data, p) ==
    /\ \A i \in 0 .. Len(Places(v)) : b[i].ok /\ Stands(data, p, b[i].bytes)
    /\ \A i \in 1 .. Len(Places(v)) :
           /\ PartForm(v, forms, i).ok
           /\ Stands(data, p + Len(b[i - 1].bytes), PartForm(v, forms, i).bytes)
           /\ Len(b[i].bytes) = Len(b[i - 1].bytes) + Len(PartForm(v, forms, i).bytes)
           /\ b[i].items = b[i - 1].items + PartForm(v, forms, i).items

\* Where a list or a map stands, all that was written of it before stands.
LEMMA BodyStands ==
    ASSUME NEW v, NEW forms, NEW b, BodyChain(v, forms, b), b[Len(Places(v))].ok,
           NEW data \in Seq(Nat), NEW p \in Nat \ {0}, Stands(data, p, b[Len(Places(v))].bytes)
    PROVE  BodyStanding(v, forms, b, data, p)
<1> DEFINE n == Len(Places(v))
           T == {j \in Nat : j <= n => Stands(data, p, b[n - j].bytes)}
<1>1. n \in Nat
  BY DEF BodyChain
<1>2. \A j \in 1 .. n : PartForm(v, forms, j).ok
  BY <1>1, BodyOk
<1>3. \A i \in 0 .. n : b[i].ok
  BY <1>1, <1>2, BodyOk
<1>4. ASSUME NEW i \in 1 .. n, Stands(data, p, b[i].bytes)
      PROVE  /\ Stands(data, p, b[i - 1].bytes)
             /\ Stands(data, p + Len(b[i - 1].bytes), PartForm(v, forms, i).bytes)
  <2>1. /\ b[i] = Joined(b[i - 1], PartForm(v, forms, i)) /\ b[i].ok /\ b[i - 1].ok
        /\ PartForm(v, forms, i).ok
    BY <1>1, <1>2, <1>3 DEF BodyChain
  <2>2. b[i].bytes = b[i - 1].bytes \o PartForm(v, forms, i).bytes
    <3>1. b[i] = Emit(b[i - 1].bytes \o PartForm(v, forms, i).bytes,
                      b[i - 1].items + PartForm(v, forms, i).items)
      BY <2>1, Zenon DEF Joined
    <3> QED
      <4>1. \A x, y : Emit(x, y).bytes = x
        BY DEF Emit
      <4> QED
        BY <3>1, <4>1
  <2>3. b[i - 1].bytes \in Seq(Nat) /\ PartForm(v, forms, i).bytes \in Seq(Nat)
    <3>1. WellFormed(b[i - 1], Fewest(v.tag, i - 1))
      BY <1>1, BodyForms
    <3>2. WellFormed(PartForm(v, forms, i), PartLeast(v.tag))
      BY <1>1 DEF BodyChain
    <3> QED
      BY <2>1, <3>1, <3>2 DEF WellFormed
  <2> QED
    BY <1>4, <2>2, <2>3, StandsBoth
<1>5. 0 \in T
  BY <1>1
<1>6. ASSUME NEW j \in T PROVE j + 1 \in T
  <2>1. CASE j + 1 <= n
    <3>1. n - j \in 1 .. n /\ Stands(data, p, b[n - j].bytes) /\ (n - j) - 1 = n - (j + 1)
      BY <1>1, <1>6, <2>1
    <3> QED
      BY <1>4, <1>6, <3>1
  <2> QED
    BY <1>6, <2>1
<1>7. T \in SUBSET Nat
  OBVIOUS
<1>8. ASSUME NEW i \in 0 .. n PROVE Stands(data, p, b[i].bytes)
  <2>1. n - i \in Nat /\ n - (n - i) = i /\ n - i <= n
    BY <1>1
  <2>2. n - i \in T
    <3> HIDE DEF T
    <3> QED
      BY <1>5, <1>6, <1>7, <2>1, Induction
  <2> QED
    BY <2>1, <2>2
<1>9. ASSUME NEW i \in 1 .. n
      PROVE  /\ Len(b[i].bytes) = Len(b[i - 1].bytes) + Len(PartForm(v, forms, i).bytes)
             /\ b[i].items = b[i - 1].items + PartForm(v, forms, i).items
  <2>1. b[i] = Joined(b[i - 1], PartForm(v, forms, i)) /\ b[i].ok
    BY <1>1, <1>3 DEF BodyChain
  <2>2. WellFormed(b[i - 1], Fewest(v.tag, i - 1)) /\ Fewest(v.tag, i - 1) \in Nat
    BY <1>1, BodyForms DEF Fewest
  <2>3. WellFormed(PartForm(v, forms, i), PartLeast(v.tag)) /\ PartLeast(v.tag) \in Nat
    BY <1>1 DEF BodyChain, PartLeast
  <2>4. Joined(b[i - 1], PartForm(v, forms, i)).ok =>
            Len(Joined(b[i - 1], PartForm(v, forms, i)).bytes)
                = Len(b[i - 1].bytes) + Len(PartForm(v, forms, i).bytes)
    BY <2>2, <2>3, JoinedForms
  <2>5. b[i].items = b[i - 1].items + PartForm(v, forms, i).items
    BY <2>1 DEF Joined, Emit, Refused
  <2> QED
    BY <2>1, <2>4, <2>5
<1>10. \A i \in 1 .. n : Stands(data, p + Len(b[i - 1].bytes), PartForm(v, forms, i).bytes)
  BY <1>1, <1>4, <1>8
<1> QED
  BY <1>2, <1>3, <1>8, <1>9, <1>10 DEF BodyStanding

\* The tag, the size and the tokens of a string.
LEMMA TextStands ==
    ASSUME NEW data \in Seq(Nat), NEW p \in Nat \ {0}, NEW tag \in Nat, NEW raw \in Seq(Nat),
           Stands(data, p, <<tag, Len(raw)>> \o raw)
    PROVE  /\ Len(raw) \in Nat /\ p + 1 + Len(raw) <= Len(data)
           /\ data[p] = tag /\ data[p + 1] = Len(raw)
           /\ SubSeq(data, p + 2, p + 1 + Len(raw)) = raw
           /\ Len(<<tag, Len(raw)>> \o raw) = 2 + Len(raw)
<1> DEFINE head == <<tag, Len(raw)>>
<1>1. Len(raw) \in Nat /\ Len(data) \in Nat
  OBVIOUS
<1>2. head \in Seq(Nat) /\ Len(head) = 2 /\ head[1] = tag /\ head[2] = Len(raw)
  BY <1>1
<1> HIDE DEF head
<1>3. Stands(data, p, head) /\ Stands(data, p + 2, raw)
  <2>1. Stands(data, p, head \o raw)
    BY DEF head
  <2> QED
    BY <1>2, <2>1, StandsBoth
<1>4. p + 2 + Len(raw) <= Len(data) + 1 /\ \A i \in 1 .. Len(raw) : data[(p + 2) + i - 1] = raw[i]
  BY <1>3 DEF Stands
<1>5. data[p] = tag /\ data[p + 1] = Len(raw)
  <2>1. \A i \in 1 .. 2 : data[p + i - 1] = head[i]
    BY <1>2, <1>3 DEF Stands
  <2>2. 1 \in 1 .. 2 /\ 2 \in 1 .. 2 /\ p + 1 - 1 = p /\ p + 2 - 1 = p + 1
    OBVIOUS
  <2> QED
    BY <1>2, <2>1, <2>2
<1>6. SubSeq(data, p + 2, p + 1 + Len(raw)) = raw
  <2> DEFINE s == SubSeq(data, p + 2, p + 1 + Len(raw))
  <2>1. ASSUME NEW i \in p + 2 .. p + 1 + Len(raw) PROVE data[i] \in Nat
    <3>1. i \in 1 .. Len(data)
      BY <1>1, <1>4
    <3> QED
      BY <3>1, SMTT(30)
  <2>2. /\ s \in Seq(Nat)
        /\ Len(s) = IF p + 2 <= p + 1 + Len(raw) THEN (p + 1 + Len(raw)) - (p + 2) + 1 ELSE 0
        /\ \A i \in 1 .. (p + 1 + Len(raw)) - (p + 2) + 1 : s[i] = data[(p + 2) + i - 1]
    BY <1>1, <2>1, SubSeqProperties
  <2> HIDE DEF s
  <2>3. Len(s) = Len(raw) /\ (p + 1 + Len(raw)) - (p + 2) + 1 = Len(raw)
    BY <1>1, <2>2
  <2>4. \A i \in 1 .. Len(raw) : s[i] = raw[i]
    BY <1>4, <2>2, <2>3
  <2> QED
    BY <2>2, <2>3, <2>4, SeqEqual DEF s
<1>7. Len(head \o raw) = 2 + Len(raw)
  <2>1. Len(head \o raw) = Len(head) + Len(raw)
    BY <1>2, ConcatProperties
  <2> QED
    BY <1>2, <2>1
<1> QED
  BY <1>1, <1>4, <1>5, <1>6, <1>7, SMTT(30) DEF head

TextFits(data, max, nested, tag, raw, p, k) ==
    ReadValue(data, max, nested, p, k) = Expected(max, Text(tag, raw), TextForm(tag, raw), p, k)

\* A string is read back.
LEMMA TextReadBack ==
    ASSUME NEW data \in Seq(Nat), NEW max \in Nat, NEW nested,
           NEW tag \in {TagBytes, TagStr}, NEW raw \in Seq(Nat),
           ~(tag = TagStr /\ Contains(raw, Unsuited)),
           NEW p \in Nat \ {0}, NEW k \in Nat, Stands(data, p, TextForm(tag, raw).bytes)
    PROVE  TextFits(data, max, nested, tag, raw, p, k)
<1>1. TextForm(tag, raw) = Emit(<<tag, Len(raw)>> \o raw, 1)
  BY DEF TextForm
<1>2. TextForm(tag, raw).bytes = <<tag, Len(raw)>> \o raw /\ TextForm(tag, raw).items = 1
  <2>1. PICK e : e = <<tag, Len(raw)>> \o raw
    OBVIOUS
  <2>2. TextForm(tag, raw) = Emit(e, 1)
    BY <1>1, <2>1, Zenon
  <2>3. TextForm(tag, raw).bytes = e /\ TextForm(tag, raw).items = 1
    BY <2>2 DEF Emit
  <2> QED
    BY <2>1, <2>3, Zenon
<1>3. tag \in Nat
  BY DEF TagBytes, TagStr
<1>4. /\ Len(raw) \in Nat /\ p + 1 + Len(raw) <= Len(data) /\ Len(data) \in Nat
      /\ data[p] = tag /\ data[p + 1] = Len(raw)
      /\ SubSeq(data, p + 2, p + 1 + Len(raw)) = raw
      /\ Len(<<tag, Len(raw)>> \o raw) = 2 + Len(raw)
  <2>1. Stands(data, p, <<tag, Len(raw)>> \o raw)
    BY <1>2, Zenon
  <2>2. Len(data) \in Nat
    OBVIOUS
  <2> QED
    BY <1>3, <2>1, <2>2, TextStands, Zenon
<1>5. CASE k >= max
  <2>1. ReadValue(data, max, nested, p, k) = Wrong
    BY <1>5 DEF ReadValue
  <2>2. ~(k + 1 <= max)
    BY <1>5
  <2> DEFINE form == TextForm(tag, raw)
  <2>3. form.items = 1
    BY <1>2
  <2> HIDE DEF form
  <2>5. Expected(max, Text(tag, raw), form, p, k) = Wrong
    BY <2>2, <2>3 DEF Expected
  <2> QED
    BY <2>1, <2>5 DEF form, TextFits
<1>6. CASE k < max
  <2>1. ~(k >= max \/ p > Len(data)) /\ ~(p + 1 > Len(data)) /\ ~(p + 1 + Len(raw) > Len(data))
    BY <1>4, <1>6
  <2>2. ReadValue(data, max, nested, p, k) = Read(Text(tag, raw), p + 2 + Len(raw), k + 1)
    <3>1. /\ tag \notin {TagNull, TagFalse, TagTrue} /\ tag \notin {TagInt64, TagFloat64}
          /\ tag \notin {TagList, TagMap}
      BY DEF TagNull, TagFalse, TagTrue, TagInt64, TagFloat64, TagBytes, TagStr, TagList, TagMap
    <3> DEFINE t == data[p]
               c == data[p + 1]
               x == SubSeq(data, p + 2, p + 1 + c)
    <3>2. ReadValue(data, max, nested, p, k) =
              CASE t \in {TagNull, TagFalse, TagTrue} -> Read(Scalar(t), p + 1, k + 1)
                [] t \in {TagInt64, TagFloat64} ->
                            IF p + 1 > Len(data) \/ c = Unsuited THEN Wrong ELSE Read(Number(t, c), p + 2, k + 1)
                [] t \in {TagBytes, TagStr} ->
                            IF p + 1 > Len(data) \/ p + 1 + c > Len(data) \/ (t = TagStr /\ Contains(x, Unsuited))
                            THEN Wrong ELSE Read(Text(t, x), p + 2 + c, k + 1)
                [] t \in {TagList, TagMap} ->
                            IF p + 1 > Len(data) \/ ~LeavesRoom(c, t, max - k - 1) THEN Wrong
                            ELSE ReadGroup(nested, t, c, p + 2, k + 1)
                [] OTHER -> Wrong
      BY <2>1, Zenon DEF ReadValue
    <3>3. t = tag /\ c = Len(raw) /\ x = raw
      BY <1>4
    <3> HIDE DEF t, c, x
    <3>4. /\ t \in {TagBytes, TagStr} /\ t \notin {TagNull, TagFalse, TagTrue}
          /\ t \notin {TagInt64, TagFloat64} /\ t \notin {TagList, TagMap}
      BY <3>1, <3>3
    <3>5. ReadValue(data, max, nested, p, k) =
              IF p + 1 > Len(data) \/ p + 1 + c > Len(data) \/ (t = TagStr /\ Contains(x, Unsuited))
              THEN Wrong ELSE Read(Text(t, x), p + 2 + c, k + 1)
      BY <2>1, <3>2, <3>4
    <3>6. ~(p + 1 > Len(data) \/ p + 1 + c > Len(data) \/ (t = TagStr /\ Contains(x, Unsuited)))
      BY <2>1, <3>3
    <3>7. ReadValue(data, max, nested, p, k) = Read(Text(t, x), p + 2 + c, k + 1)
      BY <3>5, <3>6
    <3> QED
      BY <3>3, <3>7
  <2>3. k + 1 <= max /\ p + (2 + Len(raw)) = p + 2 + Len(raw)
    BY <1>4, <1>6
  <2> DEFINE form == TextForm(tag, raw)
  <2>4. form.items = 1 /\ Len(form.bytes) = 2 + Len(raw)
    BY <1>2, <1>4, Zenon
  <2> HIDE DEF form
  <2>5. Expected(max, Text(tag, raw), form, p, k) = Read(Text(tag, raw), p + 2 + Len(raw), k + 1)
    BY <2>3, <2>4 DEF Expected
  <2> QED
    BY <2>2, <2>5 DEF form, TextFits
<1> QED
  BY <1>5, <1>6 DEF TextFits

\* All strings that can be written are read back, the keys of maps among them.
LEMMA TextsReadBack ==
    ASSUME NEW data \in Seq(Nat), NEW max \in Nat, NEW nested
    PROVE  ReadsTexts(data, max, NextValues(data, max, nested))
<1> SUFFICES ASSUME NEW raw \in Seq(Nat), ~Contains(raw, Unsuited),
                    NEW p \in Nat \ {0}, NEW k \in Nat, Stands(data, p, TextForm(TagStr, raw).bytes)
             PROVE  NextValues(data, max, nested)[<<p, k>>]
                        = Expected(max, Text(TagStr, raw), TextForm(TagStr, raw), p, k)
  BY DEF ReadsTexts, Reads
<1>1. NextValues(data, max, nested)[<<p, k>>] = ReadValue(data, max, nested, p, k)
  BY DEF NextValues
<1>2. TagStr \in {TagBytes, TagStr} /\ ~(TagStr = TagStr /\ Contains(raw, Unsuited))
  OBVIOUS
<1>3. TextFits(data, max, nested, TagStr, raw, p, k)
  BY <1>2, TextReadBack
<1> QED
  BY <1>1, <1>3 DEF TextFits

\* A part is read back from where its form stands, unless the limit is met.
PartBack(max, nested, tag, i, s, place, u, part) ==
    IF s.items + part.items <= max
    THEN NextPart(nested, tag, i, s) =
             [ok |-> TRUE, parts |-> Bind(s.parts, place, u), next |-> s.next + Len(part.bytes),
              items |-> s.items + part.items, previous |-> place]
    ELSE ~NextPart(nested, tag, i, s).ok

PartGiven(data, max, nested, tag, i, place, u, form, s, part) ==
    /\ tag = TagList => place = i
    /\ tag = TagMap => /\ place \in Seq(Nat) /\ ReadsTexts(data, max, nested)
                       /\ i = 1 \/ Less(s.previous, place)
    /\ WellFormed(form, 1) /\ Reads(data, max, nested, u, form)
    /\ s.ok /\ s.next \in Nat \ {0} /\ s.items \in Nat
    /\ part = Joined(KeyForm(tag, place), form) /\ part.ok /\ Stands(data, s.next, part.bytes)

\* A part is read back if it follows the key before it.
LEMMA PartReadBack ==
    ASSUME NEW data \in Seq(Nat), NEW max \in Nat, NEW nested,
           NEW tag \in {TagList, TagMap}, NEW i \in Nat \ {0},
           NEW place, NEW u, NEW form, NEW s, NEW part,
           PartGiven(data, max, nested, tag, i, place, u, form, s, part)
    PROVE  PartBack(max, nested, tag, i, s, place, u, part)
<1> USE DEF PartGiven
<1> DEFINE key == KeyForm(tag, place)
           a == s.next
           k == s.items
           at == NextPlace(nested, tag, i, s)
           t == NextPart(nested, tag, i, s)
<1>1. key.ok /\ form.ok
  BY DEF Joined, Refused
<1>2. form.bytes \in Seq(Nat) /\ form.items \in Nat /\ 1 <= form.items
  BY <1>1 DEF WellFormed
<1>3. ~Stopped.ok /\ ~Wrong.ok
  BY DEF Stopped, Start, Wrong
<1>4. key.bytes \in Seq(Nat) /\ key.items \in Nat
  <2>1. CASE tag = TagList
    BY <2>1 DEF KeyForm, Emit, TagList, TagMap
  <2>2. CASE tag = TagMap
    <3>1. key = TextForm(TagStr, place) /\ place \in Seq(Nat)
      BY <2>2 DEF KeyForm
    <3>2. key = Emit(<<TagStr, Len(place)>> \o place, 1)
      <4>1. key = Refused \/ key = Emit(<<TagStr, Len(place)>> \o place, 1)
        BY <3>1, Zenon DEF TextForm
      <4>2. key # Refused
        BY <1>1 DEF Refused
      <4> QED
        BY <4>1, <4>2, Zenon
    <3>3. <<TagStr, Len(place)>> \o place \in Seq(Nat)
      <4>1. <<TagStr, Len(place)>> \in Seq(Nat)
        BY <3>1 DEF TagStr
      <4> QED
        BY <3>1, <4>1, ConcatProperties
    <3> DEFINE e == <<TagStr, Len(place)>> \o place
    <3> HIDE DEF e
    <3>4. key = Emit(e, 1) /\ e \in Seq(Nat)
      BY <3>2, <3>3 DEF e
    <3> HIDE DEF key
    <3> QED
      BY <3>4 DEF Emit
  <2> QED
    BY <2>1, <2>2
<1>5. /\ part.bytes = key.bytes \o form.bytes /\ part.items = key.items + form.items
      /\ Len(part.bytes) = Len(key.bytes) + Len(form.bytes)
  <2> HIDE DEF key
  <2>1. PICK e : e = key.bytes \o form.bytes
    OBVIOUS
  <2>2. part = Emit(e, key.items + form.items)
    BY <1>1, <2>1, Zenon DEF Joined, key
  <2>3. part.bytes = e /\ part.items = key.items + form.items
    BY <2>2 DEF Emit
  <2>4. Len(e) = Len(key.bytes) + Len(form.bytes)
    BY <1>2, <1>4, <2>1, ConcatProperties
  <2> QED
    BY <2>1, <2>3, <2>4, Zenon
<1> HIDE DEF key
<1>6. Stands(data, a, key.bytes) /\ Stands(data, a + Len(key.bytes), form.bytes)
  <2>1. Stands(data, a, key.bytes \o form.bytes)
    BY <1>5, Zenon
  <2> QED
    BY <1>2, <1>4, <2>1, StandsBoth
<1> DEFINE b == a + Len(key.bytes)
           h == k + key.items
<1>7. b \in Nat \ {0} /\ h \in Nat
  BY <1>4, SMTT(30)
<1>8. nested[<<b, h>>] = Expected(max, u, form, b, h)
  BY <1>6, <1>7 DEF Reads
<1>9. /\ b + Len(form.bytes) = a + Len(part.bytes) /\ h + form.items = k + part.items
      /\ k + part.items <= max => h <= max
  <2>1. Len(key.bytes) \in Nat /\ Len(form.bytes) \in Nat /\ max \in Nat
    BY <1>2, <1>4
  <2>2. b + Len(form.bytes) = a + Len(part.bytes)
    <3>1. Len(part.bytes) = Len(key.bytes) + Len(form.bytes)
      BY <1>5, Zenon
    <3>2. \A x, y \in Nat : (a + x) + y = a + (x + y)
      OBVIOUS
    <3>3. (a + Len(key.bytes)) + Len(form.bytes) = a + (Len(key.bytes) + Len(form.bytes))
      BY <2>1, <3>2, Zenon
    <3> QED
      BY <3>1, <3>3, Zenon
  <2>3. h + form.items = k + part.items
    BY <1>2, <1>4, <1>5
  <2>4. k + part.items <= max => h <= max
    BY <1>2, <1>7, <2>1, <2>3
  <2> QED
    BY <2>2, <2>3, <2>4
<1>10. h <= max => at = [ok |-> TRUE, place |-> place, next |-> b, items |-> h]
  <2>1. CASE tag = TagList
    <3>1. key = Emit(<<>>, 0)
      BY <2>1 DEF key, KeyForm, TagList, TagMap
    <3>2. b = a /\ h = k
      BY <3>1 DEF Emit
    <3>3. at = [ok |-> TRUE, place |-> i, next |-> s.next, items |-> s.items]
      BY <2>1 DEF NextPlace, TagList, TagMap
    <3> QED
      BY <2>1, <3>2, <3>3
  <2>2. CASE tag = TagMap
    <3>1. key = TextForm(TagStr, place) /\ place \in Seq(Nat) /\ ReadsTexts(data, max, nested)
      BY <2>2 DEF key, KeyForm
    <3>2. ~Contains(place, Unsuited)
      BY <1>1, <3>1 DEF TextForm, Refused
    <3>3. nested[<<a, k>>] = Expected(max, Text(TagStr, place), key, a, k)
      BY <1>6, <3>1, <3>2 DEF ReadsTexts, Reads
    <3>4. ASSUME h <= max
          PROVE  at = [ok |-> TRUE, place |-> place, next |-> b, items |-> h]
      <4>1. nested[<<a, k>>] = Read(Text(TagStr, place), b, h)
        BY <3>3, <3>4 DEF Expected
      <4> DEFINE q == nested[<<a, k>>]
      <4>2. q.ok /\ q.value.tag = TagStr /\ q.value.raw = place /\ q.next = b /\ q.items = h
        BY <4>1 DEF Read, Text
      <4>3. at = [ok |-> /\ q.ok /\ q.value.tag = TagStr
                         /\ i = 1 \/ MayFollow(s.previous, q.value.raw),
                  place |-> q.value.raw, next |-> q.next, items |-> q.items]
        BY <2>2 DEF NextPlace
      <4> HIDE DEF q, at, b, h
      <4>4. i = 1 \/ MayFollow(s.previous, place)
        BY <2>2 DEF MayFollow
      <4>5. (/\ q.ok /\ q.value.tag = TagStr
             /\ i = 1 \/ MayFollow(s.previous, q.value.raw)) = TRUE
        BY <4>2, <4>4
      <4> QED
        BY <4>2, <4>3, <4>5
    <3> QED
      BY <3>4
  <2> QED
    BY <2>1, <2>2
<1> DEFINE r == nested[<<at.next, at.items>>]
<1>11. t = IF s.ok /\ at.ok /\ r.ok
           THEN [ok |-> TRUE, parts |-> Bind(s.parts, at.place, r.value),
                 next |-> r.next, items |-> r.items, previous |-> at.place]
           ELSE Stopped
  BY DEF NextPart
<1>12. CASE h <= max
  <2>1. at.ok /\ at.place = place /\ at.next = b /\ at.items = h
    BY <1>10, <1>12
  <2>2. r = Expected(max, u, form, b, h)
    BY <1>8, <2>1
  <2> HIDE DEF at, r, t
  <2>3. CASE k + part.items <= max
    <3>1. r = Read(u, b + Len(form.bytes), h + form.items)
      BY <1>9, <2>2, <2>3 DEF Expected
    <3>2. r.ok /\ r.value = u /\ r.next = b + Len(form.bytes) /\ r.items = h + form.items
      BY <3>1 DEF Read
    <3> HIDE DEF b, h, a, k
    <3>3. t = [ok |-> TRUE, parts |-> Bind(s.parts, place, u), next |-> a + Len(part.bytes),
               items |-> k + part.items, previous |-> place]
      BY <1>9, <1>11, <2>1, <3>2
    <3> QED
      BY <2>3, <3>3 DEF PartBack, t, a, k
  <2>4. CASE ~(k + part.items <= max)
    <3>1. ~(h + form.items <= max)
      BY <1>9, <2>4
    <3>2. r = Wrong
      BY <2>2, <3>1 DEF Expected
    <3>3. ~t.ok
      BY <1>3, <1>11, <3>2
    <3> QED
      BY <2>4, <3>3 DEF PartBack, t
  <2> QED
    BY <2>3, <2>4
<1>13. CASE ~(h <= max)
  <2>1. ~(k + part.items <= max) /\ ~(h + form.items <= max)
    <3>1. max \in Nat
      OBVIOUS
    <3> QED
      BY <1>2, <1>7, <1>9, <1>13, <3>1
  <2>2. ~(at.ok /\ r.ok)
    <3>1. CASE tag = TagList
      <4>1. key = Emit(<<>>, 0)
        BY <3>1 DEF key, KeyForm, TagList, TagMap
      <4>2. b = a /\ h = k
        BY <4>1 DEF Emit
      <4>3. at.next = a /\ at.items = k
        BY <3>1 DEF NextPlace, TagList, TagMap
      <4>4. r = Wrong
        BY <1>8, <2>1, <4>2, <4>3 DEF Expected
      <4> QED
        BY <1>3, <4>4
    <3>2. CASE tag = TagMap
      <4>1. key = TextForm(TagStr, place) /\ place \in Seq(Nat) /\ ReadsTexts(data, max, nested)
        BY <3>2 DEF key, KeyForm
      <4>2. ~Contains(place, Unsuited)
        BY <1>1, <4>1 DEF TextForm, Refused
      <4>3. nested[<<a, k>>] = Expected(max, Text(TagStr, place), key, a, k)
        BY <1>6, <4>1, <4>2 DEF ReadsTexts, Reads
      <4>4. nested[<<a, k>>] = Wrong
        BY <1>13, <4>3 DEF Expected
      <4>5. ~at.ok
        BY <1>3, <3>2, <4>4 DEF NextPlace
      <4> QED
        BY <4>5
    <3> QED
      BY <3>1, <3>2
  <2> HIDE DEF at, r, t, h, b
  <2>3. ~t.ok
    BY <1>3, <1>11, <2>2
  <2> QED
    BY <2>1, <2>3 DEF PartBack, t
<1> QED
  BY <1>12, <1>13

\* A list or a map, its places and its parts.
Placed(v) ==
    /\ v = Group(v.tag, v.parts) /\ v.tag \in {TagList, TagMap} /\ Len(Places(v)) \in Nat
    /\ v.parts = [x \in {Places(v)[i] : i \in 1 .. Len(Places(v))} |-> v.parts[x]]
    /\ v.tag = TagList => \A i \in 1 .. Len(Places(v)) : Places(v)[i] = i
    /\ v.tag = TagMap =>
           /\ \A i \in 1 .. Len(Places(v)) : Places(v)[i] \in Seq(Nat)
           /\ \A i \in 2 .. Len(Places(v)) : Less(Places(v)[i - 1], Places(v)[i])

\* A part is one of the values nested in v.
LEMMA PlacedPart ==
    ASSUME NEW v, Placed(v), NEW i \in 1 .. Len(Places(v))
    PROVE  v.parts[Places(v)[i]] \in Nested({v})
<1>1. Places(v)[i] \in DOMAIN v.parts
  BY DEF Placed
<1>2. Nested({v}) = {v.parts[x] : x \in DOMAIN v.parts}
  BY DEF Nested
<1> QED
  BY <1>1, <1>2

\* The parts of v can be written, and where they are they are read.
PartsBack(data, max, nested, v, forms) ==
    /\ \A u \in Nested({v}) :
           WellFormed(forms[u], 1) /\ (forms[u].ok => Reads(data, max, nested, u, forms[u]))
    /\ Nested({v}) # {} => ReadsTexts(data, max, nested)

\* What the reader has got after the first i parts.
Got(max, v, form, p, k, i, s) ==
    IF k + form.items <= max
    THEN s = [ok |-> TRUE, parts |-> [x \in {Places(v)[j] : j \in 1 .. i} |-> v.parts[x]],
              next |-> p + Len(form.bytes), items |-> k + form.items,
              previous |-> IF i = 0 THEN <<>> ELSE Places(v)[i]]
    ELSE ~s.ok

\* The first two tokens and the parts of a list or a map are read back.
GroupBack(data, max, nested, v, form, p, k) ==
    /\ p + 1 <= Len(data) /\ data[p] = v.tag /\ data[p + 1] = Len(Places(v))
    /\ IF k + form.items <= max
       THEN /\ LeavesRoom(Len(Places(v)), v.tag, max - k - 1)
            /\ ReadGroup(nested, v.tag, Len(Places(v)), p + 2, k + 1)
                   = Read(v, p + Len(form.bytes), k + form.items)
       ELSE ReadGroup(nested, v.tag, Len(Places(v)), p + 2, k + 1) = Wrong

\* What is written of a key is well formed.
LEMMA KeyForms ==
    ASSUME NEW v, Placed(v), NEW i \in 1 .. Len(Places(v))
    PROVE  WellFormed(KeyForm(v.tag, Places(v)[i]), IF v.tag = TagMap THEN 1 ELSE 0)
<1>1. CASE v.tag = TagMap
  <2>1. Places(v)[i] \in Seq(Nat)
    BY <1>1 DEF Placed
  <2> DEFINE place == Places(v)[i]
             e == <<TagStr, Len(place)>> \o place
  <2>2. KeyForm(v.tag, place) = Refused \/ KeyForm(v.tag, place) = Emit(e, 1)
    BY <1>1, Zenon DEF KeyForm, TextForm
  <2>3. e \in Seq(Nat)
    <3>1. <<TagStr, Len(place)>> \in Seq(Nat)
      BY <2>1 DEF TagStr
    <3> QED
      BY <2>1, <3>1, ConcatProperties
  <2> HIDE DEF e, place
  <2>4. WellFormed(Refused, 1) /\ WellFormed(Emit(e, 1), 1)
    BY <2>3 DEF WellFormed, Refused, Emit
  <2> QED
    BY <1>1, <2>2, <2>4, Zenon DEF place
<1>2. CASE v.tag # TagMap
  <2>1. KeyForm(v.tag, Places(v)[i]) = Emit(<<>>, 0)
    BY <1>2 DEF KeyForm
  <2>2. WellFormed(Emit(<<>>, 0), 0)
    BY DEF WellFormed, Emit
  <2> QED
    BY <1>2, <2>1, <2>2
<1> QED
  BY <1>1, <1>2

\* A list or a map is written part by part.
LEMMA PlacedChain ==
    ASSUME NEW v, Placed(v), NEW forms, \A u \in Nested({v}) : WellFormed(forms[u], 1)
    PROVE  \E b : GroupForm(v, forms) = b[Len(Places(v))] /\ BodyChain(v, forms, b)
<1> DEFINE n == Len(Places(v))
<1>1. n \in Nat /\ v.tag \in Nat
  BY DEF Placed, TagList, TagMap
<1>2. PICK b : /\ GroupForm(v, forms) = b[n] /\ b[0] = Emit(<<v.tag, n>>, 1)
               /\ \A i \in 1 .. n : b[i] = NextBody(v, forms, b[i - 1], i)
  <2>1. BodyRun(v, forms)
    BY <1>1, BodySteps
  <2> QED
    BY <2>1, Zenon DEF BodyRun
<1>3. ASSUME NEW i \in 1 .. n PROVE WellFormed(PartForm(v, forms, i), PartLeast(v.tag))
  <2> DEFINE x == KeyForm(v.tag, Places(v)[i])
             y == forms[v.parts[Places(v)[i]]]
             m == IF v.tag = TagMap THEN 1 ELSE 0
  <2>1. WellFormed(x, m) /\ WellFormed(y, 1)
    BY KeyForms, PlacedPart
  <2>2. m \in Nat /\ m + 1 = PartLeast(v.tag)
    BY DEF PartLeast
  <2>3. PartForm(v, forms, i) = Joined(x, y)
    BY DEF PartForm
  <2> HIDE DEF x, y, m
  <2>4. WellFormed(Joined(x, y), m + 1)
    BY <2>1, <2>2, JoinedForms
  <2> QED
    BY <2>2, <2>3, <2>4
<1>4. \A i \in 1 .. n : b[i] = Joined(b[i - 1], PartForm(v, forms, i))
  BY <1>2, Zenon DEF NextBody, PartForm
<1>5. BodyChain(v, forms, b)
  BY <1>1, <1>2, <1>3, <1>4 DEF BodyChain
<1> QED
  BY <1>2, <1>5

\* A list or a map is read back: induction over its parts.
LEMMA GroupReadBack ==
    ASSUME NEW data \in Seq(Nat), NEW max \in Nat, NEW nested, NEW forms, NEW v, Placed(v),
           PartsBack(data, max, nested, v, forms),
           NEW form, form = GroupForm(v, forms), form.ok,
           NEW p \in Nat \ {0}, NEW k \in Nat, k < max, Stands(data, p, form.bytes)
    PROVE  GroupBack(data, max, nested, v, form, p, k)
<1> DEFINE n == Len(Places(v))
           tag == v.tag
           place(i) == Places(v)[i]
           part(i) == PartForm(v, forms, i)
<1>1. n \in Nat /\ tag \in {TagList, TagMap} /\ tag \in Nat
  BY DEF Placed, TagList, TagMap
<1>2. PICK b : form = b[n] /\ BodyChain(v, forms, b)
  <2>1. \A u \in Nested({v}) : WellFormed(forms[u], 1)
    BY DEF PartsBack
  <2> QED
    BY <2>1, PlacedChain
<1>3. /\ \A i \in 0 .. n : b[i].ok /\ Stands(data, p, b[i].bytes)
      /\ \A i \in 1 .. n : /\ part(i).ok
                           /\ Stands(data, p + Len(b[i - 1].bytes), part(i).bytes)
                           /\ Len(b[i].bytes) = Len(b[i - 1].bytes) + Len(part(i).bytes)
                           /\ b[i].items = b[i - 1].items + part(i).items
  <2>1. BodyChain(v, forms, b) /\ b[Len(Places(v))].ok /\ Stands(data, p, b[Len(Places(v))].bytes)
    BY <1>2
  <2>2. BodyStanding(v, forms, b, data, p)
    BY <2>1, BodyStands
  <2> QED
    BY <2>2 DEF BodyStanding
<1>4. \A i \in 0 .. n : /\ b[i].bytes \in Seq(Nat) /\ Len(b[i].bytes) \in Nat
                        /\ b[i].items \in Nat /\ Fewest(tag, i) <= b[i].items
  <2>1. ASSUME NEW i \in 0 .. n
        PROVE  /\ b[i].bytes \in Seq(Nat) /\ Len(b[i].bytes) \in Nat
               /\ b[i].items \in Nat /\ Fewest(tag, i) <= b[i].items
    <3>1. WellFormed(b[i], Fewest(tag, i)) /\ b[i].ok
      BY <1>2, <1>3, BodyForms
    <3> QED
      BY <3>1 DEF WellFormed
  <2> QED
    BY <2>1
<1>5. \A i \in 1 .. n : part(i).items \in Nat
  <2>1. ASSUME NEW i \in 1 .. n PROVE part(i).items \in Nat
    <3>1. WellFormed(part(i), PartLeast(tag))
      BY <1>2 DEF BodyChain
    <3> QED
      BY <1>3, <3>1 DEF WellFormed
  <2> QED
    BY <2>1
<1>6. b[0].bytes = <<tag, n>> /\ b[0].items = 1 /\ Len(b[0].bytes) = 2
  <2>1. b[0] = Emit(<<tag, n>>, 1)
    BY <1>2 DEF BodyChain
  <2> QED
    BY <2>1 DEF Emit
<1>7. PICK f : /\ ReadGroup(nested, tag, n, p + 2, k + 1) =
                      IF f[n].ok THEN Read(Group(tag, f[n].parts), f[n].next, f[n].items) ELSE Wrong
               /\ f[0] = Start(p + 2, k + 1)
               /\ \A i \in 1 .. n : f[i] = NextPart(nested, tag, i, f[i - 1])
  <2>1. PartsRun(nested, tag, n, p + 2, k + 1)
    BY <1>1, PartsSteps
  <2> QED
    BY <2>1, Zenon DEF PartsRun, Following
<1>8. p + 1 <= Len(data) /\ data[p] = tag /\ data[p + 1] = n
  <2>1. p + 2 <= Len(data) + 1 /\ \A i \in 1 .. 2 : data[p + i - 1] = b[0].bytes[i]
    <3>1. Stands(data, p, b[0].bytes)
      BY <1>1, <1>3
    <3> QED
      BY <1>6, <3>1 DEF Stands
  <2>2. 1 \in 1 .. 2 /\ 2 \in 1 .. 2 /\ p + 1 - 1 = p /\ p + 2 - 1 = p + 1 /\ Len(data) \in Nat
    OBVIOUS
  <2>3. b[0].bytes[1] = tag /\ b[0].bytes[2] = n
    <3> HIDE DEF tag, n
    <3> QED
      BY <1>6
  <2>4. data[p + 1 - 1] = b[0].bytes[1] /\ data[p + 2 - 1] = b[0].bytes[2]
    BY <2>1, <2>2
  <2>5. p + 1 <= Len(data)
    BY <2>1, <2>2
  <2> QED
    BY <2>2, <2>3, <2>4, <2>5
<1> HIDE DEF n, tag
<1> DEFINE T == {i \in Nat : i <= n => Got(max, v, b[i], p, k, i, f[i])}
<1>9. 0 \in T
  <2>1. k + b[0].items <= max
    BY <1>6
  <2>2. f[0].ok /\ f[0] = [ok |-> TRUE, parts |-> <<>>, next |-> p + 2, items |-> k + 1, previous |-> <<>>]
    BY <1>7 DEF Start
  <2>3. <<>> = [x \in {Places(v)[j] : j \in 1 .. 0} |-> v.parts[x]]
    <3>1. {Places(v)[j] : j \in 1 .. 0} = {}
      OBVIOUS
    <3>2. <<>> = [x \in {} |-> v.parts[x]]
      OBVIOUS
    <3> QED
      BY <3>1, <3>2
  <2>4. p + Len(b[0].bytes) = p + 2 /\ k + b[0].items = k + 1
    BY <1>6
  <2>5. Got(max, v, b[0], p, k, 0, f[0])
    BY <2>1, <2>2, <2>3, <2>4 DEF Got
  <2> QED
    BY <2>5
<1>10. ASSUME NEW j \in T PROVE j + 1 \in T
  <2>1. j \in Nat
    BY <1>10
  <2>2. ASSUME j + 1 <= n PROVE Got(max, v, b[j + 1], p, k, j + 1, f[j + 1])
    <3> DEFINE i == j + 1
               s == f[j]
               t == f[j + 1]
    <3>1. i \in 1 .. n /\ i - 1 = j /\ j \in 0 .. n /\ i \in Nat \ {0} /\ j <= n
      BY <1>1, <2>1, <2>2
    <3>2. Got(max, v, b[j], p, k, j, s)
      BY <1>10, <3>1
    <3>3. t = NextPart(nested, tag, i, s)
      BY <1>7, <3>1
    <3>4. /\ b[j].items \in Nat /\ Len(b[j].bytes) \in Nat /\ part(i).items \in Nat
          /\ b[i].items = b[j].items + part(i).items
          /\ Len(b[i].bytes) = Len(b[j].bytes) + Len(part(i).bytes)
          /\ part(i).ok /\ Stands(data, p + Len(b[j].bytes), part(i).bytes)
      BY <1>3, <1>4, <1>5, <3>1
    <3>5. CASE ~(k + b[j].items <= max)
      <4>1. ~s.ok
        BY <3>2, <3>5 DEF Got
      <4>2. t = Stopped
        BY <3>3, <4>1 DEF NextPart
      <4>3. ~t.ok
        BY <4>2 DEF Stopped, Start
      <4>4. ~(k + b[i].items <= max)
        <5>1. max \in Nat
          OBVIOUS
        <5> HIDE DEF i, part
        <5> QED
          BY <3>4, <3>5, <5>1
      <4> QED
        BY <4>3, <4>4 DEF Got
    <3>6. CASE k + b[j].items <= max
      <4>1. s = [ok |-> TRUE, parts |-> [x \in {Places(v)[m] : m \in 1 .. j} |-> v.parts[x]],
                 next |-> p + Len(b[j].bytes), items |-> k + b[j].items,
                 previous |-> IF j = 0 THEN <<>> ELSE Places(v)[j]]
        BY <3>2, <3>6 DEF Got
      <4>2. /\ s.ok /\ s.parts = [x \in {Places(v)[m] : m \in 1 .. j} |-> v.parts[x]]
            /\ s.next = p + Len(b[j].bytes) /\ s.items = k + b[j].items
            /\ s.previous = IF j = 0 THEN <<>> ELSE Places(v)[j]
        BY <4>1
      <4>3. s.next \in Nat \ {0} /\ s.items \in Nat
        <5> HIDE DEF s, part, i
        <5>1. s.next = p + Len(b[j].bytes) /\ s.items = k + b[j].items
          BY <4>2, Zenon
        <5>2. Len(b[j].bytes) \in Nat /\ b[j].items \in Nat
          BY <3>4, Zenon
        <5> QED
          <6>1. \A x, y \in Nat : k + x \in Nat /\ p + y \in Nat \ {0}
            OBVIOUS
          <6> QED
            BY <5>1, <5>2, <6>1, Zenon
      <4> DEFINE u == v.parts[place(i)]
      <4>4. u \in Nested({v})
        BY <3>1, PlacedPart DEF n
      <4>5. part(i) = Joined(KeyForm(tag, place(i)), forms[u])
        BY DEF PartForm, tag
      <4>6. forms[u].ok
        <5>1. \A x, y : Joined(x, y).ok => y.ok
          BY DEF Joined, Refused
        <5> QED
          BY <3>4, <4>5, <5>1
      <4>7. WellFormed(forms[u], 1) /\ Reads(data, max, nested, u, forms[u])
        BY <4>4, <4>6 DEF PartsBack
      <4>8. ReadsTexts(data, max, nested)
        BY <4>4 DEF PartsBack
      <4>9. tag = TagList => place(i) = i
        BY <3>1 DEF Placed, tag, n
      <4>10. tag = TagMap => place(i) \in Seq(Nat) /\ (i = 1 \/ Less(s.previous, place(i)))
        <5>1. ASSUME tag = TagMap, i # 1 PROVE Less(s.previous, place(i))
          <6>1. i \in 2 .. n /\ j # 0
            BY <1>1, <3>1, <5>1
          <6>2. Less(Places(v)[i - 1], Places(v)[i])
            BY <5>1, <6>1 DEF Placed, tag, n
          <6> QED
            BY <3>1, <4>2, <6>1, <6>2
        <5> QED
          BY <3>1, <5>1 DEF Placed, tag, n
      <4>11. Stands(data, s.next, part(i).bytes)
        BY <3>4, <4>2
      <4> HIDE DEF u, part, s, t, i, place
      <4>12. PartBack(max, nested, tag, i, s, place(i), u, part(i))
        <5> DEFINE form1 == forms[u]
                   part1 == part(i)
                   place1 == place(i)
        <5>1. PartGiven(data, max, nested, tag, i, place1, u, form1, s, part1)
          BY <3>4, <4>2, <4>3, <4>5, <4>7, <4>8, <4>9, <4>10, <4>11 DEF PartGiven
        <5> HIDE DEF form1, part1, place1
        <5>2. PartBack(max, nested, tag, i, s, place1, u, part1)
          BY <1>1, <3>1, <5>1, PartReadBack
        <5> QED
          BY <5>2 DEF part1, place1
      <4>13. s.items + part(i).items = k + b[i].items /\ s.next + Len(part(i).bytes) = p + Len(b[i].bytes)
        <5> DEFINE x == part(i).items
                   y == Len(part(i).bytes)
        <5>1. x \in Nat /\ b[j].items \in Nat /\ Len(b[j].bytes) \in Nat
              /\ b[i].items = b[j].items + x /\ Len(b[i].bytes) = Len(b[j].bytes) + y
          BY <3>4
        <5>2. y \in Nat
          BY <1>4, <3>1, <3>4
        <5> HIDE DEF x, y
        <5>3. s.items + x = k + b[i].items /\ s.next + y = p + Len(b[i].bytes)
          <6>1. s.next = p + Len(b[j].bytes) /\ s.items = k + b[j].items
            BY <4>2, Zenon
          <6> QED
            BY <5>1, <5>2, <6>1
        <5> QED
          BY <5>3 DEF x, y
      <4>14. CASE k + b[i].items <= max
        <5>1. t = [ok |-> TRUE, parts |-> Bind(s.parts, place(i), u), next |-> p + Len(b[i].bytes),
                   items |-> k + b[i].items, previous |-> place(i)]
          BY <3>3, <4>12, <4>13, <4>14 DEF PartBack
        <5>2. Bind(s.parts, place(i), u) = [x \in {Places(v)[m] : m \in 1 .. i} |-> v.parts[x]]
          <6> DEFINE A == {Places(v)[m] : m \in 1 .. j}
          <6>1. {Places(v)[m] : m \in 1 .. i} = A \cup {place(i)}
            <7>1. 1 .. i = (1 .. j) \cup {i}
              BY <2>1 DEF i
            <7>2. {Places(v)[m] : m \in (1 .. j) \cup {i}} = A \cup {place(i)}
              BY DEF place
            <7> QED
              BY <7>1, <7>2
          <6>2. s.parts = [x \in A |-> v.parts[x]] /\ DOMAIN s.parts = A
            BY <4>2
          <6> HIDE DEF A
          <6>3. Bind(s.parts, place(i), u) =
                    [x \in A \cup {place(i)} |-> IF x = place(i) THEN u ELSE s.parts[x]]
            BY <6>2 DEF Bind
          <6>4. \A x \in A \cup {place(i)} :
                    (IF x = place(i) THEN u ELSE s.parts[x]) = v.parts[x]
            BY <6>2 DEF u
          <6>5. Bind(s.parts, place(i), u) = [x \in A \cup {place(i)} |-> v.parts[x]]
            BY <6>3, <6>4
          <6> QED
            BY <6>1, <6>5
        <5>3. place(i) = IF i = 0 THEN <<>> ELSE Places(v)[i]
          BY <3>1 DEF place
        <5>4. Got(max, v, b[i], p, k, i, t)
          BY <4>14, <5>1, <5>2, <5>3 DEF Got
        <5> QED
          BY <5>4 DEF i, t
      <4>15. CASE ~(k + b[i].items <= max)
        <5>1. ~t.ok
          BY <3>3, <4>12, <4>13, <4>15 DEF PartBack
        <5>2. Got(max, v, b[i], p, k, i, t)
          BY <4>15, <5>1 DEF Got
        <5> QED
          BY <5>2 DEF i, t
      <4> QED
        BY <4>14, <4>15
    <3> QED
      BY <3>5, <3>6
  <2> QED
    BY <2>1, <2>2
<1>11. T \in SUBSET Nat
  OBVIOUS
<1>12. n \in T
  <2> HIDE DEF T
  <2> QED
    BY <1>1, <1>9, <1>10, <1>11, Induction
<1>13. Got(max, v, form, p, k, n, f[n]) /\ Fewest(tag, n) <= form.items /\ form.items \in Nat
  BY <1>1, <1>2, <1>4, <1>12
<1>14. CASE k + form.items <= max
  <2>1. f[n].ok /\ f[n].next = p + Len(form.bytes) /\ f[n].items = k + form.items
        /\ f[n].parts = [x \in {Places(v)[j] : j \in 1 .. n} |-> v.parts[x]]
    <3>1. \A s : Got(max, v, form, p, k, n, s) =>
              /\ s.ok /\ s.next = p + Len(form.bytes) /\ s.items = k + form.items
              /\ s.parts = [x \in {Places(v)[j] : j \in 1 .. n} |-> v.parts[x]]
      BY <1>14 DEF Got
    <3> QED
      BY <1>13, <3>1
  <2>2. f[n].parts = v.parts /\ v = Group(tag, v.parts)
    BY <2>1 DEF Placed, n, tag
  <2>3. ReadGroup(nested, tag, n, p + 2, k + 1) = Read(v, p + Len(form.bytes), k + form.items)
    BY <1>7, <2>1, <2>2
  <2>4. LeavesRoom(n, tag, max - k - 1)
    <3>1. CASE tag = TagMap
      <4>1. 1 + 2 * n <= form.items
        BY <1>13, <3>1 DEF Fewest
      <4>2. max - k - 1 \in Nat /\ 2 * n <= max - k - 1
        BY <1>1, <1>13, <1>14, <4>1
      <4>3. \A x, y \in Nat : 2 * x <= y => x <= y \div 2
        OBVIOUS
      <4> QED
        BY <1>1, <3>1, <4>2, <4>3 DEF LeavesRoom
    <3>2. CASE tag # TagMap
      <4>1. 1 + n <= form.items
        BY <1>13, <3>2 DEF Fewest
      <4>2. n <= max - k - 1
        BY <1>1, <1>13, <1>14, <4>1
      <4> QED
        BY <3>2, <4>2 DEF LeavesRoom
    <3> QED
      BY <3>1, <3>2
  <2> QED
    BY <1>8, <1>14, <2>3, <2>4 DEF GroupBack, n, tag
<1>15. CASE ~(k + form.items <= max)
  <2>1. ~f[n].ok
    BY <1>13, <1>15 DEF Got
  <2>2. ReadGroup(nested, tag, n, p + 2, k + 1) = Wrong
    BY <1>7, <2>1
  <2> QED
    BY <1>8, <1>15, <2>2 DEF GroupBack, n, tag
<1> QED
  BY <1>14, <1>15

\* One of the values that Python hands to encode_value, without what is in it.
Shaped(w) ==
    \/ w.tag \in {TagNull, TagFalse, TagTrue} /\ w = Scalar(w.tag)
    \/ w.tag \in {TagInt64, TagFloat64} /\ w = Number(w.tag, w.raw[1]) /\ w.raw[1] \in Nat
    \/ w.tag \in {TagBytes, TagStr} /\ w = Text(w.tag, w.raw) /\ w.raw \in Seq(Nat)
    \/ w = Group(TagList, w.parts) /\ w.parts \in Seq(Range(w.parts))
    \/ /\ w = Group(TagMap, w.parts) /\ w.parts = [key \in DOMAIN w.parts |-> w.parts[key]]
       /\ DOMAIN w.parts \in SUBSET Seq(Nat) /\ IsFiniteSet(DOMAIN w.parts)

\* The places of a list are its positions, those of a map its keys in order.
LEMMA GroupsArePlaced ==
    ASSUME NEW v, Shaped(v), v.tag \in {TagList, TagMap}
    PROVE  Placed(v)
<1>1. CASE v = Group(TagList, v.parts) /\ v.parts \in Seq(Range(v.parts))
  <2>1. v.tag = TagList
    BY <1>1 DEF Group
  <2>2. Len(v.parts) \in Nat /\ DOMAIN v.parts = 1 .. Len(v.parts)
    BY <1>1, LenProperties
  <2>3. Places(v) = [i \in 1 .. Len(v.parts) |-> i]
    BY <2>1, <2>2 DEF Places, TagList, TagMap
  <2>4. Len(Places(v)) = Len(v.parts) /\ \A i \in 1 .. Len(v.parts) : Places(v)[i] = i
    BY <2>2, <2>3
  <2>5. {Places(v)[i] : i \in 1 .. Len(v.parts)} = 1 .. Len(v.parts)
    BY <2>2, <2>4
  <2>6. v.parts = [x \in 1 .. Len(v.parts) |-> v.parts[x]]
    <3>1. v.parts \in [1 .. Len(v.parts) -> Range(v.parts)]
      BY <1>1, LenProperties
    <3> QED
      BY <3>1
  <2>7. v.tag # TagMap
    BY <2>1 DEF TagList, TagMap
  <2> QED
    BY <1>1, <2>1, <2>2, <2>4, <2>5, <2>6, <2>7 DEF Placed
<1>2. CASE /\ v = Group(TagMap, v.parts) /\ v.parts = [key \in DOMAIN v.parts |-> v.parts[key]]
           /\ DOMAIN v.parts \in SUBSET Seq(Nat) /\ IsFiniteSet(DOMAIN v.parts)
  <2> DEFINE keys == DOMAIN v.parts
             n == Cardinality(keys)
             s == Sorted(keys)
  <2>1. v.tag = TagMap
    BY <1>2 DEF Group
  <2>2. Places(v) = s
    BY <2>1 DEF Places
  <2>3. /\ n \in Nat /\ s \in [1 .. n -> keys] /\ Ascends(s)
        /\ \A x \in keys : \E i \in 1 .. n : s[i] = x
    BY <1>2, SortedKeys
  <2>4. keys \in SUBSET Seq(Nat)
    BY <1>2
  <2>5. v.parts = [key \in keys |-> v.parts[key]]
    BY <1>2
  <2> HIDE DEF keys, n, s
  <2>6. Len(s) = n
    BY <2>3
  <2>7. {s[i] : i \in 1 .. n} = keys
    BY <2>3
  <2>8. \A i \in 2 .. n : Less(s[i - 1], s[i])
    <3>1. ASSUME NEW i \in 2 .. n PROVE Less(s[i - 1], s[i])
      <4>1. i - 1 \in 1 .. n /\ i \in 1 .. n /\ i - 1 < i /\ DOMAIN s = 1 .. n
        BY <2>3
      <4> QED
        BY <2>3, <4>1 DEF Ascends
    <3> QED
      BY <3>1
  <2>9. v.tag # TagList
    BY <2>1 DEF TagList, TagMap
  <2>10. v = Group(v.tag, v.parts)
    BY <1>2, <2>1
  <2>11. \A i \in 1 .. n : s[i] \in Seq(Nat)
    BY <2>3, <2>4
  <2> QED
    <3>1. Len(Places(v)) = n
      BY <2>2, <2>6
    <3>2. {Places(v)[i] : i \in 1 .. Len(Places(v))} = keys
      BY <2>2, <2>7, <3>1
    <3>3. v.parts = [x \in {Places(v)[i] : i \in 1 .. Len(Places(v))} |-> v.parts[x]]
      BY <2>5, <3>2, Zenon
    <3>4. /\ \A i \in 1 .. Len(Places(v)) : Places(v)[i] \in Seq(Nat)
          /\ \A i \in 2 .. Len(Places(v)) : Less(Places(v)[i - 1], Places(v)[i])
      BY <2>2, <2>8, <2>11, <3>1, Zenon
    <3>5. Len(Places(v)) \in Nat
      BY <2>3, <3>1, Zenon
    <3> QED
      BY <2>1, <2>9, <2>10, <3>3, <3>4, <3>5, Zenon DEF Placed
<1>3. CASE v.tag \in {TagNull, TagFalse, TagTrue} \/ v.tag \in {TagInt64, TagFloat64} \/ v.tag \in {TagBytes, TagStr}
  BY <1>3 DEF TagNull, TagFalse, TagTrue, TagInt64, TagFloat64, TagBytes, TagStr, TagList, TagMap
<1> QED
  BY <1>1, <1>2, <1>3 DEF Shaped

\* What the reader does with the tag it finds.
ByTag(data, max, nested, p, k, t, c, x) ==
    CASE t \in {TagNull, TagFalse, TagTrue} -> Read(Scalar(t), p + 1, k + 1)
      [] t \in {TagInt64, TagFloat64} ->
             IF p + 1 > Len(data) \/ c = Unsuited THEN Wrong ELSE Read(Number(t, c), p + 2, k + 1)
      [] t \in {TagBytes, TagStr} ->
             IF p + 1 > Len(data) \/ p + 1 + c > Len(data) \/ (t = TagStr /\ Contains(x, Unsuited))
             THEN Wrong ELSE Read(Text(t, x), p + 2 + c, k + 1)
      [] t \in {TagList, TagMap} ->
             IF p + 1 > Len(data) \/ ~LeavesRoom(c, t, max - k - 1) THEN Wrong
             ELSE ReadGroup(nested, t, c, p + 2, k + 1)
      [] OTHER -> Wrong

\* What the reader does where a token is.
LEMMA ReadByTag ==
    ASSUME NEW data \in Seq(Nat), NEW max \in Nat, NEW nested, NEW p \in Nat, NEW k \in Nat,
           k < max, p <= Len(data)
    PROVE  ReadValue(data, max, nested, p, k) =
               ByTag(data, max, nested, p, k, data[p], data[p + 1],
                     SubSeq(data, p + 2, p + 1 + data[p + 1]))
<1>1. ~(k >= max \/ p > Len(data))
  OBVIOUS
<1> QED
  BY <1>1, Zenon DEF ReadValue, ByTag

\* The first two tokens of what stands in the wire.
LEMMA TokensStand ==
    ASSUME NEW data \in Seq(Nat), NEW p \in Nat \ {0}, NEW bytes \in Seq(Nat), Stands(data, p, bytes)
    PROVE  /\ Len(bytes) >= 1 => p <= Len(data) /\ data[p] = bytes[1]
           /\ Len(bytes) >= 2 => p + 1 <= Len(data) /\ data[p + 1] = bytes[2]
<1>1. Len(bytes) \in Nat /\ Len(data) \in Nat
  OBVIOUS
<1>2. p + Len(bytes) <= Len(data) + 1 /\ \A i \in 1 .. Len(bytes) : data[p + i - 1] = bytes[i]
  BY DEF Stands
<1>3. ASSUME Len(bytes) >= 1 PROVE p <= Len(data) /\ data[p] = bytes[1]
  <2>1. 1 \in 1 .. Len(bytes) /\ p + 1 - 1 = p /\ p <= Len(data)
    BY <1>1, <1>2, <1>3
  <2> QED
    BY <1>2, <2>1
<1>4. ASSUME Len(bytes) >= 2 PROVE p + 1 <= Len(data) /\ data[p + 1] = bytes[2]
  <2>1. 2 \in 1 .. Len(bytes) /\ p + 2 - 1 = p + 1 /\ p + 1 <= Len(data)
    BY <1>1, <1>2, <1>4
  <2> QED
    BY <1>2, <2>1
<1> QED
  BY <1>3, <1>4

\* Two tokens in a row.
LEMMA PairJoined ==
    ASSUME NEW x \in Nat, NEW y \in Nat
    PROVE  <<x>> \o <<y>> = <<x, y>>
<1> DEFINE s == <<x>> \o <<y>>
<1>1. <<x>> \in Seq(Nat) /\ <<y>> \in Seq(Nat) /\ Len(<<x>>) = 1 /\ Len(<<y>>) = 1
  OBVIOUS
<1>2. s \in Seq(Nat) /\ Len(s) = 2 /\ s[1] = x /\ s[2] = y
  BY <1>1, ConcatProperties
<1> HIDE DEF s
<1>3. s = <<s[1], s[2]>>
  BY <1>2
<1> QED
  BY <1>2, <1>3 DEF s

\* What is written of a number.
LEMMA NumberForm ==
    ASSUME NEW v, v.tag \in {TagInt64, TagFloat64}, v = Number(v.tag, v.raw[1]), v.raw[1] \in Nat, NEW forms
    PROVE  Form(v, forms) = IF v.raw[1] = Unsuited THEN Refused ELSE Emit(<<v.tag, v.raw[1]>>, 1)
<1> USE DEF TagNull, TagFalse, TagTrue, TagInt64, TagFloat64, TagBytes, TagStr, TagList, TagMap
<1>1. Form(v, forms) = IF v.raw[1] = Unsuited THEN Refused ELSE Emit(<<v.tag>> \o v.raw, 1)
  BY DEF Form
<1>2. PICK x \in Nat : x = v.raw[1]
  OBVIOUS
<1>3. v.raw = <<x>>
  <2>1. v = Number(v.tag, x)
    BY <1>2, Zenon
  <2> QED
    BY <2>1 DEF Number
<1>4. PICK t \in Nat : t = v.tag
  OBVIOUS
<1>5. <<t>> \o <<x>> = <<t, x>>
  BY PairJoined
<1> QED
  BY <1>1, <1>2, <1>3, <1>4, <1>5, Zenon

\* What is written of a value is well formed if its parts are.
LEMMA FormWellFormed ==
    ASSUME NEW v, Shaped(v), NEW forms, \A u \in Nested({v}) : WellFormed(forms[u], 1)
    PROVE  WellFormed(Form(v, forms), 1)
<1> USE DEF TagNull, TagFalse, TagTrue, TagInt64, TagFloat64, TagBytes, TagStr, TagList, TagMap
<1>1. CASE v.tag \in {TagNull, TagFalse, TagTrue}
  <2>1. Form(v, forms) = Emit(<<v.tag>>, 1)
    BY <1>1 DEF Form
  <2>2. <<v.tag>> \in Seq(Nat)
    BY <1>1
  <2> QED
    BY <2>1, <2>2 DEF WellFormed, Emit
<1>2. CASE v.tag \in {TagInt64, TagFloat64}
  <2>1. v = Number(v.tag, v.raw[1]) /\ v.raw[1] \in Nat
    BY <1>2 DEF Shaped, Scalar, Text, Group
  <2>2. Form(v, forms) = Refused \/ Form(v, forms) = Emit(<<v.tag, v.raw[1]>>, 1)
    BY <1>2, <2>1, NumberForm
  <2>3. <<v.tag, v.raw[1]>> \in Seq(Nat)
    BY <1>2, <2>1
  <2> DEFINE e == <<v.tag, v.raw[1]>>
  <2> HIDE DEF e
  <2>4. WellFormed(Refused, 1) /\ WellFormed(Emit(e, 1), 1)
    BY <2>3 DEF WellFormed, Refused, Emit, e
  <2> QED
    BY <2>2, <2>4, Zenon DEF e
<1>3. CASE v.tag \in {TagBytes, TagStr}
  <2>1. v.raw \in Seq(Nat)
    BY <1>3 DEF Shaped, Scalar, Number, Group
  <2> DEFINE e == <<v.tag, Len(v.raw)>> \o v.raw
  <2>2. Form(v, forms) = Refused \/ Form(v, forms) = Emit(e, 1)
    BY <1>3 DEF Form, TextForm
  <2>3. e \in Seq(Nat)
    <3>1. <<v.tag, Len(v.raw)>> \in Seq(Nat)
      BY <1>3, <2>1
    <3> QED
      BY <2>1, <3>1, ConcatProperties
  <2> HIDE DEF e
  <2>4. WellFormed(Refused, 1) /\ WellFormed(Emit(e, 1), 1)
    BY <2>3 DEF WellFormed, Refused, Emit
  <2> QED
    BY <2>2, <2>4, Zenon
<1>4. CASE v.tag \in {TagList, TagMap}
  <2>1. Placed(v)
    BY <1>4, GroupsArePlaced
  <2>2. PICK b : GroupForm(v, forms) = b[Len(Places(v))] /\ BodyChain(v, forms, b)
    BY <2>1, PlacedChain
  <2>3. WellFormed(GroupForm(v, forms), Fewest(v.tag, Len(Places(v))))
    <3>1. Len(Places(v)) \in 0 .. Len(Places(v))
      BY <2>1 DEF Placed
    <3> QED
      BY <2>2, <3>1, BodyForms
  <2>4. Fewest(v.tag, Len(Places(v))) \in Nat /\ 1 <= Fewest(v.tag, Len(Places(v)))
    BY <2>1 DEF Placed, Fewest
  <2>5. WellFormed(GroupForm(v, forms), 1)
    BY <2>3, <2>4 DEF WellFormed
  <2>6. Form(v, forms) = GroupForm(v, forms)
    BY <1>4 DEF Form
  <2> QED
    BY <2>5, <2>6
<1>5. v.tag \in {TagNull, TagFalse, TagTrue, TagInt64, TagFloat64, TagBytes, TagStr, TagList, TagMap}
  <2>1. v = Group(TagList, v.parts) => v.tag = TagList
    BY DEF Group
  <2>2. v = Group(TagMap, v.parts) => v.tag = TagMap
    BY DEF Group
  <2> QED
    BY <2>1, <2>2 DEF Shaped
<1> QED
  BY <1>1, <1>2, <1>3, <1>4, <1>5

\* What is written of v is read back, wherever it stands.
FormBack(data, max, nested, v, form, p, k) ==
    ReadValue(data, max, nested, p, k) = Expected(max, v, form, p, k)

\* A scalar or a number is read back.
LEMMA FewTokensBack ==
    ASSUME NEW data \in Seq(Nat), NEW max \in Nat, NEW nested, NEW forms, NEW v, Shaped(v),
           v.tag \in {TagNull, TagFalse, TagTrue, TagInt64, TagFloat64}, Form(v, forms).ok,
           NEW p \in Nat \ {0}, NEW k \in Nat, k < max, Stands(data, p, Form(v, forms).bytes)
    PROVE  FormBack(data, max, nested, v, Form(v, forms), p, k)
<1> USE DEF TagNull, TagFalse, TagTrue, TagInt64, TagFloat64, TagBytes, TagStr, TagList, TagMap
<1>1. CASE v.tag \in {TagNull, TagFalse, TagTrue}
  <2>1. v = Scalar(v.tag)
    BY <1>1 DEF Shaped, Number, Text, Group
  <2>2. Form(v, forms) = Emit(<<v.tag>>, 1)
    BY <1>1 DEF Form
  <2> DEFINE t == v.tag
             e == <<t>>
  <2>3. e \in Seq(Nat) /\ Len(e) = 1 /\ e[1] = t /\ t \in Nat
    BY <1>1
  <2>4. Form(v, forms).bytes = e /\ Form(v, forms).items = 1
    <3> HIDE DEF e
    <3> QED
      BY <2>2 DEF e, Emit
  <2>5. p <= Len(data) /\ data[p] = t
    <3> HIDE DEF e
    <3> QED
      <4>1. Stands(data, p, e)
        BY <2>4, Zenon
      <4>2. e \in Seq(Nat) /\ Len(e) >= 1
        BY <2>3
      <4>3. p <= Len(data) /\ data[p] = e[1]
        <5> HIDE DEF t
        <5> QED
          BY <4>1, <4>2, TokensStand
      <4> QED
        BY <2>3, <4>3
  <2>6. ReadValue(data, max, nested, p, k) = Read(Scalar(t), p + 1, k + 1)
    <3>1. ReadValue(data, max, nested, p, k) =
              ByTag(data, max, nested, p, k, t, data[p + 1],
                    SubSeq(data, p + 2, p + 1 + data[p + 1]))
      BY <2>5, ReadByTag
    <3>2. t \in {TagNull, TagFalse, TagTrue}
      BY <1>1
    <3> HIDE DEF t
    <3>3. t \notin {TagInt64, TagFloat64} /\ t \notin {TagBytes, TagStr} /\ t \notin {TagList, TagMap}
      BY <3>2
    <3>4. \A c, x : ByTag(data, max, nested, p, k, t, c, x) = Read(Scalar(t), p + 1, k + 1)
      BY <3>2, <3>3 DEF ByTag
    <3> QED
      BY <3>1, <3>4, Zenon
  <2>7. k + 1 <= max
    OBVIOUS
  <2> HIDE DEF e
  <2>8. Expected(max, v, Form(v, forms), p, k) = Read(v, p + 1, k + 1)
    BY <2>3, <2>4, <2>7 DEF Expected
  <2> QED
    BY <2>1, <2>6, <2>8 DEF FormBack
<1>2. CASE v.tag \in {TagInt64, TagFloat64}
  <2>1. v = Number(v.tag, v.raw[1]) /\ v.raw[1] \in Nat
    BY <1>2 DEF Shaped, Scalar, Text, Group
  <2>2. Form(v, forms) = IF v.raw[1] = Unsuited THEN Refused ELSE Emit(<<v.tag, v.raw[1]>>, 1)
    BY <1>2, <2>1, NumberForm, SMTT(30)
  <2> DEFINE t == v.tag
             c == v.raw[1]
             e == <<t, c>>
  <2>3. e \in Seq(Nat) /\ Len(e) = 2 /\ e[1] = t /\ e[2] = c /\ t \in Nat
    BY <1>2, <2>1
  <2> HIDE DEF e
  <2>4. c # Unsuited /\ Form(v, forms).bytes = e /\ Form(v, forms).items = 1
    BY <2>2 DEF e, Emit, Refused
  <2>5. p <= Len(data) /\ data[p] = t /\ p + 1 <= Len(data) /\ data[p + 1] = c
    <3>1. Stands(data, p, e)
      BY <2>4, Zenon
    <3>2. e \in Seq(Nat) /\ Len(e) >= 1 /\ Len(e) >= 2
      BY <2>3
    <3>3. p <= Len(data) /\ data[p] = e[1] /\ p + 1 <= Len(data) /\ data[p + 1] = e[2]
      <4> HIDE DEF t, c
      <4> QED
        BY <3>1, <3>2, TokensStand, SMTT(30)
    <3> QED
      BY <2>3, <3>3
  <2>6. ReadValue(data, max, nested, p, k) = Read(Number(t, c), p + 2, k + 1)
    <3>1. ReadValue(data, max, nested, p, k) =
              ByTag(data, max, nested, p, k, t, c, SubSeq(data, p + 2, p + 1 + c))
      BY <2>5, ReadByTag
    <3>2. t \in {TagInt64, TagFloat64} /\ c # Unsuited
      BY <1>2, <2>4
    <3>3. ~(p + 1 > Len(data))
      BY <2>5
    <3> HIDE DEF t, c
    <3>4. t \notin {TagNull, TagFalse, TagTrue} /\ t \notin {TagBytes, TagStr} /\ t \notin {TagList, TagMap}
      BY <3>2
    <3>5. \A x : ByTag(data, max, nested, p, k, t, c, x) = Read(Number(t, c), p + 2, k + 1)
      BY <3>2, <3>3, <3>4 DEF ByTag
    <3> QED
      BY <3>1, <3>5, Zenon
  <2>7. k + 1 <= max
    OBVIOUS
  <2>8. Expected(max, v, Form(v, forms), p, k) = Read(v, p + 2, k + 1)
    BY <2>3, <2>4, <2>7 DEF Expected
  <2> QED
    BY <2>1, <2>6, <2>8 DEF FormBack
<1> QED
  BY <1>1, <1>2

\* The parts of v are read back, if it has any.
LEMMA FormReadBack ==
    ASSUME NEW data \in Seq(Nat), NEW max \in Nat, NEW nested, NEW forms, NEW v, Shaped(v),
           PartsBack(data, max, nested, v, forms), Form(v, forms).ok,
           NEW p \in Nat \ {0}, NEW k \in Nat, Stands(data, p, Form(v, forms).bytes)
    PROVE  FormBack(data, max, nested, v, Form(v, forms), p, k)
<1> DEFINE form == Form(v, forms)
<1>1. WellFormed(form, 1)
  BY FormWellFormed DEF PartsBack
<1>2. form.items \in Nat /\ 1 <= form.items
  BY <1>1 DEF WellFormed
<1>3. CASE k >= max
  <2>1. ReadValue(data, max, nested, p, k) = Wrong
    BY <1>3, Zenon DEF ReadValue
  <2>2. ~(k + form.items <= max)
    <3> HIDE DEF form
    <3> QED
      BY <1>2, <1>3
  <2> HIDE DEF form
  <2>3. Expected(max, v, form, p, k) = Wrong
    BY <2>2 DEF Expected
  <2> QED
    BY <2>1, <2>3 DEF FormBack, form
<1>4. ASSUME k < max PROVE FormBack(data, max, nested, v, form, p, k)
  <2>1. CASE v.tag \in {TagNull, TagFalse, TagTrue, TagInt64, TagFloat64}
    BY <1>4, <2>1, FewTokensBack
  <2>2. CASE v.tag \in {TagBytes, TagStr}
    <3>1. v = Text(v.tag, v.raw) /\ v.raw \in Seq(Nat)
      BY <2>2 DEF Shaped, Scalar, Number, Group, TagNull, TagFalse, TagTrue, TagInt64, TagFloat64,
                  TagBytes, TagStr, TagList, TagMap
    <3>2. form = TextForm(v.tag, v.raw)
      BY <2>2 DEF Form, TagNull, TagFalse, TagTrue, TagInt64, TagFloat64, TagBytes, TagStr, TagList, TagMap
    <3>3. ~(v.tag = TagStr /\ Contains(v.raw, Unsuited))
      BY <3>2 DEF TextForm, Refused
    <3> DEFINE t == v.tag
               x == v.raw
    <3> HIDE DEF t, x
    <3>4. /\ t \in {TagBytes, TagStr} /\ x \in Seq(Nat) /\ ~(t = TagStr /\ Contains(x, Unsuited))
          /\ Stands(data, p, TextForm(t, x).bytes)
      BY <2>2, <3>1, <3>2, <3>3 DEF t, x
    <3>5. TextFits(data, max, nested, t, x, p, k)
      BY <3>4, TextReadBack
    <3> QED
      BY <3>1, <3>2, <3>5 DEF TextFits, FormBack, t, x
  <2>3. CASE v.tag \in {TagList, TagMap}
    <3>1. Placed(v)
      BY <2>3, GroupsArePlaced
    <3>2. form = GroupForm(v, forms)
      BY <2>3 DEF Form, TagNull, TagFalse, TagTrue, TagInt64, TagFloat64, TagBytes, TagStr, TagList, TagMap
    <3> DEFINE t == v.tag
               n == Len(Places(v))
    <3>3. GroupBack(data, max, nested, v, form, p, k)
      BY <1>4, <3>1, <3>2, GroupReadBack
    <3> HIDE DEF form
    <3>4. /\ p + 1 <= Len(data) /\ data[p] = t /\ data[p + 1] = n
          /\ IF k + form.items <= max
             THEN LeavesRoom(n, t, max - k - 1)
                  /\ ReadGroup(nested, t, n, p + 2, k + 1) = Read(v, p + Len(form.bytes), k + form.items)
             ELSE ReadGroup(nested, t, n, p + 2, k + 1) = Wrong
      BY <3>3, Zenon DEF GroupBack
    <3>5. p <= Len(data) /\ ~(p + 1 > Len(data))
      BY <3>4
    <3>6. ReadValue(data, max, nested, p, k) =
              ByTag(data, max, nested, p, k, t, n, SubSeq(data, p + 2, p + 1 + n))
      <4>1. ReadValue(data, max, nested, p, k) =
                ByTag(data, max, nested, p, k, data[p], data[p + 1],
                      SubSeq(data, p + 2, p + 1 + data[p + 1]))
        BY <1>4, <3>5, ReadByTag
      <4> QED
        BY <3>4, <4>1, Zenon
    <3> HIDE DEF t, n
    <3>7. /\ t \in {TagList, TagMap} /\ t \notin {TagNull, TagFalse, TagTrue}
          /\ t \notin {TagInt64, TagFloat64} /\ t \notin {TagBytes, TagStr}
      BY <2>3 DEF t, TagNull, TagFalse, TagTrue, TagInt64, TagFloat64, TagBytes, TagStr, TagList, TagMap
    <3>8. \A x : ByTag(data, max, nested, p, k, t, n, x) =
                     IF p + 1 > Len(data) \/ ~LeavesRoom(n, t, max - k - 1) THEN Wrong
                     ELSE ReadGroup(nested, t, n, p + 2, k + 1)
      BY <3>7 DEF ByTag
    <3>9. ReadValue(data, max, nested, p, k) = Expected(max, v, form, p, k)
      <4>1. ReadValue(data, max, nested, p, k) =
                IF p + 1 > Len(data) \/ ~LeavesRoom(n, t, max - k - 1) THEN Wrong
                ELSE ReadGroup(nested, t, n, p + 2, k + 1)
        BY <3>6, <3>8, Zenon
      <4>2. CASE k + form.items <= max
        <5>1. ReadValue(data, max, nested, p, k) = Read(v, p + Len(form.bytes), k + form.items)
          BY <3>4, <3>5, <4>1, <4>2, Zenon
        <5> QED
          BY <4>2, <5>1, Zenon DEF Expected
      <4>3. CASE ~(k + form.items <= max)
        <5>1. ReadValue(data, max, nested, p, k) = Wrong
          BY <3>4, <4>1, <4>3, Zenon
        <5> QED
          BY <4>3, <5>1, Zenon DEF Expected
      <4> QED
        BY <4>2, <4>3
    <3> QED
      BY <3>9 DEF FormBack
  <2>4. v.tag \in {TagNull, TagFalse, TagTrue, TagInt64, TagFloat64, TagBytes, TagStr, TagList, TagMap}
    <3>1. v = Group(TagList, v.parts) => v.tag = TagList
      BY DEF Group
    <3>2. v = Group(TagMap, v.parts) => v.tag = TagMap
      BY DEF Group
    <3> QED
      BY <3>1, <3>2 DEF Shaped
  <2> QED
    BY <2>1, <2>2, <2>3, <2>4
<1> QED
  BY <1>3, <1>4

\* Nothing in w itself keeps it from being written.
Plain(w) ==
    /\ w.tag \in {TagInt64, TagFloat64} => w.raw[1] # Unsuited
    /\ w.tag = TagStr => ~Contains(w.raw, Unsuited)
    /\ w.tag = TagMap => \A key \in DOMAIN w.parts : ~Contains(key, Unsuited)

\* A value has one of nine tags.
LEMMA ShapedTags ==
    ASSUME NEW v, Shaped(v)
    PROVE  v.tag \in {TagNull, TagFalse, TagTrue, TagInt64, TagFloat64, TagBytes, TagStr, TagList, TagMap}
<1>1. v = Group(TagList, v.parts) => v.tag = TagList
  BY DEF Group
<1>2. v = Group(TagMap, v.parts) => v.tag = TagMap
  BY DEF Group
<1> QED
  BY <1>1, <1>2 DEF Shaped

\* In a scalar, a number or a string nothing is nested.
LEMMA NothingNested ==
    ASSUME NEW v, Shaped(v), v.tag \notin {TagList, TagMap}
    PROVE  Nested({v}) = {}
<1>1. v.parts = <<>>
  <2>1. v = Scalar(v.tag) \/ v = Number(v.tag, v.raw[1]) \/ v = Text(v.tag, v.raw)
    BY DEF Shaped, Group
  <2> QED
    BY <2>1 DEF Scalar, Number, Text
<1>2. DOMAIN v.parts = {}
  BY <1>1
<1> QED
  BY <1>2 DEF Nested

\* A list or a map is written if its keys and its parts are.
LEMMA GroupOk ==
    ASSUME NEW v, Placed(v), NEW forms, \A u \in Nested({v}) : WellFormed(forms[u], 1)
    PROVE  GroupForm(v, forms).ok <=> Plain(v) /\ \A u \in Nested({v}) : forms[u].ok
<1> DEFINE n == Len(Places(v))
           key(i) == KeyForm(v.tag, Places(v)[i])
           part(i) == forms[v.parts[Places(v)[i]]]
<1>1. PICK b : GroupForm(v, forms) = b[n] /\ BodyChain(v, forms, b)
  BY PlacedChain
<1>2. n \in Nat /\ n \in 0 .. n
  BY DEF Placed
<1>3. GroupForm(v, forms).ok <=> \A i \in 1 .. n : PartForm(v, forms, i).ok
  BY <1>1, <1>2, BodyOk
<1>4. \A i \in 1 .. n : PartForm(v, forms, i).ok <=> key(i).ok /\ part(i).ok
  BY DEF PartForm, Joined, Emit, Refused
<1>5. \A i \in 1 .. n : key(i).ok <=> (v.tag = TagMap => ~Contains(Places(v)[i], Unsuited))
  BY DEF KeyForm, TextForm, Emit, Refused
<1>6. DOMAIN v.parts = {Places(v)[i] : i \in 1 .. n}
  BY DEF Placed
<1>7. Plain(v) <=> \A i \in 1 .. n : key(i).ok
  <2>1. v.tag \notin {TagInt64, TagFloat64} /\ v.tag # TagStr
    BY DEF Placed, TagList, TagMap, TagInt64, TagFloat64, TagStr
  <2>2. Plain(v) <=> (v.tag = TagMap => \A x \in DOMAIN v.parts : ~Contains(x, Unsuited))
    BY <2>1 DEF Plain
  <2> QED
    BY <1>5, <1>6, <2>2
<1>8. (\A u \in Nested({v}) : forms[u].ok) <=> \A i \in 1 .. n : part(i).ok
  <2>1. Nested({v}) = {v.parts[x] : x \in DOMAIN v.parts}
    BY DEF Nested
  <2>2. \A u : u \in Nested({v}) <=> \E i \in 1 .. n : u = v.parts[Places(v)[i]]
    BY <1>6, <2>1
  <2> QED
    BY <2>2
<1> HIDE DEF n, key, part
<1> QED
  BY <1>3, <1>4, <1>7, <1>8

\* A value is written if it can be and its parts are.
LEMMA FormOk ==
    ASSUME NEW v, Shaped(v), NEW forms, \A u \in Nested({v}) : WellFormed(forms[u], 1)
    PROVE  Form(v, forms).ok <=> Plain(v) /\ \A u \in Nested({v}) : forms[u].ok
<1> USE DEF TagNull, TagFalse, TagTrue, TagInt64, TagFloat64, TagBytes, TagStr, TagList, TagMap
<1>1. CASE v.tag \in {TagNull, TagFalse, TagTrue}
  <2>1. Form(v, forms).ok
    BY <1>1 DEF Form, Emit
  <2>2. Plain(v)
    BY <1>1 DEF Plain
  <2> QED
    BY <1>1, <2>1, <2>2, NothingNested
<1>2. CASE v.tag \in {TagInt64, TagFloat64}
  <2>1. v = Number(v.tag, v.raw[1]) /\ v.raw[1] \in Nat
    BY <1>2 DEF Shaped, Scalar, Text, Group
  <2>2. Form(v, forms) = IF v.raw[1] = Unsuited THEN Refused ELSE Emit(<<v.tag, v.raw[1]>>, 1)
    BY <1>2, <2>1, NumberForm
  <2>3. Form(v, forms).ok <=> v.raw[1] # Unsuited
    BY <2>2 DEF Emit, Refused
  <2>4. Plain(v) <=> v.raw[1] # Unsuited
    BY <1>2 DEF Plain
  <2> QED
    BY <1>2, <2>3, <2>4, NothingNested
<1>3. CASE v.tag \in {TagBytes, TagStr}
  <2>1. Form(v, forms) = TextForm(v.tag, v.raw)
    BY <1>3 DEF Form
  <2>2. Form(v, forms).ok <=> ~(v.tag = TagStr /\ Contains(v.raw, Unsuited))
    <3>1. \A t, x : TextForm(t, x).ok <=> ~(t = TagStr /\ Contains(x, Unsuited))
      BY DEF TextForm, Emit, Refused
    <3> QED
      BY <2>1, <3>1
  <2>3. Plain(v) <=> ~(v.tag = TagStr /\ Contains(v.raw, Unsuited))
    BY <1>3 DEF Plain
  <2> QED
    BY <1>3, <2>2, <2>3, NothingNested
<1>4. CASE v.tag \in {TagList, TagMap}
  <2>1. Form(v, forms) = GroupForm(v, forms)
    BY <1>4 DEF Form
  <2> QED
    BY <1>4, <2>1, GroupsArePlaced, GroupOk
<1> QED
  BY <1>1, <1>2, <1>3, <1>4, ShapedTags

\* What the level below gives: its values are well formed, and read back where
\* they were written.
LevelBack(data, max, nested, forms, S) ==
    \A w \in S : WellFormed(forms[w], 1) /\ (forms[w].ok => Reads(data, max, nested, w, forms[w]))

\* A value is read back if what is nested in it is.
LEMMA LevelReadBack ==
    ASSUME NEW data \in Seq(Nat), NEW max \in Nat, NEW nested, NEW forms, NEW v, Shaped(v),
           LevelBack(data, max, nested, forms, Nested({v})),
           ReadsTexts(data, max, nested) \/ \A u \in Nested({v}) : ~forms[u].ok
    PROVE  /\ WellFormed(Form(v, forms), 1)
           /\ Form(v, forms).ok => Reads(data, max, NextValues(data, max, nested), v, Form(v, forms))
<1>1. \A u \in Nested({v}) : WellFormed(forms[u], 1)
  BY DEF LevelBack
<1>2. WellFormed(Form(v, forms), 1)
  BY <1>1, FormWellFormed
<1>3. ASSUME Form(v, forms).ok,
             NEW p \in Nat \ {0}, NEW k \in Nat, Stands(data, p, Form(v, forms).bytes)
      PROVE  NextValues(data, max, nested)[<<p, k>>] = Expected(max, v, Form(v, forms), p, k)
  <2>1. \A u \in Nested({v}) : forms[u].ok
    BY <1>1, <1>3, FormOk
  <2>2. PartsBack(data, max, nested, v, forms)
    BY <2>1 DEF PartsBack, LevelBack
  <2>3. FormBack(data, max, nested, v, Form(v, forms), p, k)
    BY <1>3, <2>2, FormReadBack
  <2>4. NextValues(data, max, nested)[<<p, k>>] = ReadValue(data, max, nested, p, k)
    BY DEF NextValues
  <2> QED
    BY <2>3, <2>4 DEF FormBack
<1> QED
  BY <1>2, <1>3 DEF Reads

\* The forms and the readings of every level, from the deepest up.
FormsChain(v, f) ==
    /\ f[0] = NoForms(v) /\ \A i \in 1 .. MaxDepth + 1 : f[i] = NextForms(v, f[i - 1], i)
ValuesChain(data, max, f) ==
    /\ f[0] = NoValues /\ \A i \in 1 .. MaxDepth + 1 : f[i] = NextValues(data, max, f[i - 1])

\* The level that is entered when n more may be.
Entered(v, n) == Within(v)[MaxDepth + 1 - n]

\* The next level holds what is nested in the values of this one.
LEMMA LevelsNest ==
    ASSUME NEW v, NEW n \in 1 .. MaxDepth + 1
    PROVE  Entered(v, n - 1) = Nested(Entered(v, n))
<1>1. PICK f : Within(v) = f /\ \A i \in 1 .. MaxDepth + 1 : f[i] = Nested(f[i - 1])
  BY WithinSteps DEF WithinRun
<1> DEFINE i == MaxDepth + 1 - (n - 1)
<1>2. i \in 1 .. MaxDepth + 1 /\ i - 1 = MaxDepth + 1 - n
  BY DepthAssumption
<1>3. f[i] = Nested(f[i - 1])
  BY <1>1, <1>2
<1> QED
  BY <1>1, <1>2, <1>3 DEF Entered

\* The values that may be entered are values of Python.
LEMMA EnteredShaped ==
    ASSUME NEW v, IsValue(v), NEW n \in 1 .. MaxDepth + 1, NEW w \in Entered(v, n)
    PROVE  Shaped(w)
<1>1. MaxDepth + 1 - n \in 0 .. MaxDepth
  BY DepthAssumption
<1>2. \A d \in 0 .. MaxDepth : \A u \in Within(v)[d] : Shaped(u)
  BY Zenon DEF IsValue, Shaped
<1> QED
  BY <1>1, <1>2 DEF Entered

\* What is written of a value takes the forms of the level below.
LEMMA EnteredForms ==
    ASSUME NEW v, NEW f, FormsChain(v, f), NEW n \in 1 .. MaxDepth + 1, NEW w \in Entered(v, n)
    PROVE  f[n][w] = Form(w, f[n - 1])
<1>1. f[n] = NextForms(v, f[n - 1], n)
  BY DEF FormsChain
<1>2. f[n] = [u \in Entered(v, n) |-> Form(u, f[n - 1])]
  BY <1>1, Zenon DEF NextForms, Entered
<1> QED
  BY <1>2

\* Whatever is written at a level is read back there: induction from the deepest.
LEMMA EveryLevel ==
    ASSUME NEW data \in Seq(Nat), NEW max \in Nat, NEW v, IsValue(v),
           NEW f, FormsChain(v, f), NEW g, ValuesChain(data, max, g)
    PROVE  \A n \in 0 .. MaxDepth + 1 : LevelBack(data, max, g[n], f[n], Entered(v, n))
<1> DEFINE T == {n \in Nat : n <= MaxDepth + 1 => LevelBack(data, max, g[n], f[n], Entered(v, n))}
<1>1. \A w \in Entered(v, 0) : f[0][w] = Refused
  <2>1. f[0] = [w \in Entered(v, 0) |-> Refused]
    <3>1. MaxDepth + 1 - 0 = MaxDepth + 1
      BY DepthAssumption
    <3> QED
      BY <3>1 DEF FormsChain, NoForms, Entered
  <2> QED
    BY <2>1
<1>2. 0 \in T
  <2>1. ~Refused.ok
    BY DEF Refused
  <2>2. LevelBack(data, max, g[0], f[0], Entered(v, 0))
    BY <1>1, <2>1 DEF LevelBack, WellFormed
  <2> QED
    BY <2>2
<1>3. ASSUME NEW n \in T PROVE n + 1 \in T
  <2>1. n \in Nat
    BY <1>3
  <2>2. ASSUME n + 1 <= MaxDepth + 1
        PROVE  LevelBack(data, max, g[n + 1], f[n + 1], Entered(v, n + 1))
    <3>1. n + 1 \in 1 .. MaxDepth + 1 /\ (n + 1) - 1 = n /\ n <= MaxDepth + 1
      BY <2>1, <2>2, DepthAssumption
    <3>2. LevelBack(data, max, g[n], f[n], Entered(v, n))
      BY <1>3, <3>1
    <3>3. Entered(v, n) = Nested(Entered(v, n + 1))
      BY <3>1, LevelsNest
    <3>4. g[n + 1] = NextValues(data, max, g[n])
      BY <3>1 DEF ValuesChain
    <3>5. ReadsTexts(data, max, g[n]) \/ \A u \in Entered(v, n) : ~f[n][u].ok
      <4>1. CASE n = 0
        BY <1>1, <4>1 DEF Refused
      <4>2. CASE n # 0
        <5>1. n \in 1 .. MaxDepth + 1
          BY <2>1, <3>1, <4>2, DepthAssumption
        <5>2. g[n] = NextValues(data, max, g[n - 1])
          BY <5>1 DEF ValuesChain
        <5> QED
          BY <5>2, TextsReadBack
      <4> QED
        BY <4>1, <4>2
    <3>6. ASSUME NEW w \in Entered(v, n + 1)
          PROVE  /\ WellFormed(f[n + 1][w], 1)
                 /\ f[n + 1][w].ok => Reads(data, max, g[n + 1], w, f[n + 1][w])
      <4>1. f[n + 1][w] = Form(w, f[n])
        BY <3>1, EnteredForms
      <4>2. Shaped(w)
        BY <3>1, EnteredShaped
      <4>3. Nested({w}) \subseteq Entered(v, n)
        BY <3>3 DEF Nested
      <4>4. LevelBack(data, max, g[n], f[n], Nested({w}))
        BY <3>2, <4>3 DEF LevelBack
      <4>5. ReadsTexts(data, max, g[n]) \/ \A u \in Nested({w}) : ~f[n][u].ok
        BY <3>5, <4>3
      <4> DEFINE nested == g[n]
                 forms == f[n]
      <4> HIDE DEF nested, forms
      <4>6. LevelBack(data, max, nested, forms, Nested({w}))
            /\ (ReadsTexts(data, max, nested) \/ \A u \in Nested({w}) : ~forms[u].ok)
        BY <4>4, <4>5 DEF nested, forms
      <4>7. /\ WellFormed(Form(w, forms), 1)
            /\ Form(w, forms).ok => Reads(data, max, NextValues(data, max, nested), w, Form(w, forms))
        BY <4>2, <4>6, LevelReadBack
      <4> QED
        BY <3>4, <4>1, <4>7 DEF nested, forms
    <3> QED
      BY <3>6 DEF LevelBack
  <2> QED
    BY <2>1, <2>2
<1>4. T \in SUBSET Nat
  OBVIOUS
<1>5. T = Nat
  <2> HIDE DEF T
  <2> QED
    BY <1>2, <1>3, <1>4, Induction
<1> QED
  BY <1>5

\* What is written is read back wherever it stands, when as deep as allowed.
LEMMA WrittenIsRead ==
    ASSUME NEW v, IsValue(v)
    PROVE  /\ WellFormed(Encode(v), 1)
           /\ \A data \in Seq(Nat), max \in Nat : \A g :
                  ValuesChain(data, max, g) /\ Encode(v).ok =>
                      Reads(data, max, g[MaxDepth + 1], v, Encode(v))
<1>1. PICK f : Encode(v) = f[MaxDepth + 1][v] /\ FormsChain(v, f)
  BY FormsSteps DEF FormsRun, FormsChain
<1>2. v \in Entered(v, MaxDepth + 1) /\ MaxDepth + 1 \in 0 .. MaxDepth + 1
  <2>1. MaxDepth + 1 - (MaxDepth + 1) = 0
    BY DepthAssumption
  <2>2. Within(v)[0] = {v}
    BY WithinSteps DEF WithinRun
  <2> QED
    BY <2>1, <2>2, DepthAssumption DEF Entered
<1>3. ASSUME NEW data \in Seq(Nat), NEW max \in Nat, NEW g, ValuesChain(data, max, g)
      PROVE  /\ WellFormed(Encode(v), 1)
             /\ Encode(v).ok => Reads(data, max, g[MaxDepth + 1], v, Encode(v))
  <2>1. LevelBack(data, max, g[MaxDepth + 1], f[MaxDepth + 1], Entered(v, MaxDepth + 1))
    BY <1>1, <1>2, <1>3, EveryLevel
  <2> QED
    BY <1>1, <1>2, <2>1 DEF LevelBack
<1>4. WellFormed(Encode(v), 1)
  <2>1. <<>> \in Seq(Nat) /\ 0 \in Nat
    OBVIOUS
  <2>2. PICK g : ValuesChain(<<>>, 0, g)
    <3>1. ValuesRun(<<>>, 0)
      BY ValuesSteps, Zenon
    <3> QED
      BY <3>1, Zenon DEF ValuesRun, ValuesChain
  <2> QED
    BY <1>3, <2>1, <2>2
<1> QED
  BY <1>3, <1>4

\* A value is written or it is not.
LEMMA FormBoolean ==
    ASSUME NEW v, Shaped(v), NEW forms, \A u \in Nested({v}) : WellFormed(forms[u], 1)
    PROVE  Form(v, forms).ok \in BOOLEAN
<1> USE DEF TagNull, TagFalse, TagTrue, TagInt64, TagFloat64, TagBytes, TagStr, TagList, TagMap
<1>1. Refused.ok \in BOOLEAN /\ \A x, y : Emit(x, y).ok \in BOOLEAN
  BY DEF Refused, Emit
<1>2. CASE v.tag \in {TagNull, TagFalse, TagTrue}
  BY <1>1, <1>2 DEF Form
<1>3. CASE v.tag \in {TagInt64, TagFloat64}
  <2>1. v = Number(v.tag, v.raw[1]) /\ v.raw[1] \in Nat
    BY <1>3 DEF Shaped, Scalar, Text, Group
  <2>2. Form(v, forms) = IF v.raw[1] = Unsuited THEN Refused ELSE Emit(<<v.tag, v.raw[1]>>, 1)
    BY <1>3, <2>1, NumberForm
  <2>3. Form(v, forms) = Refused \/ Form(v, forms) = Emit(<<v.tag, v.raw[1]>>, 1)
    BY <2>2
  <2> QED
    BY <1>1, <2>3, Zenon
<1>4. CASE v.tag \in {TagBytes, TagStr}
  <2>1. Form(v, forms) = TextForm(v.tag, v.raw)
    BY <1>4 DEF Form
  <2>2. \A t, x : TextForm(t, x).ok \in BOOLEAN
    BY <1>1, Zenon DEF TextForm
  <2> QED
    BY <2>1, <2>2, Zenon
<1>5. CASE v.tag \in {TagList, TagMap}
  <2> DEFINE n == Len(Places(v))
  <2>1. Placed(v) /\ Form(v, forms) = GroupForm(v, forms)
    BY <1>5, GroupsArePlaced DEF Form
  <2>2. PICK b : GroupForm(v, forms) = b[n] /\ BodyChain(v, forms, b)
    BY <2>1, PlacedChain
  <2>3. CASE n = 0
    <3>1. b[0] = Emit(<<v.tag, Len(Places(v))>>, 1)
      BY <2>2, Zenon DEF BodyChain
    <3> QED
      BY <1>1, <2>1, <2>2, <2>3, <3>1, Zenon
  <2>4. CASE n # 0
    <3>1. n \in 1 .. n
      BY <2>1, <2>4 DEF Placed
    <3>2. b[n] = Joined(b[n - 1], PartForm(v, forms, n))
      BY <2>2, <3>1, Zenon DEF BodyChain
    <3>3. \A x, y : Joined(x, y).ok \in BOOLEAN
      BY <1>1, Zenon DEF Joined
    <3> QED
      BY <2>1, <2>2, <3>2, <3>3, Zenon
  <2> QED
    BY <2>3, <2>4
<1> QED
  BY <1>2, <1>3, <1>4, <1>5, ShapedTags

\* A value is written exactly when it is writable and not too deep.
LEMMA WhenWritten ==
    ASSUME NEW v, IsValue(v)
    PROVE  Encode(v).ok = (Writable(v) /\ Within(v)[MaxDepth + 1] = {})
<1> DEFINE M == MaxDepth + 1
<1>1. M \in Nat /\ M \in 1 .. M /\ M - M = 0 /\ M - 0 = M
  BY DepthAssumption
<1>2. PICK f : Encode(v) = f[M][v] /\ FormsChain(v, f)
  BY FormsSteps DEF FormsRun, FormsChain
<1>3. Entered(v, M) = {v} /\ Entered(v, 0) = Within(v)[M]
  <2>1. Within(v)[0] = {v}
    BY WithinSteps DEF WithinRun
  <2> QED
    BY <1>1, <2>1, DepthAssumption DEF Entered
<1>4. ASSUME NEW n \in 0 .. M, NEW w \in Entered(v, n)
      PROVE  WellFormed(f[n][w], 1)
  <2>1. PICK g : ValuesChain(<<>>, 0, g)
    <3>1. ValuesRun(<<>>, 0)
      BY ValuesSteps, Zenon
    <3> QED
      BY <3>1, Zenon DEF ValuesRun, ValuesChain
  <2>2. LevelBack(<<>>, 0, g[n], f[n], Entered(v, n))
    <3>1. <<>> \in Seq(Nat) /\ 0 \in Nat /\ n \in 0 .. MaxDepth + 1
      OBVIOUS
    <3> QED
      BY <1>2, <2>1, <3>1, EveryLevel
  <2> QED
    BY <2>2 DEF LevelBack
<1> DEFINE AllOk(n) == \A w \in Entered(v, n) : f[n][w].ok
           AllPlain(n) == \A w \in Entered(v, n) : Plain(w)
           T == {n \in Nat : n <= M => (AllOk(n) <=> Entered(v, 0) = {} /\ \A m \in 1 .. n : AllPlain(m))}
<1>5. ASSUME NEW n \in 1 .. M, NEW w \in Entered(v, n)
      PROVE  /\ f[n][w].ok <=> Plain(w) /\ \A u \in Nested({w}) : f[n - 1][u].ok
             /\ f[n][w].ok \in BOOLEAN
  <2>1. f[n][w] = Form(w, f[n - 1]) /\ Shaped(w) /\ Entered(v, n - 1) = Nested(Entered(v, n))
    BY <1>2, EnteredForms, EnteredShaped, LevelsNest
  <2>2. n - 1 \in 0 .. M
    BY <1>1
  <2>3. \A u \in Nested({w}) : u \in Entered(v, n - 1)
    BY <2>1 DEF Nested
  <2> DEFINE forms == f[n - 1]
  <2>4. \A u \in Nested({w}) : WellFormed(forms[u], 1)
    BY <1>4, <2>2, <2>3
  <2> HIDE DEF forms
  <2>5. /\ Form(w, forms).ok <=> Plain(w) /\ \A u \in Nested({w}) : forms[u].ok
        /\ Form(w, forms).ok \in BOOLEAN
    BY <2>1, <2>4, FormOk, FormBoolean
  <2> QED
    BY <2>1, <2>5 DEF forms
<1>6. 0 \in T
  <2>1. \A w \in Entered(v, 0) : ~f[0][w].ok
    <3>1. f[0] = [w \in Entered(v, 0) |-> Refused]
      BY <1>1, <1>2, <1>3 DEF FormsChain, NoForms
    <3> QED
      BY <3>1 DEF Refused
  <2> QED
    BY <2>1
<1>7. ASSUME NEW n \in T PROVE n + 1 \in T
  <2>1. n \in Nat
    BY <1>7
  <2>2. ASSUME n + 1 <= M
        PROVE  AllOk(n + 1) <=> Entered(v, 0) = {} /\ \A m \in 1 .. n + 1 : AllPlain(m)
    <3>1. n + 1 \in 1 .. M /\ (n + 1) - 1 = n /\ n <= M
      BY <2>1, <2>2, <1>1
    <3>2. AllOk(n) <=> Entered(v, 0) = {} /\ \A m \in 1 .. n : AllPlain(m)
      BY <1>7, <3>1
    <3>3. Entered(v, n) = Nested(Entered(v, n + 1))
      BY <3>1, LevelsNest
    <3>4. \A u : u \in Entered(v, n) <=> \E w \in Entered(v, n + 1) : u \in Nested({w})
      BY <3>3 DEF Nested
    <3>5. \A w \in Entered(v, n + 1) :
              f[n + 1][w].ok <=> Plain(w) /\ \A u \in Nested({w}) : f[n][u].ok
      BY <1>5, <3>1
    <3>6. AllOk(n + 1) <=> AllPlain(n + 1) /\ AllOk(n)
      BY <3>4, <3>5
    <3>7. \A m : m \in 1 .. n + 1 <=> m \in 1 .. n \/ m = n + 1
      BY <2>1
    <3> HIDE DEF AllOk, AllPlain
    <3> QED
      BY <3>2, <3>6, <3>7
  <2> QED
    BY <2>1, <2>2
<1>8. M \in T
  <2>1. T \in SUBSET Nat
    OBVIOUS
  <2> HIDE DEF T
  <2>2. T = Nat
    BY <1>6, <1>7, <2>1, Induction
  <2> QED
    BY <1>1, <2>2
<1>9. Writable(v) <=> \A m \in 1 .. M : AllPlain(m)
  <2>1. Writable(v) <=> \A d \in 0 .. MaxDepth : \A w \in Within(v)[d] : Plain(w)
    BY Zenon DEF Writable, Plain
  <2>2. \A m \in 1 .. M : M - m \in 0 .. MaxDepth /\ m \in Nat
    BY DepthAssumption
  <2>3. \A d \in 0 .. MaxDepth : M - d \in 1 .. M /\ M - (M - d) = d /\ M - d \in Nat
    BY DepthAssumption
  <2>4. \A m \in Nat : AllPlain(m) <=> \A w \in Within(v)[M - m] : Plain(w)
    <3>1. \A m \in Nat : Entered(v, m) = Within(v)[M - m]
      BY DepthAssumption DEF Entered
    <3> HIDE DEF M
    <3> QED
      BY <3>1
  <2> HIDE DEF M, AllPlain
  <2>5. ASSUME Writable(v), NEW m \in 1 .. M PROVE AllPlain(m)
    BY <2>1, <2>2, <2>4, <2>5
  <2>6. ASSUME \A m \in 1 .. M : AllPlain(m), NEW d \in 0 .. MaxDepth
        PROVE  \A w \in Within(v)[d] : Plain(w)
    <3>1. M - d \in 1 .. M /\ M - (M - d) = d /\ M - d \in Nat
      BY <2>3
    <3>2. AllPlain(M - d)
      BY <2>6, <3>1
    <3>3. \A w \in Within(v)[M - (M - d)] : Plain(w)
      BY <2>4, <3>1, <3>2
    <3> QED
      BY <3>1, <3>3
  <2> QED
    BY <2>1, <2>5, <2>6
<1>10. AllOk(M) <=> Entered(v, 0) = {} /\ \A m \in 1 .. M : AllPlain(m)
  BY <1>1, <1>8
<1>11. AllOk(M) <=> Encode(v).ok
  BY <1>2, <1>3
<1>12. Encode(v).ok \in BOOLEAN
  BY <1>1, <1>2, <1>3, <1>5
<1> HIDE DEF AllOk, AllPlain, M
<1> QED
  BY <1>3, <1>9, <1>10, <1>11, <1>12 DEF M
-----------------------------------------------------------------------------
(* The envelope, and a message with a value in it.                         *)

\* A header of five tokens and what follows it.
LEMMA BehindFive ==
    ASSUME NEW head \in Seq(Nat), NEW tail \in Seq(Nat)
    PROVE  Len(head) = 5 =>
           /\ head \o tail \in Seq(Nat) /\ Len(head \o tail) = 5 + Len(tail) /\ Len(tail) \in Nat
           /\ \A i \in 1 .. 5 + Len(tail) : (head \o tail)[i] = IF i <= 5 THEN head[i] ELSE tail[i - 5]
<1> DEFINE c == head \o tail
<1>1. /\ c \in Seq(Nat) /\ Len(c) = Len(head) + Len(tail) /\ Len(tail) \in Nat
      /\ \A i \in 1 .. Len(head) + Len(tail) :
             c[i] = IF i <= Len(head) THEN head[i] ELSE tail[i - Len(head)]
  BY ConcatProperties
<1> HIDE DEF c
<1>2. Len(head) = 5 =>
      /\ c \in Seq(Nat) /\ Len(c) = 5 + Len(tail) /\ Len(tail) \in Nat
      /\ \A i \in 1 .. 5 + Len(tail) : c[i] = IF i <= 5 THEN head[i] ELSE tail[i - 5]
  BY <1>1
<1> QED
  BY <1>2 DEF c

\* An envelope gives back what was put in it.
LEMMA EnvelopeOpens ==
    ASSUME NEW payload \in Seq(Nat), NEW type \in Nat, NEW flags \in Nat
    PROVE  DecodeEnvelope(EncodeEnvelope(payload, type, flags), Len(payload)) =
               [ok |-> TRUE, type |-> type, flags |-> flags, payload |-> payload]
<1> DEFINE head == <<Magic, Version, type, flags, Len(payload)>>
           data == head \o payload
<1>1. /\ head \in Seq(Nat) /\ Len(head) = 5 /\ head[1] = Magic /\ head[2] = Version
      /\ head[3] = type /\ head[4] = flags /\ head[5] = Len(payload)
  BY DEF Magic, Version
<1> HIDE DEF head
<1>2. /\ data \in Seq(Nat) /\ Len(data) = 5 + Len(payload) /\ Len(payload) \in Nat
      /\ \A i \in 1 .. 5 + Len(payload) : data[i] = IF i <= 5 THEN head[i] ELSE payload[i - 5]
  BY <1>1, BehindFive
<1>3. EncodeEnvelope(payload, type, flags) = data
  BY Zenon DEF EncodeEnvelope, head
<1> HIDE DEF data
<1>4. /\ data[1] = Magic /\ data[2] = Version /\ data[3] = type /\ data[4] = flags
      /\ data[5] = Len(payload)
  BY <1>1, <1>2
<1>5. SubSeq(data, 6, Len(data)) = payload
  <2> DEFINE s == SubSeq(data, 6, Len(data))
  <2>1. \A i \in 6 .. Len(data) : data[i] \in Nat
    BY <1>2
  <2>2. /\ s \in Seq(Nat) /\ Len(s) = IF 6 <= Len(data) THEN Len(data) - 6 + 1 ELSE 0
        /\ \A i \in 1 .. Len(data) - 6 + 1 : s[i] = data[6 + i - 1]
    BY <1>2, <2>1, SubSeqProperties
  <2> HIDE DEF s
  <2>3. Len(s) = Len(payload) /\ Len(data) - 6 + 1 = Len(payload)
    BY <1>2, <2>2
  <2>4. ASSUME NEW i \in 1 .. Len(payload) PROVE s[i] = payload[i]
    <3>1. /\ 6 + i - 1 \in 1 .. 5 + Len(payload) /\ ~(6 + i - 1 <= 5) /\ (6 + i - 1) - 5 = i
      BY <1>2
    <3> QED
      BY <1>2, <2>2, <2>3, <3>1
  <2> QED
    BY <2>2, <2>3, <2>4, SeqEqual DEF s
<1>6. Len(data) >= 5 /\ data[5] <= Len(payload) /\ Len(data) = 5 + data[5]
  BY <1>2, <1>4
<1> QED
  BY <1>3, <1>4, <1>5, <1>6, Zenon DEF DecodeEnvelope

\* An envelope that opens is the one that is made of its contents.
LEMMA EnvelopeIsWritten ==
    ASSUME NEW data \in Seq(Nat), NEW max \in Nat, NEW e, e = DecodeEnvelope(data, max), e.ok
    PROVE  data = EncodeEnvelope(e.payload, e.type, e.flags)
<1>1. /\ Len(data) >= 5 /\ data[1] = Magic /\ data[2] = Version /\ Len(data) = 5 + data[5]
      /\ e = [ok |-> TRUE, type |-> data[3], flags |-> data[4],
              payload |-> SubSeq(data, 6, Len(data))]
  BY DEF DecodeEnvelope
<1> DEFINE s == SubSeq(data, 6, Len(data))
<1>2. e.type = data[3] /\ e.flags = data[4] /\ e.payload = s
  BY <1>1, SMTT(30)
<1>3. /\ Len(data) >= 5 /\ data[1] = Magic /\ data[2] = Version /\ Len(data) = 5 + data[5]
       /\ 3 \in 1 .. Len(data) /\ 4 \in 1 .. Len(data) /\ 5 \in 1 .. Len(data)
  BY <1>1, SMTT(30)
<1>4. Len(data) \in Nat /\ \A i \in 1 .. Len(data) : data[i] \in Nat
  OBVIOUS
<1>5. /\ s \in Seq(Nat) /\ Len(s) = IF 6 <= Len(data) THEN Len(data) - 6 + 1 ELSE 0
      /\ \A i \in 1 .. Len(data) - 6 + 1 : s[i] = data[6 + i - 1]
  <2>1. \A i \in 6 .. Len(data) : data[i] \in Nat
    BY <1>4
  <2> QED
    BY <1>4, <2>1, SubSeqProperties
<1> HIDE DEF s
<1>6. Len(s) = Len(data) - 5 /\ Len(s) = data[5] /\ Len(s) \in Nat
  <2>1. 6 <= Len(data) \/ Len(data) = 5
    BY <1>4, <1>3
  <2>2. Len(s) = Len(data) - 5
    BY <1>4, <1>5, <2>1
  <2>3. data[5] \in Nat
    BY <1>4, <1>3
  <2> QED
    BY <1>4, <1>3, <2>2, <2>3
<1> DEFINE head == <<Magic, Version, data[3], data[4], Len(s)>>
           t == head \o s
<1>7. /\ head \in Seq(Nat) /\ Len(head) = 5 /\ head[1] = data[1] /\ head[2] = data[2]
      /\ head[3] = data[3] /\ head[4] = data[4] /\ head[5] = data[5]
  <2>1. Magic \in Nat /\ Version \in Nat /\ data[3] \in Nat /\ data[4] \in Nat
    BY <1>4, <1>3 DEF Magic, Version
  <2> QED
    BY <1>6, <1>3, <2>1, SMTT(30)
<1> HIDE DEF head
<1>8. /\ t \in Seq(Nat) /\ Len(t) = 5 + Len(s)
      /\ \A i \in 1 .. 5 + Len(s) : t[i] = IF i <= 5 THEN head[i] ELSE s[i - 5]
  BY <1>5, <1>7, BehindFive
<1>9. EncodeEnvelope(e.payload, e.type, e.flags) = t
  BY <1>2, Zenon DEF EncodeEnvelope, head
<1> HIDE DEF t
<1>10. Len(t) = Len(data)
  BY <1>4, <1>6, <1>8
<1>11. ASSUME NEW i \in 1 .. Len(data) PROVE t[i] = data[i]
  <2>1. i \in 1 .. 5 + Len(s)
    BY <1>8, <1>10
  <2>2. CASE i <= 5
    <3>1. t[i] = head[i]
      BY <1>8, <2>1, <2>2
    <3>2. i = 1 \/ i = 2 \/ i = 3 \/ i = 4 \/ i = 5
      BY <2>2
    <3> QED
      BY <1>7, <3>1, <3>2
  <2>3. CASE ~(i <= 5)
    <3>1. t[i] = s[i - 5] /\ i - 5 \in 1 .. Len(data) - 6 + 1 /\ 6 + (i - 5) - 1 = i
      BY <1>4, <1>8, <2>1, <2>3
    <3> QED
      BY <1>5, <3>1
  <2> QED
    BY <2>2, <2>3
<1>12. t = data
  BY <1>8, <1>10, <1>11, SeqEqual
<1> QED
  BY <1>9, <1>12

\* A value that is writable and not too deep is written, and read back up to the
\* limit of values, in its envelope.
LEMMA ValueReadsBack ==
    ASSUME NEW v, IsValue(v), NEW max \in Nat
    PROVE  ReadsBack(v, max)
<1> DEFINE wire == Encode(v)
           bytes == wire.bytes
           n == wire.items
           back == DecodeMessage(EncodeMessage(v, 0), Len(wire.bytes), max)
<1>1. wire.ok = (Writable(v) /\ Within(v)[MaxDepth + 1] = {})
  BY WhenWritten
<1>2. ASSUME wire.ok
      PROVE  back = IF n <= max THEN Read(v, Len(bytes) + 1, n) ELSE Wrong
  <2>1. bytes \in Seq(Nat) /\ n \in Nat
    BY <1>2, WrittenIsRead DEF WellFormed
  <2>2. PICK g : /\ Decode(bytes, max) = WholeRead(bytes, g[MaxDepth + 1][<<1, 0>>])
                 /\ ValuesChain(bytes, max, g)
    <3>1. ValuesRun(bytes, max)
      BY ValuesSteps, Zenon
    <3> QED
      BY <3>1, Zenon DEF ValuesRun, ValuesChain
  <2>3. Reads(bytes, max, g[MaxDepth + 1], v, wire)
    BY <1>2, <2>1, <2>2, WrittenIsRead
  <2> DEFINE read == g[MaxDepth + 1][<<1, 0>>]
             whole == Len(bytes) + 1
  <2> HIDE DEF wire
  <2>4. Stands(bytes, 1, bytes)
    <3>1. 1 + Len(bytes) <= Len(bytes) + 1 /\ \A i \in 1 .. Len(bytes) : 1 + i - 1 = i
      BY <2>1
    <3> QED
      BY <3>1 DEF Stands
  <2>5. read = Expected(max, v, wire, 1, 0)
    <3>1. 1 \in Nat \ {0} /\ 0 \in Nat
      OBVIOUS
    <3> QED
      BY <2>3, <2>4, <3>1 DEF Reads
  <2>6. read = IF n <= max THEN Read(v, whole, n) ELSE Wrong
    <3>1. 1 + Len(bytes) = whole /\ 0 + n = n
      BY <2>1
    <3> QED
      BY <2>5, <3>1 DEF Expected
  <2>7. Decode(bytes, max) = IF n <= max THEN Read(v, whole, n) ELSE Wrong
    <3> HIDE DEF read, n
    <3>1. WholeRead(bytes, Read(v, whole, n)) = Read(v, whole, n)
      BY DEF WholeRead, Read
    <3>2. WholeRead(bytes, Wrong) = Wrong
      BY DEF WholeRead
    <3>3. Decode(bytes, max) = WholeRead(bytes, read)
      BY <2>2 DEF read
    <3> QED
      BY <2>6, <3>1, <3>2, <3>3, Zenon
  <2>8. back = Decode(bytes, max)
    <3> DEFINE e == DecodeEnvelope(EncodeEnvelope(bytes, TypeValue, 0), Len(bytes))
    <3>1. back = IF e.ok /\ e.type = TypeValue THEN Decode(e.payload, max) ELSE Wrong
      BY Zenon DEF DecodeMessage, EncodeMessage, wire
    <3>2. e = [ok |-> TRUE, type |-> TypeValue, flags |-> 0, payload |-> bytes]
      <4>1. TypeValue \in Nat /\ 0 \in Nat
        BY DEF TypeValue
      <4> HIDE DEF bytes
      <4> QED
        BY <2>1, <4>1, EnvelopeOpens
    <3> HIDE DEF e, bytes, back
    <3>3. e.ok /\ e.type = TypeValue /\ e.payload = bytes
      BY <3>2
    <3> QED
      BY <3>1, <3>3
  <2> QED
    BY <2>7, <2>8
<1> QED
  BY <1>1, <1>2, Zenon DEF ReadsBack

\* A wire that is accepted, alone or in an envelope, is what the writer makes.
LEMMA WireHasOneForm ==
    ASSUME NEW data \in Seq(Nat), NEW max \in Nat
    PROVE  OneForm(data, max)
<1> DEFINE e == DecodeEnvelope(data, Len(data))
<1>1. ASSUME e.ok PROVE data = EncodeEnvelope(e.payload, e.type, e.flags)
  <2>1. Len(data) \in Nat
    OBVIOUS
  <2> HIDE DEF e
  <2>2. e = DecodeEnvelope(data, Len(data))
    BY DEF e
  <2> QED
    BY <1>1, <2>1, <2>2, EnvelopeIsWritten
<1>2. ASSUME Decode(data, max).ok
      PROVE  /\ Encode(Decode(data, max).value) = Emit(data, Decode(data, max).items)
             /\ Decode(data, max).items <= max
  BY <1>2, ReadIsWritten
<1> QED
  BY <1>1, <1>2, Zenon DEF OneForm
=============================================================================
