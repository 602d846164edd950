---------------------------- MODULE FormatProofs ----------------------------
(***************************************************************************)
(* What the formats and the keyed layout compute, for every argument: the  *)
(* frame arithmetic and the file primitives of the transfers, for every    *)
(* frame size and every content; the layout of krp.py, for every number of *)
(* blocks and every family of round values.  There the Feistel network     *)
(* permutes its domain, walking its cycles keeps indices apart, and what   *)
(* permute_blocks does restore_blocks undoes.                              *)
(*                                                                         *)
(* Induction is stated over sets: a subset of Nat that contains 0 and with *)
(* every element its successor is Nat.  The functions that KrpLayout       *)
(* defines by recursion are shown to exist before anything is said of      *)
(* their values.                                                           *)
(***************************************************************************)
EXTENDS KrpLayout, WellFoundedInduction, FiniteSetTheorems, TLAPS
-----------------------------------------------------------------------------
(* Frames and files. *)

\* Frames cover the source without gap or excess: all but the last are full.
THEOREM FrameCountBounds ==
    ASSUME NEW fs \in Nat \ {0}, NEW size \in Nat
    PROVE  /\ FrameCount(size, fs) \in Nat
           /\ size <= FrameCount(size, fs) * fs
           /\ size > 0 => (FrameCount(size, fs) - 1) * fs < size
<1>1. CASE size = 0
  BY <1>1 DEF FrameCount
<1>2. CASE size > 0
  <2> DEFINE q == (size + fs - 1) \div fs
  <2>1. q \in Nat /\ q * fs <= size + fs - 1 /\ size + fs - 1 < q * fs + fs
    BY SMTT(60)
  <2>2. (q - 1) * fs = q * fs - fs
    BY <2>1
  <2> QED
    BY <1>2, <2>1, <2>2 DEF FrameCount
<1> QED
  BY <1>1, <1>2

\* Every frame before the last one is full, so the offsets the server expects
\* grow by exactly the length of the frame just received.
THEOREM ExpectedBytesStep ==
    ASSUME NEW fs \in Nat \ {0}, NEW size \in Nat,
           NEW i \in Nat, i < FrameCount(size, fs)
    PROVE  /\ ExpectedBytes(i, size, fs) < size
           /\ ExpectedBytes(i + 1, size, fs)
                = ExpectedBytes(i, size, fs)
                    + FrameLen(ExpectedBytes(i, size, fs), size, fs)
<1> DEFINE n == FrameCount(size, fs)
<1>1. n \in Nat /\ size <= n * fs /\ (size > 0 => (n - 1) * fs < size)
  BY FrameCountBounds
<1>2. size > 0
  BY DEF FrameCount
<1>3. i * fs <= (n - 1) * fs
  BY <1>1, SMTT(30)
<1>4. i * fs \in Nat /\ (i + 1) * fs = i * fs + fs
  BY SMTT(30)
<1>5. CASE i + 1 = n
  <2>1. size - i * fs <= fs
    BY <1>1, <1>4, <1>5
  <2> QED
    BY <1>1, <1>2, <1>3, <1>4, <1>5, <2>1 DEF ExpectedBytes, FrameLen, Least
<1>6. CASE i + 1 < n
  <2>1. (i + 1) * fs <= (n - 1) * fs
    BY <1>1, <1>6, SMTT(30)
  <2> QED
    BY <1>1, <1>2, <1>3, <1>4, <1>6, <2>1 DEF ExpectedBytes, FrameLen, Least
<1> QED
  BY <1>1, <1>5, <1>6

\* The frame number a sender derives from its offset is the number of the
\* frame the server expects there.
THEOREM FrameNumberOfOffset ==
    ASSUME NEW fs \in Nat \ {0}, NEW size \in Nat,
           NEW i \in Nat, i < FrameCount(size, fs)
    PROVE  ExpectedBytes(i, size, fs) \div fs = i
<1>1. FrameCount(size, fs) \in Nat
  BY FrameCountBounds
<1>2. (i * fs) \div fs = i
  BY SMTT(60)
<1> QED
  BY <1>1, <1>2 DEF ExpectedBytes
-----------------------------------------------------------------------------
LEMMA QuotientType ==
    ASSUME NEW a \in Nat, NEW d \in Nat \ {0}
    PROVE  a \div d \in Nat
BY SMTT(30)

\* A positioned read returns bytes of the file, and at most what was asked.
LEMMA ReadAtType ==
    ASSUME NEW B, NEW s \in Seq(B), NEW offset \in Nat, NEW len \in Int
    PROVE  ReadAt(s, offset, len) \in Seq(B)
BY DEF ReadAt, Least

\* A positioned write yields a file again.
LEMMA WriteAtType ==
    ASSUME NEW B, NEW s \in Seq(B), NEW offset \in Nat, NEW d \in Seq(B), NEW hole \in B
    PROVE  /\ WriteAt(s, offset, d, hole) \in Seq(B)
           /\ Len(WriteAt(s, offset, d, hole)) = Greatest(Len(s), offset + Len(d))
BY DEF WriteAt, Greatest

\* A write at the end of a file appends.
Appended(w, s, d) ==
    /\ Len(w) = Len(s) + Len(d)
    /\ \A i \in 1 .. Len(s) : w[i] = s[i]
    /\ \A i \in Len(s) + 1 .. Len(s) + Len(d) : w[i] = d[i - Len(s)]

LEMMA WriteAtEnd ==
    ASSUME NEW B, NEW s \in Seq(B), NEW d \in Seq(B), NEW hole \in B
    PROVE  Appended(WriteAt(s, Len(s), d, hole), s, d)
<1>1. Len(s) \in Nat /\ Len(d) \in Nat
  OBVIOUS
<1>2. Greatest(Len(s), Len(s) + Len(d)) = Len(s) + Len(d)
  BY <1>1 DEF Greatest
<1> QED
  BY <1>1, <1>2 DEF WriteAt, Appended

LEMMA TruncateToType ==
    ASSUME NEW B, NEW s \in Seq(B), NEW len \in Nat, len <= Len(s)
    PROVE  TruncateTo(s, len) \in Seq(B) /\ Len(TruncateTo(s, len)) = len
BY DEF TruncateTo

\* What a short write stores of a block is a block.
LEMMA PrefixType ==
    ASSUME NEW B, NEW s \in Seq(B), NEW k \in Nat, k <= Len(s)
    PROVE  SubSeq(s, 1, k) \in Seq(B)
OBVIOUS
-----------------------------------------------------------------------------
(* Naturals, and functions by recursion. *)

Below == {ss \in Nat \X Nat : ss[1] < ss[2]}

\* A set of naturals that is not empty has a least element.
LEMMA LeastNatural ==
    ASSUME NEW T \in SUBSET Nat, T # {}
    PROVE  \E x \in T : \A y \in T : x <= y
<1>1. IsWellFoundedOn(Below, Nat)
  BY NatLessThanWellFounded, Zenon DEF OpToRel, Below
<1>2. \E x \in T : \A y \in T : ~ (<<y, x>> \in Below)
  BY <1>1, WFMin
<1>3. \A x, y \in Nat : y < x => <<y, x>> \in Below
  BY DEF Below
<1>4. PICK x \in T : \A y \in T : ~ (<<y, x>> \in Below)
  BY <1>2
<1>5. \A y \in T : ~ (y < x)
  BY <1>3, <1>4
<1>6. \A y \in T : x <= y
  BY <1>5
<1> QED
  BY <1>6

\* Induction over the naturals, for sets.
LEMMA Induction ==
    ASSUME NEW T \in SUBSET Nat, 0 \in T, \A n \in T : n + 1 \in T
    PROVE  T = Nat
<1> SUFFICES ASSUME Nat \ T # {}
             PROVE  FALSE
  OBVIOUS
<1>1. PICK x \in Nat \ T : \A y \in Nat \ T : x <= y
  BY LeastNatural
<1>2. x # 0 /\ x - 1 \in Nat /\ x - 1 \notin Nat \ T
  BY <1>1
<1> QED
  BY <1>2

\* f goes n steps from `first`.
Goes(f, n, first, step) ==
    /\ DOMAIN f = 0 .. n /\ f[0] = first
    /\ \A i \in Nat : i < n => f[i + 1] = step[i][f[i]]

\* f starts at `first` and takes every step.
Follows(f, first, step) == f[0] = first /\ \A n \in Nat : f[n + 1] = step[n][f[n]]

\* Primitive recursion: a function that takes every step exists.
LEMMA Recursion ==
    ASSUME NEW S, NEW first \in S, NEW step \in [Nat -> [S -> S]]
    PROVE  \E f \in [Nat -> S] : Follows(f, first, step)
<1> DEFINE Ok(n) == \E g : Goes(g, n, first, step) /\ g \in [0 .. n -> S]
           T == {n \in Nat : Ok(n)}
<1>1. 0 \in T
  <2>1. Goes([i \in 0 .. 0 |-> first], 0, first, step)
    BY DEF Goes
  <2> QED
    BY <2>1
<1>2. ASSUME NEW n \in T PROVE n + 1 \in T
  <2>1. PICK g : Goes(g, n, first, step) /\ g \in [0 .. n -> S]
    OBVIOUS
  <2> DEFINE h == [i \in 0 .. n + 1 |-> IF i <= n THEN g[i] ELSE step[n][g[n]]]
  <2>2. h \in [0 .. n + 1 -> S]
    BY <2>1
  <2>3. h[0] = first
    BY <2>1 DEF Goes
  <2>4. ASSUME NEW i \in Nat, i < n + 1 PROVE h[i + 1] = step[i][h[i]]
    <3>1. CASE i < n
      BY <2>1, <3>1 DEF Goes
    <3>2. CASE i = n
      BY <2>1, <3>2 DEF Goes
    <3> QED
      BY <2>4, <3>1, <3>2
  <2>5. Goes(h, n + 1, first, step)
    BY <2>3, <2>4 DEF Goes
  <2> HIDE DEF h
  <2>6. n + 1 \in Nat /\ Ok(n + 1)
    BY <2>2, <2>5
  <2> QED
    BY <2>6
<1>3. T = Nat
  <2> HIDE DEF T
  <2>1. T \in SUBSET Nat
    BY DEF T
  <2> QED
    BY <1>1, <1>2, <2>1, Induction
<1>4. ASSUME NEW n \in Nat, NEW m \in Nat, NEW g, NEW h,
             Goes(g, n, first, step), Goes(h, m, first, step)
      PROVE  \A i \in Nat : i <= n /\ i <= m => g[i] = h[i]
  <2> DEFINE U == {i \in Nat : i <= n /\ i <= m => g[i] = h[i]}
  <2>1. 0 \in U
    BY <1>4 DEF Goes
  <2>2. ASSUME NEW i \in U PROVE i + 1 \in U
    BY <1>4 DEF Goes
  <2>3. U = Nat
    <3> HIDE DEF U
    <3>1. U \in SUBSET Nat
      BY DEF U
    <3> QED
      BY <2>1, <2>2, <3>1, Induction
  <2> QED
    BY <2>3
<1> DEFINE G(n) == CHOOSE g : Goes(g, n, first, step) /\ g \in [0 .. n -> S]
           F == [n \in Nat |-> G(n)[n]]
<1>5. \A n \in Nat : Goes(G(n), n, first, step) /\ G(n) \in [0 .. n -> S]
  <2> TAKE n \in Nat
  <2>1. Ok(n)
    BY <1>3
  <2> QED
    BY <2>1, Zenon
<1> HIDE DEF G
<1>6. F \in [Nat -> S]
  <2>1. \A n \in Nat : n \in 0 .. n
    OBVIOUS
  <2>2. \A n \in Nat : G(n)[n] \in S
    BY <1>5, <2>1
  <2> QED
    BY <2>2
<1>7. F[0] = first
  BY <1>5 DEF Goes
<1>8. ASSUME NEW n \in Nat PROVE F[n + 1] = step[n][F[n]]
  <2>1. G(n + 1)[n + 1] = step[n][G(n + 1)[n]]
    BY <1>5 DEF Goes
  <2>2. G(n + 1)[n] = G(n)[n]
    <3>1. n + 1 \in Nat /\ n <= n /\ n <= n + 1
      OBVIOUS
    <3> QED
      BY <1>4, <1>5, <3>1
  <2> QED
    BY <2>1, <2>2
<1>9. Follows(F, first, step)
  BY <1>7, <1>8 DEF Follows
<1> QED
  BY <1>6, <1>9, Zenon
-----------------------------------------------------------------------------
(* Halving, shifting, and exclusive or. *)

LEMMA Division ==
    ASSUME NEW x \in Nat, NEW m \in Nat \ {0}
    PROVE  x \div m \in Nat /\ x % m \in 0 .. m - 1 /\ x = m * (x \div m) + (x % m)
BY SMTT(30)

LEMMA Halving ==
    ASSUME NEW x \in Nat
    PROVE  /\ x \div 2 \in Nat /\ x % 2 \in {0, 1} /\ x = 2 * (x \div 2) + (x % 2)
           /\ x # 0 => x \div 2 < x
OBVIOUS

\* Two numbers with the same half and the same parity are equal.
LEMMA SameHalves ==
    ASSUME NEW x \in Nat, NEW y \in Nat, x \div 2 = y \div 2, x % 2 = y % 2
    PROVE  x = y
BY Halving

\* Quotient and remainder are determined by the position.
LEMMA UniqueDivision ==
    ASSUME NEW bs \in Nat \ {0}, NEW a \in Nat, NEW b \in Nat,
           NEW o \in 0 .. bs - 1, NEW r \in 0 .. bs - 1, a * bs + o = b * bs + r
    PROVE  a = b /\ o = r
<1>1. CASE a < b
  <2>1. PICK d \in Nat : b = a + 1 + d
    <3>1. b - a - 1 \in Nat /\ b = a + 1 + (b - a - 1)
      BY <1>1
    <3> QED BY <3>1
  <2>2. b * bs = a * bs + bs + d * bs
    BY <2>1, SMTT(30)
  <2>3. d * bs \in Nat /\ a * bs \in Nat
    BY <2>1, SMTT(30)
  <2> QED
    BY <2>2, <2>3
<1>2. CASE b < a
  <2>1. PICK d \in Nat : a = b + 1 + d
    <3>1. a - b - 1 \in Nat /\ a = b + 1 + (a - b - 1)
      BY <1>2
    <3> QED BY <3>1
  <2>2. a * bs = b * bs + bs + d * bs
    BY <2>1, SMTT(30)
  <2>3. d * bs \in Nat /\ b * bs \in Nat
    BY <2>1, SMTT(30)
  <2> QED
    BY <2>2, <2>3
<1>3. CASE a = b
  <2>1. a * bs \in Nat
    BY SMTT(30)
  <2> QED
    BY <1>3, <2>1
<1> QED
  BY <1>1, <1>2, <1>3

\* The recursion of Shift has a solution, so that Shift is one.
LEMMA ShiftSteps ==
    Shift \in [Nat -> Nat] /\ Shift[0] = 1 /\ \A n \in Nat : Shift[n + 1] = 2 * Shift[n]
<1> DEFINE step == [n \in Nat |-> [x \in Nat |-> 2 * x]]
<1>1. PICK g \in [Nat -> Nat] : g[0] = 1 /\ \A n \in Nat : g[n + 1] = step[n][g[n]]
  <2>1. step \in [Nat -> [Nat -> Nat]] /\ 1 \in Nat
    OBVIOUS
  <2> HIDE DEF step
  <2>2. \E f \in [Nat -> Nat] : Follows(f, 1, step)
    BY <2>1, Recursion, Zenon
  <2> QED
    BY <2>2, Zenon DEF Follows
<1>2. g = [n \in Nat |-> IF n = 0 THEN 1 ELSE 2 * g[n - 1]]
  <2>1. \A n \in Nat : g[n] = IF n = 0 THEN 1 ELSE 2 * g[n - 1]
    <3> TAKE n \in Nat
    <3>1. CASE n # 0
      <4>1. n - 1 \in Nat /\ (n - 1) + 1 = n
        BY <3>1
      <4>2. g[(n - 1) + 1] = step[n - 1][g[n - 1]]
        BY <1>1, <4>1
      <4> QED
        BY <3>1, <4>1, <4>2
    <3> QED
      BY <1>1, <3>1
  <2> QED
    BY <2>1
<1>3. Shift = [n \in Nat |-> IF n = 0 THEN 1 ELSE 2 * Shift[n - 1]]
  BY <1>2, Zenon DEF Shift
<1> HIDE DEF step
<1>4. \A n \in Nat : Shift[n] = IF n = 0 THEN 1 ELSE 2 * Shift[n - 1]
  BY <1>3, Zenon
<1>5. \A n \in Nat : Shift[n] = g[n]
  <2> DEFINE T == {n \in Nat : Shift[n] = g[n]}
  <2>1. 0 \in T
    BY <1>1, <1>4
  <2>2. ASSUME NEW n \in T PROVE n + 1 \in T
    <3>1. n + 1 \in Nat /\ n + 1 # 0 /\ (n + 1) - 1 = n
      OBVIOUS
    <3>2. Shift[n + 1] = 2 * Shift[n]
      BY <1>4, <3>1
    <3>3. g[n + 1] = 2 * g[n]
      BY <1>1 DEF step
    <3> QED
      BY <3>1, <3>2, <3>3
  <2>3. T = Nat
    <3> HIDE DEF T
    <3>1. T \in SUBSET Nat
      BY DEF T
    <3> QED
      BY <2>1, <2>2, <3>1, Induction
  <2> QED
    BY <2>3
<1>6. Shift = g
  BY <1>3, <1>5
<1> QED
  BY <1>1, <1>6 DEF step

\* What one bit does to the exclusive or of the others.
XorValue(f, a, b) ==
    IF a = 0 THEN b
    ELSE IF b = 0 THEN a
    ELSE 2 * f[a \div 2][b \div 2] + ((a + b) % 2)

\* f is the exclusive or of the numbers up to n with any other.
XorUpTo(f, n) ==
    /\ f \in [0 .. n -> [Nat -> Nat]]
    /\ \A a \in 0 .. n, b \in Nat : f[a][b] = XorValue(f, a, b)

LEMMA XorExists == \A n \in Nat : \E f : XorUpTo(f, n)
<1> DEFINE T == {n \in Nat : \E f : XorUpTo(f, n)}
<1>1. 0 \in T
  <2> DEFINE f == [a \in 0 .. 0 |-> [b \in Nat |-> b]]
  <2>1. XorUpTo(f, 0)
    BY DEF XorUpTo, XorValue
  <2> HIDE DEF f
  <2> QED
    BY <2>1
<1>2. ASSUME NEW n \in T PROVE n + 1 \in T
  <2>1. PICK f : XorUpTo(f, n)
    OBVIOUS
  <2> DEFINE g == [a \in 0 .. n + 1 |-> IF a <= n THEN f[a]
                                        ELSE [b \in Nat |-> XorValue(f, n + 1, b)]]
  <2>2. \A b \in Nat : XorValue(f, n + 1, b) \in Nat
    <3> TAKE b \in Nat
    <3>1. (n + 1) \div 2 \in 0 .. n /\ b \div 2 \in Nat /\ (n + 1 + b) % 2 \in Nat
      BY Halving
    <3>2. f \in [0 .. n -> [Nat -> Nat]]
      BY <2>1 DEF XorUpTo
    <3>3. f[(n + 1) \div 2][b \div 2] \in Nat
      BY <3>1, <3>2
    <3> QED
      BY <3>1, <3>3 DEF XorValue
  <2>3. g \in [0 .. n + 1 -> [Nat -> Nat]]
    <3>0. f \in [0 .. n -> [Nat -> Nat]]
      BY <2>1 DEF XorUpTo
    <3>3. \A a \in 0 .. n : f[a] \in [Nat -> Nat]
      BY <3>0, Zenon
    <3>4. \A a \in 0 .. n + 1 : a <= n => a \in 0 .. n
      OBVIOUS
    <3>1. \A a \in 0 .. n + 1 : a <= n => f[a] \in [Nat -> Nat]
      BY <3>3, <3>4
    <3>2. [b \in Nat |-> XorValue(f, n + 1, b)] \in [Nat -> Nat]
      BY <2>2
    <3> QED
      BY <3>1, <3>2
  <2>4. ASSUME NEW a \in 0 .. n + 1, NEW b \in Nat PROVE g[a][b] = XorValue(g, a, b)
    <3>1. g[a][b] = XorValue(f, a, b)
      <4>1. CASE a <= n
        <5>1. a \in 0 .. n /\ g[a] = f[a]
          BY <4>1
        <5> QED
          BY <2>1, <5>1 DEF XorUpTo
      <4>2. CASE a = n + 1
        BY <4>2
      <4> QED
        BY <4>1, <4>2
    <3>2. a # 0 => a \div 2 \in 0 .. n
      BY Halving
    <3>3. a # 0 => g[a \div 2] = f[a \div 2]
      BY <3>2
    <3> QED
      BY <3>1, <3>3 DEF XorValue
  <2> HIDE DEF g
  <2>5. XorUpTo(g, n + 1)
    BY <2>3, <2>4, Zenon DEF XorUpTo
  <2>6. n + 1 \in Nat
    OBVIOUS
  <2> QED
    BY <2>5, <2>6
<1>3. T = Nat
  <2> HIDE DEF T
  <2>1. T \in SUBSET Nat
    BY DEF T
  <2> QED
    BY <1>1, <1>2, <2>1, Induction
<1> QED
  BY <1>3

LEMMA XorAgrees ==
    ASSUME NEW n \in Nat, NEW m \in Nat, NEW f, NEW g, XorUpTo(f, n), XorUpTo(g, m)
    PROVE  \A a \in 0 .. n : a <= m => f[a] = g[a]
<1> DEFINE T == {a \in 0 .. n : a <= m /\ f[a] # g[a]}
<1> SUFFICES ASSUME T # {}
             PROVE  FALSE
  OBVIOUS
<1>1. PICK a \in T : \A x \in T : a <= x
  <2>1. T \in SUBSET Nat
    OBVIOUS
  <2> HIDE DEF T
  <2> QED
    BY <2>1, LeastNatural
<1>2. a \in 0 .. n /\ a \in 0 .. m /\ f[a] # g[a]
  OBVIOUS
<1>3. ASSUME NEW b \in Nat PROVE f[a][b] = g[a][b]
  <2>1. a # 0 => a \div 2 \in 0 .. n /\ a \div 2 <= m /\ a \div 2 < a
    BY <1>2, Halving
  <2>2. a # 0 => f[a \div 2] = g[a \div 2]
    BY <1>1, <2>1
  <2>3. XorValue(f, a, b) = XorValue(g, a, b)
    BY <2>2 DEF XorValue
  <2> QED
    BY <1>2, <2>3, Zenon DEF XorUpTo
<1>4. f[a] \in [Nat -> Nat] /\ g[a] \in [Nat -> Nat]
  <2>1. f \in [0 .. n -> [Nat -> Nat]] /\ g \in [0 .. m -> [Nat -> Nat]]
    BY Zenon DEF XorUpTo
  <2> QED
    BY <1>2, <2>1
<1> QED
  BY <1>2, <1>3, <1>4

LEMMA XorFunction ==
    Xor \in [Nat -> [Nat -> Nat]] /\ \A a, b \in Nat : Xor[a][b] = XorValue(Xor, a, b)
<1> DEFINE F(n) == CHOOSE f : XorUpTo(f, n)
           G == [a \in Nat |-> F(a)[a]]
<1>1. \A n \in Nat : XorUpTo(F(n), n)
  BY XorExists, Zenon
<1> HIDE DEF F
<1>2. G \in [Nat -> [Nat -> Nat]]
  <2>1. \A n \in Nat : n \in 0 .. n
    OBVIOUS
  <2>2. \A n \in Nat : F(n)[n] \in [Nat -> Nat]
    BY <1>1, <2>1 DEF XorUpTo
  <2> QED
    BY <2>2
<1>3. ASSUME NEW a \in Nat, NEW b \in Nat PROVE G[a][b] = XorValue(G, a, b)
  <2>1. G[a][b] = XorValue(F(a), a, b)
    <3>1. a \in 0 .. a
      OBVIOUS
    <3> QED
      BY <1>1, <3>1 DEF XorUpTo
  <2>2. ASSUME a # 0 PROVE F(a)[a \div 2] = G[a \div 2]
    <3>1. a \div 2 \in 0 .. a /\ a \div 2 <= a \div 2 /\ a \div 2 \in Nat
      BY Halving
    <3> QED
      BY <1>1, <3>1, XorAgrees
  <2> QED
    BY <2>1, <2>2 DEF XorValue
<1> DEFINE Eq(f) == f = [a \in Nat |-> [b \in Nat |-> IF a = 0 THEN b
                                     ELSE IF b = 0 THEN a
                                     ELSE 2 * f[a \div 2][b \div 2] + ((a + b) % 2)]]
<1>4. Eq(G)
  <2>1. \A a \in Nat : G[a] = [b \in Nat |-> XorValue(G, a, b)]
    <3> HIDE DEF G
    <3> TAKE a \in Nat
    <3>1. G[a] = [b \in Nat |-> G[a][b]]
      BY <1>2
    <3> QED
      BY <1>3, <3>1
  <2>2. G = [a \in Nat |-> G[a]]
    OBVIOUS
  <2> HIDE DEF G
  <2>3. G = [a \in Nat |-> [b \in Nat |-> XorValue(G, a, b)]]
    BY <2>1, <2>2, Zenon
  <2> QED
    BY <2>3, Zenon DEF XorValue
<1>5. Eq(Xor)
  <2>1. Xor = CHOOSE f : Eq(f)
    BY Zenon DEF Xor
  <2> HIDE DEF Eq, G
  <2> QED
    BY <1>4, <2>1, Zenon
<1>6. \A a, b \in Nat : Xor[a][b] = XorValue(Xor, a, b)
  <2> DEFINE V(a, b) == XorValue(Xor, a, b)
  <2>1. Xor = [a \in Nat |-> [b \in Nat |-> V(a, b)]]
    BY <1>5, Zenon DEF XorValue
  <2> HIDE DEF V
  <2>2. \A a, b \in Nat : Xor[a][b] = V(a, b)
    BY <2>1, Zenon
  <2> QED
    BY <2>2 DEF V
<1>7. \A n \in Nat : Xor[n] = G[n]
  <2> DEFINE T == {n \in Nat : Xor[n] # G[n]}
  <2> SUFFICES ASSUME T # {}
               PROVE  FALSE
    OBVIOUS
  <2>1. PICK a \in T : \A x \in T : a <= x
    BY LeastNatural
  <2> HIDE DEF G
  <2>2. a # 0 => Xor[a \div 2] = G[a \div 2]
    BY <2>1, Halving
  <2>3. ASSUME NEW b \in Nat PROVE Xor[a][b] = G[a][b]
    <3>1. XorValue(Xor, a, b) = XorValue(G, a, b)
      BY <2>2 DEF XorValue
    <3> QED
      BY <1>3, <1>6, <3>1
  <2>4. Xor[a] = [b \in Nat |-> Xor[a][b]] /\ G[a] = [b \in Nat |-> G[a][b]]
    BY <1>2, <1>5
  <2> QED
    BY <2>3, <2>4
<1>8. Xor = G
  BY <1>5, <1>7
<1> QED
  BY <1>2, <1>6, <1>8

\* The bits above the lowest one, and the lowest one.
LEMMA XorBits ==
    ASSUME NEW a \in Nat, NEW b \in Nat
    PROVE  /\ Xor[a][b] \in Nat
           /\ Xor[a][b] \div 2 = Xor[a \div 2][b \div 2]
           /\ Xor[a][b] % 2 = (a + b) % 2
<1> DEFINE x == Xor[a][b]
           y == Xor[a \div 2][b \div 2]
<1>1. a \div 2 \in Nat /\ b \div 2 \in Nat
  BY Halving
<1>2. x \in Nat /\ y \in Nat
  BY <1>1, XorFunction
<1>3. x = XorValue(Xor, a, b) /\ y = XorValue(Xor, a \div 2, b \div 2)
  BY <1>1, XorFunction
<1>4. CASE a = 0
  <2>1. x = b /\ y = b \div 2
    BY <1>3, <1>4 DEF XorValue
  <2> QED
    BY <1>2, <1>4, <2>1
<1>5. CASE a # 0 /\ b = 0
  <2>1. x = a
    BY <1>3, <1>5 DEF XorValue
  <2>2. y = a \div 2
    BY <1>1, <1>3, <1>5 DEF XorValue
  <2> QED
    BY <1>2, <1>5, <2>1, <2>2
<1>6. CASE a # 0 /\ b # 0
  <2>1. x = 2 * y + ((a + b) % 2)
    BY <1>3, <1>6 DEF XorValue
  <2>2. PICK u \in Nat, v \in Nat : u = x /\ v = y
    BY <1>2, Zenon
  <2>3. u = 2 * v + ((a + b) % 2)
    BY <2>1, <2>2, Zenon
  <2>4. u \div 2 = v /\ u % 2 = (a + b) % 2
    BY <2>3
  <2> QED
    BY <2>2, <2>4, Zenon
<1> QED
  BY <1>2, <1>4, <1>5, <1>6

\* Combining with k loses nothing.
LEMMA XorCancels ==
    ASSUME NEW a \in Nat, NEW b \in Nat, NEW k \in Nat, Xor[a][k] = Xor[b][k]
    PROVE  a = b
<1> DEFINE T == {n \in Nat : \A x, y \in 0 .. n : \A z \in Nat :
                                Xor[x][z] = Xor[y][z] => x = y}
<1>1. 0 \in T
  OBVIOUS
<1>2. ASSUME NEW n \in T PROVE n + 1 \in T
  <2> SUFFICES ASSUME NEW x \in 0 .. n + 1, NEW y \in 0 .. n + 1, NEW z \in Nat,
                      Xor[x][z] = Xor[y][z]
               PROVE  x = y
    OBVIOUS
  <2>1. x \div 2 \in 0 .. n /\ y \div 2 \in 0 .. n /\ z \div 2 \in Nat
    BY Halving
  <2>2. Xor[x \div 2][z \div 2] = Xor[y \div 2][z \div 2] /\ (x + z) % 2 = (y + z) % 2
    <3>1. x \in Nat /\ y \in Nat /\ z \in Nat
      OBVIOUS
    <3>2. /\ Xor[x][z] \div 2 = Xor[x \div 2][z \div 2] /\ Xor[x][z] % 2 = (x + z) % 2
          /\ Xor[y][z] \div 2 = Xor[y \div 2][z \div 2] /\ Xor[y][z] % 2 = (y + z) % 2
      BY <3>1, XorBits
    <3> QED
      BY <3>2
  <2>3. x \div 2 = y \div 2
    BY <2>1, <2>2
  <2>4. x % 2 = y % 2
    BY <2>2
  <2> QED
    BY <2>3, <2>4, SameHalves
<1>3. T = Nat
  <2> HIDE DEF T
  <2>1. T \in SUBSET Nat
    BY DEF T
  <2> QED
    BY <1>1, <1>2, <2>1, Induction
<1>4. CASE a <= b
  <2>1. b \in T /\ a \in 0 .. b /\ b \in 0 .. b
    BY <1>3, <1>4
  <2> QED
    BY <2>1
<1>5. CASE b <= a
  <2>1. a \in 0 .. a /\ b \in 0 .. a
    BY <1>5
  <2>2. a \in T
    BY <1>3, Zenon
  <2> QED
    BY <2>1, <2>2, Zenon
<1> QED
  BY <1>4, <1>5

LEMMA ShiftPositive == \A n \in Nat : Shift[n] \in Nat \ {0}
<1> DEFINE T == {n \in Nat : Shift[n] \in Nat \ {0}}
<1>1. 0 \in T
  BY ShiftSteps
<1>2. ASSUME NEW n \in T PROVE n + 1 \in T
  BY ShiftSteps
<1>3. T = Nat
  <2> HIDE DEF T
  <2>1. T \in SUBSET Nat
    BY DEF T
  <2> QED
    BY <1>1, <1>2, <2>1, Induction
<1> QED
  BY <1>3

\* No bit is added.
LEMMA XorBelow ==
    ASSUME NEW h \in Nat, NEW a \in 0 .. Shift[h] - 1, NEW b \in 0 .. Shift[h] - 1
    PROVE  Xor[a][b] \in 0 .. Shift[h] - 1
<1> DEFINE T == {n \in Nat : \A x, y \in 0 .. Shift[n] - 1 : Xor[x][y] \in 0 .. Shift[n] - 1}
<1>1. 0 \in T
  <2>1. Xor[0][0] = 0
    BY XorFunction DEF XorValue
  <2> QED
    BY <2>1, ShiftSteps
<1>2. ASSUME NEW n \in T PROVE n + 1 \in T
  <2> SUFFICES ASSUME NEW x \in 0 .. Shift[n + 1] - 1, NEW y \in 0 .. Shift[n + 1] - 1
               PROVE  Xor[x][y] \in 0 .. Shift[n + 1] - 1
    OBVIOUS
  <2>1. Shift[n] \in Nat /\ Shift[n + 1] = 2 * Shift[n]
    BY ShiftSteps
  <2>2. x \in Nat /\ y \in Nat /\ x \div 2 \in 0 .. Shift[n] - 1 /\ y \div 2 \in 0 .. Shift[n] - 1
    BY <2>1, Halving
  <2>3. Xor[x \div 2][y \div 2] \in 0 .. Shift[n] - 1
    BY <2>2
  <2> DEFINE v == Xor[x][y]
  <2>4. v \in Nat /\ v \div 2 \in 0 .. Shift[n] - 1
    BY <2>2, <2>3, XorBits
  <2>5. v = 2 * (v \div 2) + (v % 2) /\ v % 2 <= 1
    <3> HIDE DEF v
    <3> QED
      BY <2>4, Halving
  <2> HIDE DEF v
  <2>6. v <= 2 * (Shift[n] - 1) + 1
    BY <2>1, <2>4, <2>5
  <2>7. v \in 0 .. Shift[n + 1] - 1
    BY <2>1, <2>4, <2>6
  <2> QED
    BY <2>7 DEF v
<1>3. T = Nat
  <2> HIDE DEF T
  <2>1. T \in SUBSET Nat
    BY DEF T
  <2> QED
    BY <1>1, <1>2, <2>1, Induction
<1> QED
  BY <1>3
-----------------------------------------------------------------------------
(* The Feistel network. *)

\* One round on a pair of halves.
Turned(p, f, r, h) == <<p[2], Xor[p[1]][f[r][p[2]] % Shift[h]]>>

\* An index is its two halves.
LEMMA HalvesOfIndex ==
    ASSUME NEW m \in Nat \ {0}, NEW i \in 0 .. m * m - 1
    PROVE  i \div m \in 0 .. m - 1 /\ i % m \in 0 .. m - 1 /\ i = (i \div m) * m + (i % m)
<1>1. m * m \in Nat /\ i \in Nat
  BY SMTT(30)
<1>2. i \div m \in Nat /\ i % m \in 0 .. m - 1 /\ i = m * (i \div m) + (i % m)
  BY <1>1, Division
<1>3. i \div m < m
  <2>1. SUFFICES ASSUME i \div m >= m
                 PROVE  FALSE
    BY <1>2
  <2>2. PICK d \in Nat : i \div m = m + d
    <3>1. (i \div m) - m \in Nat /\ i \div m = m + ((i \div m) - m)
      BY <1>2, <2>1
    <3> QED
      BY <3>1
  <2>3. m * (i \div m) = m * m + m * d /\ m * d \in Nat
    BY <2>2, SMTT(30)
  <2> QED
    BY <1>1, <1>2, <2>3
<1>4. m * (i \div m) = (i \div m) * m
  BY <1>2
<1> QED
  BY <1>2, <1>3, <1>4

LEMMA TurnedHalves ==
    ASSUME NEW h \in Nat, NEW f, RoundValues(f, h), NEW r \in 0 .. Rounds - 1,
           NEW p \in Half(h) \X Half(h)
    PROVE  Turned(p, f, r, h) \in Half(h) \X Half(h)
<1>1. Shift[h] \in Nat \ {0} /\ p[1] \in Half(h) /\ p[2] \in Half(h)
  BY ShiftPositive
<1>2. f[r][p[2]] \in Nat
  BY <1>1 DEF RoundValues
<1>3. f[r][p[2]] % Shift[h] \in Half(h)
  <2>1. \A x \in Nat, m \in Nat \ {0} : x % m \in 0 .. m - 1
    BY Division
  <2> QED
    BY <1>1, <1>2, <2>1, Zenon DEF Half
<1>4. Xor[p[1]][f[r][p[2]] % Shift[h]] \in Half(h)
  BY <1>1, <1>3, XorBelow DEF Half
<1> QED
  BY <1>1, <1>4 DEF Turned

\* A round can be taken back.
LEMMA TurnedApart ==
    ASSUME NEW h \in Nat, NEW f, RoundValues(f, h), NEW r \in 0 .. Rounds - 1,
           NEW p \in Half(h) \X Half(h), NEW q \in Half(h) \X Half(h),
           Turned(p, f, r, h) = Turned(q, f, r, h)
    PROVE  p = q
<1>1. Shift[h] \in Nat \ {0} /\ p[1] \in Half(h) /\ p[2] \in Half(h) /\ q[1] \in Half(h)
  BY ShiftPositive
<1>2. p[2] = q[2] /\ Xor[p[1]][f[r][p[2]] % Shift[h]] = Xor[q[1]][f[r][p[2]] % Shift[h]]
  BY DEF Turned
<1>3. f[r][p[2]] \in Nat
  BY <1>1 DEF RoundValues
<1>4. f[r][p[2]] % Shift[h] \in Nat /\ p[1] \in Nat /\ q[1] \in Nat
  <2>1. \A x \in Nat, m \in Nat \ {0} : x % m \in Nat
    BY Division
  <2>2. f[r][p[2]] % Shift[h] \in Nat
    BY <1>1, <1>3, <2>1, Zenon
  <2> QED
    BY <1>1, <2>2 DEF Half
<1>5. p[1] = q[1]
  BY <1>2, <1>4, XorCancels
<1> QED
  BY <1>2, <1>5

\* The halves of an index round after round.
LEMMA HalvesRounds ==
    ASSUME NEW h \in Nat, NEW f, RoundValues(f, h), NEW i \in Indices(h)
    PROVE  /\ Halves(i, f, h)[0] = <<i \div Shift[h], i % Shift[h]>>
           /\ \A r \in 0 .. Rounds : Halves(i, f, h)[r] \in Half(h) \X Half(h)
           /\ \A r \in 0 .. Rounds - 1 :
                  Halves(i, f, h)[r + 1] = Turned(Halves(i, f, h)[r], f, r, h)
<1> DEFINE S == Half(h) \X Half(h)
           step == [r \in Nat |-> [p \in S |-> IF r < Rounds THEN Turned(p, f, r, h) ELSE p]]
           begin == <<i \div Shift[h], i % Shift[h]>>
           Eq(pair) == pair = [r \in 0 .. Rounds |->
               IF r = 0 THEN <<i \div Shift[h], i % Shift[h]>>
               ELSE LET last == pair[r - 1]
                    IN  <<last[2], Xor[last[1]][f[r - 1][last[2]] % Shift[h]]>>]
           w == Halves(i, f, h)
<1>1. begin \in S
  <2>1. Shift[h] \in Nat \ {0} /\ i \in 0 .. Shift[h] * Shift[h] - 1
    BY ShiftPositive DEF Indices
  <2> QED
    BY <2>1, HalvesOfIndex DEF Half
<1>2. step \in [Nat -> [S -> S]]
  <2>1. ASSUME NEW r \in Nat, NEW p \in S
        PROVE  (IF r < Rounds THEN Turned(p, f, r, h) ELSE p) \in S
    <3>1. CASE r < Rounds
      <4>1. r \in 0 .. Rounds - 1
        BY <3>1 DEF Rounds
      <4> QED
        BY <3>1, <4>1, TurnedHalves
    <3> QED
      BY <3>1
  <2> HIDE DEF S
  <2> QED
    BY <2>1
<1> HIDE DEF S, step, begin
<1>3. PICK g : g \in [Nat -> S] /\ Follows(g, begin, step)
  BY <1>1, <1>2, Recursion, Zenon
<1> DEFINE q == [r \in 0 .. Rounds |-> g[r]]
<1>4. ASSUME NEW r \in 0 .. Rounds, r # 0
      PROVE  r - 1 \in Nat /\ r - 1 \in 0 .. Rounds - 1 /\ r - 1 \in 0 .. Rounds /\ (r - 1) + 1 = r
  BY <1>4 DEF Rounds
<1>5. Eq(q)
  <2>1. ASSUME NEW r \in 0 .. Rounds, r # 0
        PROVE  q[r] = Turned(q[r - 1], f, r - 1, h)
    <3>1. g[r] = step[r - 1][g[r - 1]]
      BY <1>3, <1>4, <2>1, Zenon DEF Follows
    <3>2. g[r - 1] \in S /\ r - 1 < Rounds
      BY <1>3, <1>4, <2>1 DEF Rounds
    <3>3. step[r - 1][g[r - 1]] = Turned(g[r - 1], f, r - 1, h)
      BY <1>4, <2>1, <3>2 DEF step
    <3> QED
      BY <1>4, <2>1, <3>1, <3>3
  <2>2. q[0] = <<i \div Shift[h], i % Shift[h]>>
    BY <1>3 DEF Follows, begin, Rounds
  <2>3. q = [r \in 0 .. Rounds |-> q[r]]
    OBVIOUS
  <2> HIDE DEF q
  <2>4. \A r \in 0 .. Rounds :
            q[r] = IF r = 0 THEN <<i \div Shift[h], i % Shift[h]>>
                   ELSE <<q[r - 1][2], Xor[q[r - 1][1]][f[r - 1][q[r - 1][2]] % Shift[h]]>>
    BY <2>1, <2>2, Zenon DEF Turned
  <2> QED
    BY <2>3, <2>4, Zenon
<1>6. Eq(w)
  <2>1. w = CHOOSE pair : Eq(pair)
    BY Zenon DEF Halves
  <2> HIDE DEF w, q, Eq
  <2> QED
    BY <1>5, <2>1, Zenon
<1> HIDE DEF w
<1>7. w[0] = begin
  BY <1>6 DEF begin, Rounds
<1>8. ASSUME NEW r \in 0 .. Rounds - 1 PROVE w[r + 1] = Turned(w[r], f, r, h)
  <2>1. r + 1 \in 0 .. Rounds /\ r + 1 # 0 /\ (r + 1) - 1 = r
    BY DEF Rounds
  <2>2. w[r + 1] = <<w[r][2], Xor[w[r][1]][f[r][w[r][2]] % Shift[h]]>>
    BY <1>6, <2>1
  <2> QED
    BY <2>2 DEF Turned
<1>9. \A r \in 0 .. Rounds : w[r] \in S
  <2> DEFINE T == {r \in Nat : r <= Rounds => w[r] \in S}
  <2>1. 0 \in T
    BY <1>1, <1>7
  <2>2. ASSUME NEW r \in T PROVE r + 1 \in T
    <3>1. CASE r + 1 <= Rounds
      <4>1. r \in 0 .. Rounds - 1 /\ w[r] \in S
        BY <3>1 DEF Rounds
      <4> QED
        BY <1>8, <4>1, TurnedHalves DEF S
    <3> QED
      BY <3>1
  <2>3. T = Nat
    <3> HIDE DEF T
    <3>1. T \in SUBSET Nat
      BY DEF T
    <3> QED
      BY <2>1, <2>2, <3>1, Induction
  <2> QED
    BY <2>3 DEF Rounds
<1> QED
  BY <1>7, <1>8, <1>9 DEF begin, S, w

\* The network maps its indices to indices, no two to the same.
LEMMA FeistelPermutes ==
    ASSUME NEW h \in Nat, NEW f, RoundValues(f, h)
    PROVE  /\ \A i \in Indices(h) : FeistelOnce(i, f, h) \in Indices(h)
           /\ \A i, j \in Indices(h) : FeistelOnce(i, f, h) = FeistelOnce(j, f, h) => i = j
<1> DEFINE m == Shift[h]
           w(i) == Halves(i, f, h)
<1>1. m \in Nat \ {0}
  BY ShiftPositive
<1>2. \A i \in Indices(h), r \in 0 .. Rounds :
          w(i)[r] \in Half(h) \X Half(h)
  BY HalvesRounds
<1>3. \A i \in Indices(h) : w(i)[Rounds][1] \in 0 .. m - 1 /\ w(i)[Rounds][2] \in 0 .. m - 1
  <2>1. Rounds \in 0 .. Rounds
    BY DEF Rounds
  <2> QED
    BY <1>2, <2>1 DEF Half
<1>4. \A i \in Indices(h) : FeistelOnce(i, f, h) = w(i)[Rounds][1] * m + w(i)[Rounds][2]
  BY Zenon DEF FeistelOnce
<1> HIDE DEF w
<1>5. ASSUME NEW i \in Indices(h) PROVE FeistelOnce(i, f, h) \in Indices(h)
  <2>1. PICK a \in 0 .. m - 1, b \in 0 .. m - 1 : a = w(i)[Rounds][1] /\ b = w(i)[Rounds][2]
    BY <1>3
  <2>2. PICK d \in Nat : m = a + 1 + d
    <3>1. m - a - 1 \in Nat /\ m = a + 1 + (m - a - 1)
      BY <1>1
    <3> QED
      BY <3>1
  <2>3. m * m = a * m + m + d * m /\ a * m \in Nat /\ d * m \in Nat
    BY <1>1, <2>2, SMTT(30)
  <2>4. a * m + b \in 0 .. m * m - 1
    BY <1>1, <2>3
  <2> QED
    BY <1>4, <2>1, <2>4 DEF Indices
<1>6. ASSUME NEW i \in Indices(h), NEW j \in Indices(h),
             FeistelOnce(i, f, h) = FeistelOnce(j, f, h)
      PROVE  i = j
  <2>1. w(i)[Rounds] = w(j)[Rounds]
    <3>1. PICK a \in 0 .. m - 1, b \in 0 .. m - 1 : a = w(i)[Rounds][1] /\ b = w(i)[Rounds][2]
      BY <1>3
    <3>2. PICK c \in 0 .. m - 1, d \in 0 .. m - 1 : c = w(j)[Rounds][1] /\ d = w(j)[Rounds][2]
      BY <1>3
    <3>3. a * m + b = c * m + d
      BY <1>4, <1>6, <3>1, <3>2, Zenon
    <3>4. a = c /\ b = d
      <4>1. a \in Nat /\ c \in Nat
        BY <1>1
      <4> HIDE DEF m
      <4>2. \A x, y \in Nat : \A o, p \in 0 .. m - 1 :
                x * m + o = y * m + p => x = y /\ o = p
        BY <1>1, UniqueDivision
      <4> QED
        BY <3>3, <4>1, <4>2
    <3>5. Rounds \in 0 .. Rounds
      BY DEF Rounds
    <3>6. \A p, q \in Half(h) \X Half(h) : p[1] = q[1] /\ p[2] = q[2] => p = q
      OBVIOUS
    <3>7. w(i)[Rounds][1] = w(j)[Rounds][1] /\ w(i)[Rounds][2] = w(j)[Rounds][2]
      BY <3>1, <3>2, <3>4, Zenon
    <3> QED
      BY <1>2, <3>5, <3>6, <3>7, Zenon
  <2> DEFINE T == {r \in Nat : r <= Rounds => w(i)[Rounds - r] = w(j)[Rounds - r]}
  <2>2. 0 \in T
    BY <2>1 DEF Rounds
  <2>3. ASSUME NEW r \in T PROVE r + 1 \in T
    <3>1. CASE r + 1 <= Rounds
      <4> DEFINE n == Rounds - (r + 1)
      <4>1. n \in 0 .. Rounds - 1 /\ n \in 0 .. Rounds /\ n + 1 = Rounds - r /\ r <= Rounds
        BY <3>1 DEF Rounds
      <4>2. w(i)[n + 1] = w(j)[n + 1]
        BY <4>1
      <4> HIDE DEF n
      <4>3. w(i)[n + 1] = Turned(w(i)[n], f, n, h) /\ w(j)[n + 1] = Turned(w(j)[n], f, n, h)
        BY <4>1, HalvesRounds DEF w
      <4>4. w(i)[n] = w(j)[n]
        BY <1>2, <4>1, <4>2, <4>3, TurnedApart
      <4> QED
        BY <4>4 DEF n
    <3> QED
      BY <3>1
  <2>4. T = Nat
    <3> HIDE DEF T
    <3>1. T \in SUBSET Nat
      BY DEF T
    <3> QED
      BY <2>2, <2>3, <3>1, Induction
  <2>5. w(i)[0] = w(j)[0]
    BY <2>4 DEF Rounds
  <2>6. i \div m = j \div m /\ i % m = j % m
    BY <2>5, HalvesRounds DEF w
  <2>7. i = (i \div m) * m + (i % m) /\ j = (j \div m) * m + (j % m)
    BY <1>1, HalvesOfIndex DEF Indices
  <2> QED
    BY <2>6, <2>7, Zenon
<1> QED
  BY <1>5, <1>6
-----------------------------------------------------------------------------
(* Walking the cycles of the network. *)

LEMMA ShiftGrows == \A n \in Nat : n <= Shift[n]
<1> DEFINE T == {n \in Nat : n <= Shift[n]}
<1>1. 0 \in T
  BY ShiftSteps
<1>2. ASSUME NEW n \in T PROVE n + 1 \in T
  BY ShiftSteps, ShiftPositive
<1>3. T = Nat
  <2> HIDE DEF T
  <2>1. T \in SUBSET Nat
    BY DEF T
  <2> QED
    BY <1>1, <1>2, <2>1, Induction
<1> QED
  BY <1>3

\* The network has room for all blocks.
LEMMA HalfBitsFits ==
    ASSUME NEW count \in Nat, count > 1
    PROVE  HalfBits(count) \in Nat /\ 0 .. count - 1 \subseteq Indices(HalfBits(count))
<1> DEFINE Fits(h) == count <= Shift[h] * Shift[h]
           T == {h \in 1 .. count : Fits(h)}
           P(h) == Fits(h) /\ \A k \in 1 .. h - 1 : count > Shift[k] * Shift[k]
<1>1. \A h \in Nat : Shift[h] * Shift[h] \in Nat
  <2>1. \A x \in Nat : x * x \in Nat
    BY SMTT(30)
  <2> QED
    BY <2>1, ShiftSteps
<1>2. Fits(count)
  <2>1. \A x \in Nat : x <= x * x
    BY SMTT(30)
  <2>2. Shift[count] \in Nat /\ count <= Shift[count]
    BY ShiftSteps, ShiftGrows
  <2>3. Shift[count] <= Shift[count] * Shift[count]
    BY <2>1, <2>2
  <2> QED
    BY <1>1, <2>2, <2>3
<1> HIDE DEF Fits
<1>3. PICK h \in T : \A x \in T : h <= x
  <2>1. T \in SUBSET Nat
    OBVIOUS
  <2>2. count \in T
    BY <1>2
  <2> HIDE DEF T
  <2> QED
    BY <2>1, <2>2, LeastNatural
<1>4. P(h)
  <2>1. \A k \in 1 .. h - 1 : k \in Nat /\ ~Fits(k)
    BY <1>3
  <2>2. \A k \in 1 .. h - 1 : count > Shift[k] * Shift[k]
    BY <1>1, <2>1 DEF Fits
  <2> QED
    BY <2>2
<1>5. HalfBits(count) = CHOOSE x \in 1 .. count : P(x)
  BY Zenon DEF HalfBits, Fits
<1>6. HalfBits(count) \in 1 .. count /\ P(HalfBits(count))
  <2> HIDE DEF P
  <2>1. \E x \in 1 .. count : P(x)
    BY <1>4
  <2> QED
    BY <1>5, <2>1, Zenon
<1>7. HalfBits(count) \in Nat
  BY <1>6
<1>8. count <= Shift[HalfBits(count)] * Shift[HalfBits(count)]
  BY <1>6 DEF Fits
<1> QED
  BY <1>1, <1>7, <1>8 DEF Indices

\* How a walk of n + 1 steps goes on after its first one.
LEMMA WalksSteps ==
    ASSUME NEW count \in Nat, count > 1, NEW f, RoundValues(f, HalfBits(count))
    PROVE  /\ \A v \in Indices(HalfBits(count)) : Walks(count, f)[0][v] = 0 - 1
           /\ \A n \in 0 .. WalkLimit - 1, v \in Indices(HalfBits(count)) :
                  LET w == FeistelOnce(v, f, HalfBits(count))
                  IN  Walks(count, f)[n + 1][v] = IF w < count THEN w ELSE Walks(count, f)[n][w]
<1> DEFINE half == HalfBits(count)
           D == Indices(half)
           E(v) == FeistelOnce(v, f, half)
           S == [D -> Int]
           begin == [v \in D |-> 0 - 1]
           On(g) == [v \in D |-> IF E(v) < count THEN E(v) ELSE g[E(v)]]
           step == [n \in Nat |-> [g \in S |-> On(g)]]
           Eq(walk) == walk = [n \in 0 .. WalkLimit |-> [v \in Indices(half) |->
                          IF n = 0 THEN 0 - 1
                          ELSE LET w == FeistelOnce(v, f, half)
                               IN  IF w < count THEN w ELSE walk[n - 1][w]]]
           W == Walks(count, f)
<1>1. half \in Nat /\ D \subseteq Int
  BY HalfBitsFits DEF Indices
<1>2. \A v \in D : E(v) \in D
  BY <1>1, FeistelPermutes
<1>3. begin \in S /\ step \in [Nat -> [S -> S]]
  <2> HIDE DEF D, E
  <2>1. begin \in S
    OBVIOUS
  <2>2. ASSUME NEW g \in S PROVE On(g) \in S
    BY <1>1, <1>2
  <2> HIDE DEF On, S
  <2> QED
    BY <2>1, <2>2
<1> HIDE DEF S, step, begin
<1>4. PICK g : g \in [Nat -> S] /\ Follows(g, begin, step)
  BY <1>3, Recursion, Zenon
<1> DEFINE q == [n \in 0 .. WalkLimit |-> g[n]]
<1>5. Eq(q)
  <2>1. ASSUME NEW n \in 0 .. WalkLimit
        PROVE  q[n] = [v \in D |-> IF n = 0 THEN 0 - 1
                                   ELSE IF E(v) < count THEN E(v) ELSE q[n - 1][E(v)]]
    <3> HIDE DEF D, E
    <3>1. CASE n = 0
      <4>1. q[n] = begin
        BY <1>4, <3>1 DEF Follows, WalkLimit
      <4> QED
        BY <3>1, <4>1 DEF begin
    <3>2. CASE n # 0
      <4>1. n - 1 \in Nat /\ n - 1 \in 0 .. WalkLimit /\ (n - 1) + 1 = n
        BY <3>2 DEF WalkLimit
      <4>2. g[n] = step[n - 1][g[n - 1]]
        BY <1>4, <4>1, Zenon DEF Follows
      <4>3. g[n - 1] \in S
        BY <1>4, <4>1
      <4>4. step[n - 1][g[n - 1]] = On(g[n - 1])
        BY <4>1, <4>3 DEF step
      <4>5. q[n] = On(g[n - 1]) /\ q[n - 1] = g[n - 1]
        BY <4>1, <4>2, <4>4
      <4> QED
        BY <3>2, <4>5
    <3> QED
      BY <3>1, <3>2
  <2>2. q = [n \in 0 .. WalkLimit |-> q[n]]
    OBVIOUS
  <2> HIDE DEF q
  <2> QED
    BY <2>1, <2>2, Zenon
<1>6. Eq(W)
  <2>1. W = CHOOSE walk : Eq(walk)
    BY Zenon DEF Walks
  <2> HIDE DEF W, q, Eq
  <2> QED
    BY <1>5, <2>1, Zenon
<1> HIDE DEF W, D, E
<1>7. \A n \in 0 .. WalkLimit, v \in D :
          W[n][v] = IF n = 0 THEN 0 - 1 ELSE IF E(v) < count THEN E(v) ELSE W[n - 1][E(v)]
  <2>1. W = [n \in 0 .. WalkLimit |-> [v \in D |->
               IF n = 0 THEN 0 - 1 ELSE IF E(v) < count THEN E(v) ELSE W[n - 1][E(v)]]]
    BY <1>6, Zenon DEF D, E
  <2> DEFINE V(n, v) == IF n = 0 THEN 0 - 1 ELSE IF E(v) < count THEN E(v) ELSE W[n - 1][E(v)]
  <2>2. W = [n \in 0 .. WalkLimit |-> [v \in D |-> V(n, v)]]
    BY <2>1, Zenon
  <2> HIDE DEF V
  <2>3. \A n \in 0 .. WalkLimit, v \in D : W[n][v] = V(n, v)
    BY <2>2, Zenon
  <2> QED
    BY <2>3, Zenon DEF V
<1>8. \A v \in D : W[0][v] = 0 - 1
  BY <1>7 DEF WalkLimit
<1>9. ASSUME NEW n \in 0 .. WalkLimit - 1, NEW v \in D
      PROVE  W[n + 1][v] = IF E(v) < count THEN E(v) ELSE W[n][E(v)]
  <2>1. n + 1 \in 0 .. WalkLimit /\ n + 1 # 0 /\ (n + 1) - 1 = n
    BY DEF WalkLimit
  <2> QED
    BY <1>7, <2>1
<1> QED
  BY <1>8, <1>9 DEF W, D, E

\* it[k][v] is the index that k steps of the network lead to from v.
Orbits(it, f, h) ==
    /\ it \in [Nat -> [Indices(h) -> Indices(h)]]
    /\ \A v \in Indices(h) : it[0][v] = v
    /\ \A k \in Nat, v \in Indices(h) : it[k + 1][v] = it[k][FeistelOnce(v, f, h)]

LEMMA OrbitsExist ==
    ASSUME NEW h \in Nat, NEW f, RoundValues(f, h)
    PROVE  \E it : Orbits(it, f, h)
<1> DEFINE D == Indices(h)
           E(v) == FeistelOnce(v, f, h)
           S == [D -> D]
           begin == [v \in D |-> v]
           step == [n \in Nat |-> [g \in S |-> [v \in D |-> g[E(v)]]]]
<1>1. \A v \in D : E(v) \in D
  BY FeistelPermutes
<1> HIDE DEF D, E
<1>2. begin \in S /\ step \in [Nat -> [S -> S]]
  BY <1>1
<1> HIDE DEF S, step, begin
<1>3. PICK it : it \in [Nat -> S] /\ Follows(it, begin, step)
  BY <1>2, Recursion, Zenon
<1>4. \A v \in D : it[0][v] = v
  BY <1>3 DEF Follows, begin
<1>5. ASSUME NEW k \in Nat, NEW v \in D PROVE it[k + 1][v] = it[k][E(v)]
  <2>1. it[k + 1] = step[k][it[k]] /\ it[k] \in S
    BY <1>3, Zenon DEF Follows
  <2>2. step[k][it[k]] = [x \in D |-> it[k][E(x)]]
    BY <2>1 DEF step
  <2> QED
    BY <2>1, <2>2
<1> QED
  BY <1>3, <1>4, <1>5, Zenon DEF Orbits, S, D, E

\* k steps after d steps are k + d steps; a walk of k steps leads from
\* different indices to different ones.
LEMMA OrbitsApart ==
    ASSUME NEW h \in Nat, NEW f, RoundValues(f, h), NEW it, Orbits(it, f, h)
    PROVE  /\ \A k, d \in Nat : \A v \in Indices(h) : it[k + d][v] = it[k][it[d][v]]
           /\ \A k \in Nat : \A v, u \in Indices(h) : it[k][v] = it[k][u] => v = u
<1> DEFINE D == Indices(h)
           E(v) == FeistelOnce(v, f, h)
<1>1. /\ \A v \in D : E(v) \in D
      /\ \A v, u \in D : E(v) = E(u) => v = u
  BY FeistelPermutes
<1>2. /\ it \in [Nat -> [D -> D]] /\ \A v \in D : it[0][v] = v
      /\ \A k \in Nat, v \in D : it[k + 1][v] = it[k][E(v)]
  BY Zenon DEF Orbits
<1> HIDE DEF D, E
<1>3. ASSUME NEW k \in Nat
      PROVE  \A d \in Nat : \A v \in D : it[k + d][v] = it[k][it[d][v]]
  <2> DEFINE T == {d \in Nat : \A v \in D : it[k + d][v] = it[k][it[d][v]]}
  <2>1. 0 \in T
    BY <1>2
  <2>2. ASSUME NEW d \in T PROVE d + 1 \in T
    <3>1. d + 1 \in Nat
      OBVIOUS
    <3>2. ASSUME NEW v \in D PROVE it[k + (d + 1)][v] = it[k][it[d + 1][v]]
      <4>1. k + d \in Nat /\ k + (d + 1) = (k + d) + 1 /\ d \in Nat
        OBVIOUS
      <4>2. it[(k + d) + 1][v] = it[k + d][E(v)] /\ it[d + 1][v] = it[d][E(v)]
        BY <1>2, <4>1, Zenon
      <4>3. it[k + d][E(v)] = it[k][it[d][E(v)]]
        BY <1>1
      <4> QED
        BY <4>1, <4>2, <4>3, Zenon
    <3> QED
      BY <3>1, <3>2
  <2>3. T = Nat
    <3> HIDE DEF T
    <3>1. T \in SUBSET Nat
      BY DEF T
    <3> QED
      BY <2>1, <2>2, <3>1, Induction
  <2> QED
    BY <2>3
<1>4. \A k \in Nat : \A v, u \in D : it[k][v] = it[k][u] => v = u
  <2> DEFINE T == {k \in Nat : \A v, u \in D : it[k][v] = it[k][u] => v = u}
  <2>1. 0 \in T
    BY <1>2
  <2>2. ASSUME NEW k \in T PROVE k + 1 \in T
    BY <1>1, <1>2
  <2>3. T = Nat
    <3> HIDE DEF T
    <3>1. T \in SUBSET Nat
      BY DEF T
    <3> QED
      BY <2>1, <2>2, <3>1, Induction
  <2> QED
    BY <2>3
<1> QED
  BY <1>3, <1>4 DEF D

\* A walk stops at the first index of its orbit below count, or has met none.
LEMMA WalkStops ==
    ASSUME NEW count \in Nat, count > 1, NEW f, RoundValues(f, HalfBits(count)),
           NEW it, Orbits(it, f, HalfBits(count))
    PROVE  \A n \in 0 .. WalkLimit, v \in Indices(HalfBits(count)) :
               LET t == Walks(count, f)[n][v] IN
               \/ /\ t \in 0 .. count - 1
                  /\ \E k \in 1 .. n : it[k][v] = t /\ \A j \in 1 .. k - 1 : it[j][v] >= count
               \/ t = 0 - 1 /\ \A j \in 1 .. n : it[j][v] >= count
<1> DEFINE h == HalfBits(count)
           D == Indices(h)
           E(v) == FeistelOnce(v, f, h)
           W == Walks(count, f)
           Hit(n, v) == /\ W[n][v] \in 0 .. count - 1
                        /\ \E k \in 1 .. n : it[k][v] = W[n][v]
                                            /\ \A j \in 1 .. k - 1 : it[j][v] >= count
           Miss(n, v) == W[n][v] = 0 - 1 /\ \A j \in 1 .. n : it[j][v] >= count
<1>1. h \in Nat /\ D \subseteq Nat /\ \A v \in D : E(v) \in D
  <2>1. h \in Nat
    BY HalfBitsFits
  <2>2. Shift[h] * Shift[h] \in Nat
    BY <2>1, ShiftSteps, SMTT(30)
  <2> QED
    BY <2>1, <2>2, FeistelPermutes DEF Indices
<1>2. /\ \A v \in D : W[0][v] = 0 - 1
      /\ \A n \in 0 .. WalkLimit - 1, v \in D :
             W[n + 1][v] = IF E(v) < count THEN E(v) ELSE W[n][E(v)]
  BY WalksSteps, Zenon
<1>3. /\ it \in [Nat -> [D -> D]] /\ \A v \in D : it[0][v] = v
      /\ \A k \in Nat, v \in D : it[k + 1][v] = it[k][E(v)]
  BY Zenon DEF Orbits
<1> HIDE DEF h, D, E, W
<1>4. ASSUME NEW n \in 0 .. WalkLimit - 1, NEW v \in D, Hit(n, E(v)) \/ Miss(n, E(v))
      PROVE  Hit(n + 1, v) \/ Miss(n + 1, v)
  <2>1. E(v) \in D /\ E(v) \in Nat /\ it[1][v] = E(v) /\ n \in Nat
    <3>1. 0 \in Nat /\ 0 + 1 = 1
      OBVIOUS
    <3>2. it[0 + 1][v] = it[0][E(v)]
      BY <1>3, <3>1, Zenon
    <3>3. E(v) \in D /\ it[0][E(v)] = E(v)
      BY <1>1, <1>3, Zenon
    <3>4. E(v) \in Nat
      BY <1>1, <3>3, Zenon
    <3>5. n \in Nat
      BY DEF WalkLimit
    <3> QED
      BY <3>1, <3>2, <3>3, <3>4, <3>5, Zenon
  <2>2. CASE E(v) < count
    <3>1. W[n + 1][v] = E(v)
      BY <1>2, <2>2
    <3>2. 1 \in 1 .. n + 1 /\ \A j \in 1 .. 1 - 1 : it[j][v] >= count
      BY <2>1
    <3> QED
      BY <2>1, <2>2, <3>1, <3>2
  <2>3. CASE ~(E(v) < count)
    <3>1. W[n + 1][v] = W[n][E(v)]
      BY <1>2, <2>3
    <3>2. \A j \in Nat : it[j + 1][v] = it[j][E(v)]
      BY <1>3
    <3>3. ASSUME NEW k \in Nat, \A j \in 1 .. k : it[j][E(v)] >= count
          PROVE  \A j \in 1 .. k + 1 : it[j][v] >= count
      <4> TAKE j \in 1 .. k + 1
      <4>1. CASE j = 1
        BY <2>1, <2>3, <4>1
      <4>2. CASE j # 1
        <5>1. j - 1 \in 1 .. k /\ j - 1 \in Nat /\ (j - 1) + 1 = j
          BY <4>2
        <5>2. it[j][v] = it[j - 1][E(v)]
          BY <3>2, <5>1
        <5> QED
          BY <3>3, <5>1, <5>2
      <4> QED
        BY <4>1, <4>2
    <3>4. CASE Miss(n, E(v))
      BY <2>1, <3>1, <3>3, <3>4
    <3>5. CASE Hit(n, E(v))
      <4>1. PICK k \in 1 .. n : it[k][E(v)] = W[n][E(v)]
                                 /\ \A j \in 1 .. k - 1 : it[j][E(v)] >= count
        BY <3>5
      <4>2. k + 1 \in 1 .. n + 1 /\ k \in Nat /\ k - 1 \in Nat /\ (k - 1) + 1 = k
            /\ (k + 1) - 1 = k
        BY <2>1
      <4>3. it[k + 1][v] = W[n + 1][v]
        BY <3>1, <3>2, <4>1, <4>2
      <4>4. \A j \in 1 .. k : it[j][v] >= count
        BY <3>3, <4>1, <4>2
      <4> QED
        BY <3>1, <3>5, <4>2, <4>3, <4>4
    <3> QED
      BY <1>4, <3>4, <3>5
  <2> QED
    BY <2>2, <2>3
<1> HIDE DEF Hit, Miss
<1> DEFINE T == {n \in Nat : n <= WalkLimit => \A v \in D : Hit(n, v) \/ Miss(n, v)}
<1>5. 0 \in T
  BY <1>2 DEF Miss
<1>6. ASSUME NEW n \in T PROVE n + 1 \in T
  <2>1. CASE n + 1 <= WalkLimit
    <3>1. n \in 0 .. WalkLimit - 1 /\ n <= WalkLimit
      BY <2>1 DEF WalkLimit
    <3>2. ASSUME NEW v \in D PROVE Hit(n + 1, v) \/ Miss(n + 1, v)
      <4>1. E(v) \in D
        BY <1>1, Zenon
      <4>2. Hit(n, E(v)) \/ Miss(n, E(v))
        BY <3>1, <4>1
      <4> QED
        BY <1>4, <3>1, <4>2, Zenon
    <3>3. n + 1 \in Nat
      OBVIOUS
    <3> QED
      BY <3>2, <3>3
  <2> QED
    BY <2>1
<1>7. T = Nat
  <2> HIDE DEF T
  <2>1. T \in SUBSET Nat
    BY DEF T
  <2> QED
    BY <1>5, <1>6, <2>1, Induction
<1>8. \A n \in 0 .. WalkLimit, v \in D : Hit(n, v) \/ Miss(n, v)
  BY <1>7 DEF WalkLimit
<1> QED
  BY <1>8 DEF Hit, Miss, W, D, h

\* Two indices below count that walk to the same index are the same: the
\* longer walk would pass through the start of the shorter one.
LEMMA WalksMeet ==
    ASSUME NEW h \in Nat, NEW f, RoundValues(f, h), NEW it, Orbits(it, f, h),
           NEW count \in Nat, 0 .. count - 1 \subseteq Indices(h),
           NEW i \in 0 .. count - 1, NEW j \in 0 .. count - 1,
           NEW k \in Nat, NEW m \in Nat, k <= m, it[k][i] = it[m][j],
           \A x \in 1 .. m - 1 : it[x][j] >= count, 1 <= k
    PROVE  i = j
<1> DEFINE D == Indices(h)
<1>1. 0 .. count - 1 \subseteq D
  OBVIOUS
<1>2. it \in [Nat -> [D -> D]] /\ \A v \in D : it[0][v] = v
  BY Zenon DEF Orbits
<1>3. /\ \A x, d \in Nat : \A v \in D : it[x + d][v] = it[x][it[d][v]]
      /\ \A x \in Nat : \A v, u \in D : it[x][v] = it[x][u] => v = u
  <2>1. /\ \A x, d \in Nat : \A v \in Indices(h) : it[x + d][v] = it[x][it[d][v]]
        /\ \A x \in Nat : \A v, u \in Indices(h) : it[x][v] = it[x][u] => v = u
    <3> HIDE DEF D
    <3> QED
      BY OrbitsApart
  <2> QED
    BY <2>1
<1> HIDE DEF D
<1>4. PICK d \in Nat : m = k + d
  <2>1. m - k \in Nat /\ m = k + (m - k)
    OBVIOUS
  <2> QED
    BY <2>1
<1>5. i \in D /\ j \in D
  BY <1>1
<1>6. it[d][j] \in D
  BY <1>2, <1>5
<1>7. it[k][i] = it[k][it[d][j]]
  <2>1. it[k + d][j] = it[k][it[d][j]]
    <3>1. \A v \in D : it[k + d][v] = it[k][it[d][v]]
      BY <1>3
    <3> QED
      BY <1>5, <3>1
  <2> QED
    BY <1>4, <2>1, Zenon
<1>8. i = it[d][j]
  <2>1. \A v, u \in D : it[k][v] = it[k][u] => v = u
    BY <1>3
  <2> QED
    BY <1>5, <1>6, <1>7, <2>1
<1>9. CASE d = 0
  BY <1>2, <1>5, <1>8, <1>9, Zenon
<1>10. CASE d # 0
  <2>1. d \in 1 .. m - 1
    BY <1>4, <1>10
  <2>2. it[d][j] >= count
    BY <2>1, Zenon
  <2> QED
    BY <1>8, <2>2
<1> QED
  BY <1>9, <1>10

\* Cycle walking keeps the blocks apart: a layout all of whose walks have
\* stopped within the limit maps the blocks one to one onto themselves
\* (krp.py: "A key- and context-specific bijection").
THEOREM LayoutOneToOne ==
    ASSUME NEW count \in Nat, NEW f, count > 1 => RoundValues(f, HalfBits(count)),
           Found(Layout(count, f), count)
    PROVE  /\ \A i \in 0 .. count - 1 : Layout(count, f)[i] \in 0 .. count - 1
           /\ \A i, j \in 0 .. count - 1 : Layout(count, f)[i] = Layout(count, f)[j] => i = j
<1>1. CASE count <= 1
  BY <1>1 DEF Layout, PermutedIndex
<1>2. CASE count > 1
  <2> DEFINE t == Walks(count, f)[WalkLimit]
  <2>1. \A i \in 0 .. count - 1 : Layout(count, f)[i] = t[i]
    BY <1>2 DEF Layout, PermutedIndex
  <2>2. \A i \in 0 .. count - 1 : t[i] # 0 - 1
    BY <2>1 DEF Found
  <2>3. HalfBits(count) \in Nat /\ 0 .. count - 1 \subseteq Indices(HalfBits(count))
    BY <1>2, HalfBitsFits
  <2>4. PICK it : Orbits(it, f, HalfBits(count))
    BY <1>2, <2>3, OrbitsExist
  <2>5. \A i \in 0 .. count - 1 :
            /\ t[i] \in 0 .. count - 1
            /\ \E k \in 1 .. WalkLimit : it[k][i] = t[i] /\ \A j \in 1 .. k - 1 : it[j][i] >= count
    <3>1. WalkLimit \in 0 .. WalkLimit
      BY DEF WalkLimit
    <3> QED
      BY <1>2, <2>2, <2>3, <2>4, <3>1, WalkStops
  <2> HIDE DEF t
  <2>6. ASSUME NEW i \in 0 .. count - 1, NEW j \in 0 .. count - 1, t[i] = t[j] PROVE i = j
    <3>1. PICK k \in 1 .. WalkLimit : it[k][i] = t[i] /\ \A x \in 1 .. k - 1 : it[x][i] >= count
      BY <2>5
    <3>2. PICK m \in 1 .. WalkLimit : it[m][j] = t[j] /\ \A x \in 1 .. m - 1 : it[x][j] >= count
      BY <2>5
    <3>3. k \in Nat /\ m \in Nat /\ 1 <= k /\ 1 <= m
      BY DEF WalkLimit
    <3>4. it[k][i] = it[m][j]
      BY <2>6, <3>1, <3>2, Zenon
    <3>5. CASE k <= m
      BY <1>2, <2>3, <2>4, <3>2, <3>3, <3>4, <3>5, WalksMeet
    <3>6. CASE m <= k
      BY <1>2, <2>3, <2>4, <3>1, <3>3, <3>4, <3>6, WalksMeet
    <3> QED
      BY <3>3, <3>5, <3>6
  <2> QED
    BY <2>1, <2>5, <2>6
<1> QED
  BY <1>1, <1>2

\* A network that has fewer indices to spare than a walk may take steps finds
\* a target for every block: the walk of a block never comes back to an index
\* before it comes back to the block.
THEOREM LayoutFound ==
    ASSUME NEW count \in Nat, NEW f, count > 1 => RoundValues(f, HalfBits(count)),
           count > 1 => Shift[HalfBits(count)] * Shift[HalfBits(count)] - count < WalkLimit
    PROVE  Found(Layout(count, f), count)
<1>1. CASE count <= 1
  BY <1>1 DEF Found, Layout, PermutedIndex
<1>2. CASE count > 1
  <2> DEFINE t == Walks(count, f)[WalkLimit]
             h == HalfBits(count)
             D == Indices(h)
  <2>1. \A i \in 0 .. count - 1 : Layout(count, f)[i] = t[i]
    BY <1>2 DEF Layout, PermutedIndex
  <2>2. h \in Nat /\ 0 .. count - 1 \subseteq D
    BY <1>2, HalfBitsFits
  <2>3. PICK it : Orbits(it, f, h)
    BY <1>2, <2>2, OrbitsExist
  <2>4. PICK s \in Nat : s = Shift[h] * Shift[h]
    BY <2>2, ShiftSteps, SMTT(30)
  <2>5. D = 0 .. s - 1
    BY <2>4 DEF Indices
  <2>6. /\ \A x, d \in Nat : \A v \in D : it[x + d][v] = it[x][it[d][v]]
        /\ \A x \in Nat : \A v, u \in D : it[x][v] = it[x][u] => v = u
    BY <1>2, <2>2, <2>3, OrbitsApart
  <2>7. it \in [Nat -> [D -> D]] /\ \A v \in D : it[0][v] = v
    BY <2>3, Zenon DEF Orbits
  <2>8. ASSUME NEW i \in 0 .. count - 1, \A j \in 1 .. WalkLimit : it[j][i] >= count
        PROVE  FALSE
    <3> DEFINE S == 1 .. WalkLimit
               R == count .. s - 1
               g == [j \in S |-> it[j][i]]
    <3>1. i \in D
      BY <2>2
    <3>2. g \in [S -> R]
      <4>1. \A j \in S : it[j][i] \in D
        BY <2>7, <3>1
      <4> HIDE DEF D
      <4> QED
        BY <2>5, <2>8, <4>1
    <3>3. ASSUME NEW x \in S, NEW y \in S, x < y, it[x][i] = it[y][i] PROVE FALSE
      <4>1. PICK d \in Nat : d = y - x /\ y = x + d /\ d \in 1 .. WalkLimit
        <5>1. y - x \in Nat /\ y = x + (y - x) /\ y - x \in 1 .. WalkLimit
          BY <3>3 DEF WalkLimit
        <5> QED
          BY <5>1
      <4>2. it[d][i] \in D /\ x \in Nat
        BY <2>7, <3>1, <4>1
      <4>3. it[x][i] = it[x][it[d][i]]
        <5>1. it[x + d][i] = it[x][it[d][i]]
          BY <2>6, <3>1, <4>1, <4>2
        <5> QED
          BY <3>3, <4>1, <5>1, Zenon
      <4>4. i = it[d][i]
        BY <2>6, <3>1, <4>2, <4>3, Zenon
      <4>5. it[d][i] >= count
        BY <2>8, <4>1
      <4> QED
        BY <4>4, <4>5
    <3>4. IsFiniteSet(S) /\ Cardinality(S) = WalkLimit
      <4>1. 1 \in Int /\ WalkLimit \in Int /\ ~(1 > WalkLimit) /\ WalkLimit - 1 + 1 = WalkLimit
        BY DEF WalkLimit
      <4>2. IsFiniteSet(S) /\ Cardinality(S) = IF 1 > WalkLimit THEN 0 ELSE WalkLimit - 1 + 1
        BY <4>1, FS_Interval, Zenon
      <4> QED
        BY <4>1, <4>2, Zenon
    <3>5. IsFiniteSet(R) /\ (Cardinality(R) = 0 \/ Cardinality(R) = s - count)
      <4>1. count \in Int /\ s - 1 \in Int
        BY <2>4
      <4>2. IsFiniteSet(R) /\ Cardinality(R) = IF count > s - 1 THEN 0 ELSE (s - 1) - count + 1
        BY <4>1, FS_Interval, Zenon
      <4>3. (s - 1) - count + 1 = s - count
        BY <2>4
      <4> QED
        BY <4>2, <4>3, Zenon
    <3>6. Cardinality(R) < Cardinality(S)
      BY <1>2, <2>4, <3>4, <3>5 DEF WalkLimit
    <3>7. PICK x, y \in S : x # y /\ g[x] = g[y]
      <4> HIDE DEF S, R, g
      <4> QED
        BY <3>2, <3>4, <3>5, <3>6, FS_PigeonHole
    <3>8. it[x][i] = it[y][i]
      BY <3>7
    <3> QED
      BY <3>3, <3>7, <3>8
  <2>9. \A i \in 0 .. count - 1 : t[i] # 0 - 1
    <3>1. WalkLimit \in 0 .. WalkLimit
      BY DEF WalkLimit
    <3>2. \A i \in 0 .. count - 1 :
              \/ t[i] \in 0 .. count - 1
              \/ \A j \in 1 .. WalkLimit : it[j][i] >= count
      BY <1>2, <2>2, <2>3, <3>1, WalkStops
    <3> HIDE DEF t
    <3>3. \A i \in 0 .. count - 1 : t[i] \in 0 .. count - 1
      BY <2>8, <3>2
    <3> QED
      BY <3>3
  <2> QED
    BY <2>1, <2>9 DEF Found
<1> QED
  BY <1>1, <1>2

\* A position splits into a block and an offset within the block.
LEMMA SplitPosition ==
    ASSUME NEW bs \in Nat \ {0}, NEW p \in Nat \ {0}
    PROVE  /\ BlockOf(p, bs) \in Nat
           /\ WithinBlock(p, bs) \in 0 .. bs - 1
           /\ p = BytePos(BlockOf(p, bs), WithinBlock(p, bs), bs)
<1>1. p - 1 \in Nat
  OBVIOUS
<1>2. \A x \in Nat : x \div bs \in Nat /\ x % bs \in 0 .. bs - 1
                     /\ x = bs * (x \div bs) + (x % bs)
  BY SMTT(30)
<1>3. (p - 1) \div bs \in Nat /\ (p - 1) % bs \in 0 .. bs - 1
      /\ p - 1 = bs * ((p - 1) \div bs) + ((p - 1) % bs)
  BY <1>1, <1>2
<1>4. bs * ((p - 1) \div bs) = ((p - 1) \div bs) * bs
  BY <1>3
<1> QED
  BY <1>3, <1>4 DEF BlockOf, WithinBlock, BytePos

\* The block and offset of a byte position are the ones it was made from.
LEMMA JoinPosition ==
    ASSUME NEW bs \in Nat \ {0}, NEW b \in Nat, NEW o \in 0 .. bs - 1
    PROVE  /\ BytePos(b, o, bs) \in Nat \ {0}
           /\ BlockOf(BytePos(b, o, bs), bs) = b
           /\ WithinBlock(BytePos(b, o, bs), bs) = o
<1> DEFINE p == BytePos(b, o, bs)
<1>1. b * bs \in Nat
  BY SMTT(30)
<1>2. p \in Nat \ {0}
  BY <1>1 DEF BytePos
<1>3. /\ BlockOf(p, bs) \in Nat /\ WithinBlock(p, bs) \in 0 .. bs - 1
      /\ p = BytePos(BlockOf(p, bs), WithinBlock(p, bs), bs)
  BY <1>2, SplitPosition
<1>4. PICK c \in Nat, w \in 0 .. bs - 1 :
        /\ c = BlockOf(p, bs) /\ w = WithinBlock(p, bs)
        /\ p = c * bs + w + 1 /\ p = b * bs + o + 1
  BY <1>3 DEF BytePos
<1>5. c * bs \in Nat
  BY <1>4, SMTT(30)
<1> HIDE DEF p
<1>6. c * bs + w = b * bs + o
  <2>1. c * bs + w + 1 = b * bs + o + 1
    BY <1>4, Zenon
  <2> QED
    BY <1>1, <1>5, <2>1
<1>7. c = b /\ w = o
  BY <1>6, UniqueDivision
<1> QED
  BY <1>2, <1>4, <1>7 DEF p

\* A byte of a complete block lies inside the buffer.
LEMMA InsideBuffer ==
    ASSUME NEW bs \in Nat \ {0}, NEW len \in Nat, NEW b \in 0 .. (len \div bs) - 1,
           NEW o \in 0 .. bs - 1, len \div bs \in Nat
    PROVE  BytePos(b, o, bs) \in 1 .. len
<1> DEFINE n == len \div bs
<1>1. n \in Nat /\ bs * n <= len
  BY SMTT(30)
<1> HIDE DEF n
<1>2. b \in Nat /\ b + 1 <= n
  BY <1>1 DEF n
<1>3. PICK d \in Nat : n = b + 1 + d
  <2>1. n - b - 1 \in Nat /\ n = b + 1 + (n - b - 1)
    BY <1>1, <1>2
  <2> QED BY <2>1
<1>4. bs * n = b * bs + bs + d * bs
  BY <1>2, <1>3, SMTT(30)
<1>5. b * bs \in Nat /\ d * bs \in Nat /\ bs * n \in Nat
  BY <1>1, <1>2, <1>3, SMTT(30)
<1> QED
  BY <1>1, <1>4, <1>5 DEF BytePos

\* restore_blocks undoes permute_blocks: whatever the length, the tail and the
\* one-to-one layout of the complete blocks (krp.py: "Reverse permute_blocks
\* exactly").
THEOREM RestoreUndoesPermute ==
    ASSUME NEW raw \in Seq(Nat), NEW bs \in Nat \ {0}, NEW target,
           \A i \in 0 .. Blocks(raw, bs) - 1 : target[i] \in 0 .. Blocks(raw, bs) - 1,
           \A i, j \in 0 .. Blocks(raw, bs) - 1 : target[i] = target[j] => i = j
    PROVE  RestoreBlocks(PermuteBlocks(raw, bs, target), bs, target) = raw
<1> DEFINE n == Blocks(raw, bs)
           From(b) == {i \in 0 .. n - 1 : target[i] = b}
           Latest(S) == CHOOSE i \in S : \A j \in S : j <= i
           out == PermuteBlocks(raw, bs, target)
           len == Len(raw)
<1>1. len \in Nat /\ n = len \div bs /\ n \in Nat
  <2>1. Len(raw) \in Nat
    OBVIOUS
  <2>2. \A x \in Nat : x \div bs \in Nat
    BY SMTT(30)
  <2> QED
    BY <2>1, <2>2 DEF Blocks
<1>2. CASE n <= 1
  BY <1>2 DEF PermuteBlocks, RestoreBlocks
<1>3. CASE n > 1
  <2>1. out = [p \in 1 .. len |->
                 IF BlockOf(p, bs) >= n THEN raw[p]
                 ELSE IF From(BlockOf(p, bs)) = {} THEN 0
                 ELSE raw[BytePos(Latest(From(BlockOf(p, bs))), WithinBlock(p, bs), bs)]]
    BY <1>1, <1>3 DEF PermuteBlocks
  <2>2. \A p \in 1 .. len :
            out[p] = IF BlockOf(p, bs) >= n THEN raw[p]
                     ELSE IF From(BlockOf(p, bs)) = {} THEN 0
                     ELSE raw[BytePos(Latest(From(BlockOf(p, bs))), WithinBlock(p, bs), bs)]
    BY <2>1
  <2>3. \A i \in 0 .. n - 1 : Latest(From(target[i])) = i /\ From(target[i]) # {}
    <3> SUFFICES ASSUME NEW i \in 0 .. n - 1
                 PROVE  Latest(From(target[i])) = i /\ From(target[i]) # {}
      OBVIOUS
    <3>1. From(target[i]) = {i}
      BY <1>1
    <3>2. Latest({i}) = i
      BY <1>1
    <3> QED
      BY <3>1, <3>2
  <2>4. Len(out) = len /\ Blocks(out, bs) = n
    <3>2. Len(out) = len
      <4>1. out = [p \in 1 .. len |-> out[p]]
        BY <2>1
      <4> HIDE DEF out
      <4> QED
        BY <1>1, <4>1
    <3> QED
      BY <3>2 DEF Blocks
  <2> DEFINE back == RestoreBlocks(out, bs, target)
  <2>5. back = [p \in 1 .. len |->
                  IF BlockOf(p, bs) >= n THEN out[p]
                  ELSE out[BytePos(target[BlockOf(p, bs)], WithinBlock(p, bs), bs)]]
    BY <1>1, <1>3, <2>4 DEF RestoreBlocks
  <2> HIDE DEF From, Latest, out
  <2>6. ASSUME NEW p \in 1 .. len PROVE back[p] = raw[p]
    <3> DEFINE b == BlockOf(p, bs)
               o == WithinBlock(p, bs)
               q == BytePos(target[b], o, bs)
    <3>1. b \in Nat /\ o \in 0 .. bs - 1 /\ p = BytePos(b, o, bs)
      BY <1>1, SplitPosition
    <3>2. CASE b >= n
      BY <2>2, <2>5, <3>2
    <3>3. CASE b < n
      <4>1. b \in 0 .. n - 1 /\ target[b] \in 0 .. n - 1
        BY <1>1, <3>1, <3>3
      <4>2. target[b] \in Nat /\ target[b] < n
        BY <1>1, <4>1
      <4>3. back[p] = out[q]
        BY <1>1, <2>5, <3>1, <3>3
      <4>4. q \in 1 .. len
        BY <1>1, <3>1, <4>1, InsideBuffer
      <4>5. BlockOf(q, bs) = target[b] /\ WithinBlock(q, bs) = o
        BY <3>1, <4>2, JoinPosition
      <4>6. out[q] = raw[BytePos(Latest(From(target[b])), o, bs)]
        <5>1. From(BlockOf(q, bs)) = From(target[b]) /\ From(target[b]) # {}
          BY <2>3, <4>1, <4>5, Zenon
        <5>2. ~(BlockOf(q, bs) >= n) /\ From(BlockOf(q, bs)) # {}
          BY <1>1, <4>2, <4>5, <5>1
        <5> QED
          BY <2>2, <4>4, <4>5, <5>1, <5>2
      <4>7. Latest(From(target[b])) = b
        BY <2>3, <4>1
      <4> QED
        BY <3>1, <4>3, <4>6, <4>7
    <3> QED
      BY <1>1, <3>1, <3>2, <3>3
  <2>7. back = [p \in 1 .. len |-> raw[p]]
    <3>1. back = [p \in 1 .. len |-> back[p]]
      BY <2>5
    <3> QED
      BY <2>6, <3>1
  <2>8. raw = [p \in 1 .. len |-> raw[p]]
    BY <1>1
  <2> QED
    BY <2>7, <2>8 DEF out
<1> QED
  BY <1>1, <1>2, <1>3

\* What permute_blocks does under the layout of a key and a context,
\* restore_blocks undoes, for every buffer, block size and key.
THEOREM PermutationReversible ==
    ASSUME NEW raw \in Seq(Nat), NEW bs \in Nat \ {0}, NEW f,
           Blocks(raw, bs) > 1 => RoundValues(f, HalfBits(Blocks(raw, bs))),
           Found(Layout(Blocks(raw, bs), f), Blocks(raw, bs))
    PROVE  LET target == Layout(Blocks(raw, bs), f)
           IN  RestoreBlocks(PermuteBlocks(raw, bs, target), bs, target) = raw
<1>1. Blocks(raw, bs) \in Nat
  <2>1. Len(raw) \in Nat
    OBVIOUS
  <2>2. \A x \in Nat : x \div bs \in Nat
    BY SMTT(30)
  <2> QED
    BY <2>1, <2>2 DEF Blocks
<1> DEFINE target == Layout(Blocks(raw, bs), f)
<1>2. /\ \A i \in 0 .. Blocks(raw, bs) - 1 : target[i] \in 0 .. Blocks(raw, bs) - 1
      /\ \A i, j \in 0 .. Blocks(raw, bs) - 1 : target[i] = target[j] => i = j
  BY <1>1, LayoutOneToOne
<1> HIDE DEF target
<1>3. RestoreBlocks(PermuteBlocks(raw, bs, target), bs, target) = raw
  BY <1>2, RestoreUndoesPermute
<1> QED
  BY <1>3 DEF target
-----------------------------------------------------------------------------
(* Files.  What has been copied of the first n blocks, if no two are copied *)
(* to the same place: the bytes of these blocks, and holes elsewhere.       *)

Held(B, out, n, source, bs, from, to) ==
    /\ out \in Seq(B \cup {0}) /\ Len(out) = Len(source)
    /\ \A k \in 0 .. n - 1, o \in 0 .. bs - 1 :
           out[BytePos(to[k], o, bs)] = source[BytePos(from[k], o, bs)]
    /\ \A p \in 1 .. Len(source) :
           (\A k \in 0 .. n - 1 : to[k] # BlockOf(p, bs)) => out[p] = 0

\* The positions of a block are those that follow its offset.
LEMMA PositionsOfBlock ==
    ASSUME NEW bs \in Nat \ {0}, NEW b \in Nat, NEW p \in Nat \ {0}
    PROVE  /\ b * bs \in Nat
           /\ p \in b * bs + 1 .. b * bs + bs <=> BlockOf(p, bs) = b
           /\ \A o \in 0 .. bs - 1 : BytePos(b, o, bs) - b * bs = o + 1
<1>1. b * bs \in Nat
  BY SMTT(30)
<1>2. ASSUME p \in b * bs + 1 .. b * bs + bs PROVE BlockOf(p, bs) = b
  <2>1. PICK o \in 0 .. bs - 1 : o = p - 1 - b * bs
    <3>1. p - 1 - b * bs \in 0 .. bs - 1
      BY <1>1, <1>2
    <3> QED
      BY <3>1
  <2>2. p = BytePos(b, o, bs)
    BY <1>1, <2>1 DEF BytePos
  <2> QED
    BY <2>2, JoinPosition
<1>3. ASSUME BlockOf(p, bs) = b PROVE p \in b * bs + 1 .. b * bs + bs
  <2>1. WithinBlock(p, bs) \in 0 .. bs - 1 /\ p = BytePos(b, WithinBlock(p, bs), bs)
    BY <1>3, SplitPosition
  <2>2. PICK o \in 0 .. bs - 1 : p = b * bs + o + 1
    BY <2>1 DEF BytePos
  <2> QED
    BY <1>1, <2>2
<1>4. \A o \in 0 .. bs - 1 : BytePos(b, o, bs) - b * bs = o + 1
  BY <1>1 DEF BytePos
<1> QED
  BY <1>1, <1>2, <1>3, <1>4

\* Every one of n blocks has a target among n blocks, no two the same.
Targets(target, n) == \A k \in 0 .. n - 1 : target[k] \in 0 .. n - 1
Apart(target, n)   == \A j, k \in 0 .. n - 1 : target[j] = target[k] => j = k

LEMMA BlocksType ==
    ASSUME NEW B, NEW s \in Seq(B), NEW bs \in Nat \ {0}
    PROVE  Blocks(s, bs) \in Nat /\ Len(s) \in Nat
<1>1. Len(s) \in Nat
  OBVIOUS
<1>2. \A x \in Nat : x \div bs \in Nat
  BY SMTT(30)
<1> QED
  BY <1>1, <1>2 DEF Blocks

\* data are the len elements of s that follow the first x.
Piece(data, s, x, len) == Len(data) = len /\ \A i \in 1 .. len : data[i] = s[x + i]

\* A read that does not meet the end of the file is not short.
LEMMA ReadAtInside ==
    ASSUME NEW B, NEW s \in Seq(B), NEW x \in Nat, NEW len \in Nat, x + len <= Len(s)
    PROVE  ReadAt(s, x, len) \in Seq(B) /\ Piece(ReadAt(s, x, len), s, x, len)
<1>1. Len(s) \in Nat
  OBVIOUS
<1>2. ReadAt(s, x, len) = SubSeq(s, x + 1, x + len)
  BY <1>1 DEF ReadAt, Least
<1>3. /\ SubSeq(s, x + 1, x + len) \in Seq(B)
      /\ Len(SubSeq(s, x + 1, x + len)) = len
  BY <1>1
<1>4. \A i \in 1 .. len : SubSeq(s, x + 1, x + len)[i] = s[x + i]
  BY <1>1
<1> QED
  BY <1>2, <1>3, <1>4 DEF Piece

\* Copying block a to block b replaces the bytes of b and no others.
CopyOne(out, source, bs, a, b) ==
    TruncateTo(WriteAt(out, b * bs, ReadAt(source, a * bs, bs), 0), Len(source))

Replaced(B, new, out, source, bs, a, b) ==
    /\ new \in Seq(B \cup {0}) /\ Len(new) = Len(source)
    /\ \A i \in 1 .. Len(source) : BlockOf(i, bs) # b => new[i] = out[i]
    /\ \A o \in 0 .. bs - 1 : new[BytePos(b, o, bs)] = source[BytePos(a, o, bs)]

LEMMA CopyBlockBytes ==
    ASSUME NEW B, NEW source \in Seq(B), NEW bs \in Nat \ {0},
           NEW a \in 0 .. Blocks(source, bs) - 1, NEW b \in 0 .. Blocks(source, bs) - 1,
           NEW out \in Seq(B \cup {0}), Len(out) = Len(source)
    PROVE  Replaced(B, CopyOne(out, source, bs, a, b), out, source, bs, a, b)
<1> DEFINE size == Len(source)
           C == B \cup {0}
           block == ReadAt(source, a * bs, bs)
           w == WriteAt(out, b * bs, block, 0)
           new == TruncateTo(w, size)
<1>1. size \in Nat /\ size = Len(source) /\ Blocks(source, bs) = size \div bs /\ size \div bs \in Nat
  <2>1. \A x \in Nat : x \div bs \in Nat
    BY SMTT(30)
  <2> QED
    BY <2>1 DEF Blocks
<1>2. a \in 0 .. (size \div bs) - 1 /\ b \in 0 .. (size \div bs) - 1 /\ a \in Nat /\ b \in Nat
  BY <1>1
<1>3. PICK x \in Nat, y \in Nat :
          /\ x = a * bs /\ y = b * bs
          /\ \A p \in Nat \ {0} : p \in y + 1 .. y + bs <=> BlockOf(p, bs) = b
          /\ \A o \in 0 .. bs - 1 : BytePos(a, o, bs) = x + o + 1
          /\ \A o \in 0 .. bs - 1 : BytePos(b, o, bs) = y + o + 1
  BY <1>2, PositionsOfBlock DEF BytePos
<1>a. /\ \A o \in 0 .. bs - 1 : BytePos(a, o, bs) = x + o + 1
      /\ \A o \in 0 .. bs - 1 : BytePos(b, o, bs) = y + o + 1
  BY <1>3
<1> HIDE DEF size, C, block
<1>4. x + bs <= size /\ y + bs <= size
  <2>1. bs - 1 \in 0 .. bs - 1
    OBVIOUS
  <2>2. BytePos(a, bs - 1, bs) \in 1 .. size /\ BytePos(b, bs - 1, bs) \in 1 .. size
    BY <1>1, <1>2, <2>1, InsideBuffer
  <2> QED
    <3>1. x + (bs - 1) + 1 <= size /\ y + (bs - 1) + 1 <= size
      BY <1>1, <1>a, <2>1, <2>2
    <3> QED
      BY <3>1
<1>5. /\ block \in Seq(C) /\ Len(block) = bs
      /\ \A i \in 1 .. bs : block[i] = source[x + i]
  <2>1. source \in Seq(C) /\ size = Len(source)
    BY DEF C, size
  <2>2. block = ReadAt(source, x, bs)
    BY <1>3 DEF block
  <2> HIDE DEF Blocks
  <2>3. bs \in Nat /\ x \in Nat /\ x + bs <= Len(source)
    BY <1>3, <1>4, <2>1
  <2>4. ReadAt(source, x, bs) \in Seq(C) /\ Piece(ReadAt(source, x, bs), source, x, bs)
    BY <2>1, <2>3, ReadAtInside, Zenon
  <2> HIDE DEF block
  <2> QED
    BY <2>2, <2>4, Zenon DEF Piece
<1>6. out \in Seq(C) /\ Len(out) = size
  BY DEF C, size
<1>7. w = [i \in 1 .. size |-> IF i \in y + 1 .. y + bs THEN block[i - y] ELSE out[i]]
  <2>1. Greatest(Len(out), y + Len(block)) = size
    BY <1>1, <1>4, <1>5, <1>6 DEF Greatest
  <2>2. w = WriteAt(out, y, block, 0)
    BY <1>3
  <2> HIDE DEF w
  <2> QED
    BY <1>5, <1>6, <2>1, <2>2 DEF WriteAt
<1>8. /\ new \in Seq(C) /\ Len(new) = size
      /\ \A i \in 1 .. size :
             new[i] = IF i \in y + 1 .. y + bs THEN block[i - y] ELSE out[i]
  <2>1. ASSUME NEW i \in 1 .. size
        PROVE  (IF i \in y + 1 .. y + bs THEN block[i - y] ELSE out[i]) \in C
    <3>1. CASE i \in y + 1 .. y + bs
      <4>1. i - y \in 1 .. bs
        BY <1>1, <1>3, <3>1
      <4> QED
        BY <1>5, <3>1, <4>1
    <3> QED
      BY <1>1, <1>6, <3>1
  <2>2. w \in Seq(C) /\ Len(w) = size
    <3> DEFINE val(i) == IF i \in y + 1 .. y + bs THEN block[i - y] ELSE out[i]
    <3>1. \A i \in 1 .. size : val(i) \in C
      BY <2>1
    <3>2. w = [i \in 1 .. size |-> val(i)]
      BY <1>7
    <3> HIDE DEF val, w
    <3> QED
      BY <1>1, <3>1, <3>2
  <2>3. new = w
    <3> HIDE DEF w
    <3> QED
      BY <1>1, <2>2 DEF TruncateTo
  <2> HIDE DEF new
  <2> QED
    BY <1>7, <2>2, <2>3
<1> HIDE DEF w, new
<1>9. ASSUME NEW i \in 1 .. size, BlockOf(i, bs) # b PROVE new[i] = out[i]
  <2>1. i \in Nat \ {0}
    BY <1>1
  <2>2. i \notin y + 1 .. y + bs
    BY <1>3, <1>9, <2>1
  <2> QED
    BY <1>8, <2>2
<1>10. ASSUME NEW o \in 0 .. bs - 1
       PROVE  new[BytePos(b, o, bs)] = source[BytePos(a, o, bs)]
  <2>1. BytePos(b, o, bs) = y + o + 1 /\ BytePos(a, o, bs) = x + (o + 1)
    BY <1>3
  <2>2. y + o + 1 \in y + 1 .. y + bs /\ (y + o + 1) - y = o + 1 /\ o + 1 \in 1 .. bs
        /\ y + o + 1 \in 1 .. size
    BY <1>1, <1>4
  <2>3. new[y + o + 1] = block[o + 1]
    BY <1>8, <2>2
  <2>4. block[o + 1] = source[x + (o + 1)]
    BY <1>5, <2>2
  <2> QED
    BY <2>1, <2>3, <2>4
<1>11. new = CopyOne(out, source, bs, a, b)
  BY DEF new, w, size, block, CopyOne
<1> QED
  BY <1>8, <1>9, <1>10, <1>11 DEF size, C, Replaced

\* One block more.
LEMMA CopyBlockHolds ==
    ASSUME NEW B, NEW source \in Seq(B), NEW bs \in Nat \ {0}, NEW from, NEW to,
           Targets(from, Blocks(source, bs)), Targets(to, Blocks(source, bs)),
           Apart(to, Blocks(source, bs)),
           NEW n \in 0 .. Blocks(source, bs) - 1,
           NEW out, Held(B, out, n, source, bs, from, to)
    PROVE  Held(B, CopyOne(out, source, bs, from[n], to[n]), n + 1, source, bs, from, to)
<1> DEFINE m == Blocks(source, bs)
           size == Len(source)
           new == CopyOne(out, source, bs, from[n], to[n])
<1>1. m \in Nat /\ size \in Nat /\ m = size \div bs
  BY BlocksType DEF Blocks
<1>2. from[n] \in 0 .. m - 1 /\ to[n] \in 0 .. m - 1
  BY DEF Targets
<1>3. out \in Seq(B \cup {0}) /\ Len(out) = Len(source)
  BY DEF Held
<1>4. Replaced(B, new, out, source, bs, from[n], to[n])
  BY <1>2, <1>3, CopyBlockBytes, Zenon
<1> HIDE DEF new, m
<1>5. ASSUME NEW k \in 0 .. n, NEW o \in 0 .. bs - 1
      PROVE  new[BytePos(to[k], o, bs)] = source[BytePos(from[k], o, bs)]
  <2>1. CASE k = n
    BY <1>4, <2>1 DEF Replaced
  <2>2. CASE k # n
    <3>1. k \in 0 .. n - 1 /\ k \in 0 .. m - 1 /\ n \in 0 .. m - 1
      BY <1>1, <2>2 DEF m
    <3>2. to[k] \in 0 .. m - 1 /\ to[k] \in Nat /\ to[k] # to[n]
      BY <1>1, <2>2, <3>1 DEF Targets, Apart, m
    <3>3. BytePos(to[k], o, bs) \in 1 .. size /\ BlockOf(BytePos(to[k], o, bs), bs) = to[k]
      <4>1. to[k] \in 0 .. (size \div bs) - 1 /\ size \div bs \in Nat /\ size \in Nat
        BY <1>1, <3>2
      <4> HIDE DEF size
      <4> QED
        BY <3>2, <4>1, InsideBuffer, JoinPosition
    <3>4. new[BytePos(to[k], o, bs)] = out[BytePos(to[k], o, bs)]
      BY <1>4, <3>2, <3>3 DEF Replaced
    <3> QED
      BY <3>1, <3>4 DEF Held
  <2> QED
    BY <2>1, <2>2
<1>6. ASSUME NEW p \in 1 .. size, \A k \in 0 .. n : to[k] # BlockOf(p, bs)
      PROVE  new[p] = 0
  <2>1. BlockOf(p, bs) # to[n] /\ \A k \in 0 .. n - 1 : to[k] # BlockOf(p, bs)
    BY <1>6
  <2> QED
    BY <1>4, <2>1 DEF Held, Replaced
<1>7. (n + 1) - 1 = n
  OBVIOUS
<1> QED
  BY <1>4, <1>5, <1>6, <1>7 DEF Held, Replaced, new

\* Copying all blocks, one by one.
LEMMA CopiedHolds ==
    ASSUME NEW B, NEW source \in Seq(B), NEW bs \in Nat \ {0}, NEW from, NEW to,
           Targets(from, Blocks(source, bs)), Targets(to, Blocks(source, bs)),
           Apart(to, Blocks(source, bs))
    PROVE  \A n \in 0 .. Blocks(source, bs) :
               Held(B, Copied(source, bs, from, to)[n], n, source, bs, from, to)
<1> DEFINE m == Blocks(source, bs)
           size == Len(source)
           S == {g \in Seq(B \cup {0}) : Len(g) = size}
           blank == [p \in 1 .. size |-> 0]
           step == [n \in Nat |-> [g \in S |->
                       IF n < m THEN CopyOne(g, source, bs, from[n], to[n]) ELSE g]]
           Eq(out) == out = [n \in 0 .. m |->
               IF n = 0 THEN [p \in 1 .. Len(source) |-> 0]
               ELSE LET block == ReadAt(source, from[n - 1] * bs, bs)
                    IN  TruncateTo(WriteAt(out[n - 1], to[n - 1] * bs, block, 0), Len(source))]
           W == Copied(source, bs, from, to)
<1>1. m \in Nat /\ size \in Nat
  BY BlocksType
<1>2. blank \in S
  BY <1>1
<1>3. \A n \in 0 .. m - 1 : from[n] \in 0 .. m - 1 /\ to[n] \in 0 .. m - 1
  BY DEF Targets
<1>4. step \in [Nat -> [S -> S]]
  <2>1. ASSUME NEW n \in Nat, NEW g \in S
        PROVE  (IF n < m THEN CopyOne(g, source, bs, from[n], to[n]) ELSE g) \in S
    <3>1. CASE n < m
      <4>1. from[n] \in 0 .. m - 1 /\ to[n] \in 0 .. m - 1
        BY <1>1, <1>3, <3>1
      <4>2. g \in Seq(B \cup {0}) /\ Len(g) = Len(source)
        OBVIOUS
      <4>3. Replaced(B, CopyOne(g, source, bs, from[n], to[n]), g, source, bs, from[n], to[n])
        BY <4>1, <4>2, CopyBlockBytes, Zenon
      <4> QED
        BY <3>1, <4>3 DEF Replaced
    <3>2. CASE ~ (n < m)
      BY <3>2
    <3> QED
      BY <3>1, <3>2
  <2> HIDE DEF S
  <2> QED
    BY <2>1
<1> HIDE DEF S, step, blank
<1>5. PICK g : g \in [Nat -> S] /\ Follows(g, blank, step)
  BY <1>2, <1>4, Recursion, Zenon
<1> DEFINE q == [n \in 0 .. m |-> g[n]]
<1>6. ASSUME NEW n \in 0 .. m, n # 0
      PROVE  n - 1 \in Nat /\ n - 1 \in 0 .. m /\ n - 1 < m /\ (n - 1) + 1 = n
  BY <1>1, <1>6
<1>7. Eq(q)
  <2>1. ASSUME NEW n \in 0 .. m, n # 0
        PROVE  q[n] = CopyOne(q[n - 1], source, bs, from[n - 1], to[n - 1])
    <3> HIDE DEF m
    <3>1. g[n] = step[n - 1][g[n - 1]]
      BY <1>5, <1>6, <2>1, Zenon DEF Follows
    <3>2. g[n - 1] \in S
      BY <1>5, <1>6, <2>1
    <3>3. step[n - 1][g[n - 1]] = CopyOne(g[n - 1], source, bs, from[n - 1], to[n - 1])
      BY <1>6, <2>1, <3>2 DEF step
    <3> QED
      BY <1>6, <2>1, <3>1, <3>3
  <2>2. q[0] = blank
    BY <1>1, <1>5 DEF Follows
  <2>3. q = [n \in 0 .. m |-> q[n]]
    OBVIOUS
  <2> HIDE DEF q, m
  <2>4. \A n \in 0 .. m :
            q[n] = IF n = 0 THEN [p \in 1 .. Len(source) |-> 0]
                   ELSE TruncateTo(WriteAt(q[n - 1], to[n - 1] * bs,
                                           ReadAt(source, from[n - 1] * bs, bs), 0), Len(source))
    BY <2>1, <2>2, Zenon DEF CopyOne, blank
  <2> QED
    BY <2>3, <2>4, Zenon
<1>8. Eq(W)
  <2>1. W = CHOOSE out : Eq(out)
    BY Zenon DEF Copied
  <2> HIDE DEF W, q, Eq
  <2> QED
    BY <1>7, <2>1, Zenon
<1> HIDE DEF W
<1>9. W[0] = blank
  BY <1>1, <1>8 DEF blank
<1>10. ASSUME NEW n \in 0 .. m - 1
       PROVE  W[n + 1] = CopyOne(W[n], source, bs, from[n], to[n])
  <2>1. n + 1 \in 0 .. m /\ n + 1 # 0 /\ (n + 1) - 1 = n
    BY <1>1
  <2> HIDE DEF m
  <2> QED
    BY <1>8, <2>1, Zenon DEF CopyOne
<1>11. Held(B, W[0], 0, source, bs, from, to)
  <2>1. blank \in Seq(B \cup {0}) /\ Len(blank) = Len(source)
    BY <1>2 DEF S
  <2>2. \A p \in 1 .. Len(source) : blank[p] = 0
    BY DEF blank
  <2>3. \A k \in 0 .. 0 - 1 : FALSE
    OBVIOUS
  <2> QED
    BY <1>9, <2>1, <2>2, <2>3, Zenon DEF Held
<1> DEFINE T == {n \in Nat : n <= m => Held(B, W[n], n, source, bs, from, to)}
<1>12. 0 \in T
  BY <1>11
<1>13. ASSUME NEW n \in T PROVE n + 1 \in T
  <2>1. CASE n + 1 <= m
    <3>1. n \in 0 .. m - 1 /\ Held(B, W[n], n, source, bs, from, to)
      BY <1>1, <2>1
    <3>2. Held(B, CopyOne(W[n], source, bs, from[n], to[n]), n + 1, source, bs, from, to)
      BY <3>1, CopyBlockHolds, Zenon
    <3>3. Held(B, W[n + 1], n + 1, source, bs, from, to)
      BY <1>10, <3>1, <3>2, Zenon
    <3> QED
      BY <3>3
  <2> QED
    BY <2>1
<1>14. T = Nat
  <2> HIDE DEF T
  <2>1. T \in SUBSET Nat
    BY DEF T
  <2> QED
    BY <1>12, <1>13, <2>1, Induction
<1> QED
  <2>1. \A n \in 0 .. m : n \in Nat /\ n <= m
    BY <1>1
  <2>2. \A n \in 0 .. m : Held(B, W[n], n, source, bs, from, to)
    BY <1>14, <2>1
  <2> QED
    BY <2>2 DEF W

\* The positions from the first byte of a block on are those of later blocks.
LEMMA BlockOrder ==
    ASSUME NEW bs \in Nat \ {0}, NEW b \in Nat, NEW m \in Nat, NEW o \in 0 .. bs - 1,
           NEW p, p = b * bs + o + 1
    PROVE  b >= m <=> m * bs < p
<1>1. b * bs \in Nat /\ m * bs \in Nat
  BY SMTT(30)
<1>2. CASE b >= m
  <2>1. PICK e \in Nat : b = m + e
    <3>1. b - m \in Nat /\ b = m + (b - m)
      BY <1>2
    <3> QED
      BY <3>1
  <2>2. b * bs = m * bs + e * bs /\ e * bs \in Nat
    BY <2>1, SMTT(30)
  <2> QED
    BY <1>1, <1>2, <2>2
<1>3. CASE b < m
  <2>1. PICK e \in Nat : m = b + 1 + e
    <3>1. m - b - 1 \in Nat /\ m = b + 1 + (m - b - 1)
      BY <1>3
    <3> QED
      BY <3>1
  <2>2. m * bs = b * bs + bs + e * bs /\ e * bs \in Nat
    BY <2>1, SMTT(30)
  <2> QED
    BY <1>1, <1>3, <2>2
<1> QED
  BY <1>2, <1>3

\* The whole file: the blocks where they were to go, the tail in its place.
Laid(B, out, source, bs, from, to) ==
    /\ out \in Seq(B \cup {0}) /\ Len(out) = Len(source)
    /\ \A k \in 0 .. Blocks(source, bs) - 1, o \in 0 .. bs - 1 :
           out[BytePos(to[k], o, bs)] = source[BytePos(from[k], o, bs)]
    /\ \A p \in 1 .. Len(source) :
           IF BlockOf(p, bs) >= Blocks(source, bs) THEN out[p] = source[p]
           ELSE (\A k \in 0 .. Blocks(source, bs) - 1 : to[k] # BlockOf(p, bs)) => out[p] = 0

LEMMA CopyBlocksHolds ==
    ASSUME NEW B, NEW source \in Seq(B), NEW bs \in Nat \ {0}, NEW from, NEW to,
           Targets(from, Blocks(source, bs)), Targets(to, Blocks(source, bs)),
           Apart(to, Blocks(source, bs))
    PROVE  Laid(B, CopyBlocks(source, bs, from, to), source, bs, from, to)
<1> DEFINE m == Blocks(source, bs)
           size == Len(source)
           C == B \cup {0}
           out == Copied(source, bs, from, to)[m]
           tail == ReadAt(source, m * bs, size - m * bs)
           new == CopyBlocks(source, bs, from, to)
<1>1. m \in Nat /\ size \in Nat /\ m = size \div bs
  BY BlocksType DEF Blocks
<1>2. Held(B, out, m, source, bs, from, to)
  <2>1. m \in 0 .. m
    BY <1>1
  <2> HIDE DEF m
  <2> QED
    BY <2>1, CopiedHolds, Zenon DEF m
<1>3. PICK x \in Nat : x = m * bs /\ x <= size /\ size < x + bs
  <2>1. m * bs \in Nat /\ m * bs <= size /\ size < m * bs + bs
    <3> HIDE DEF m, size
    <3>1. \A z \in Nat : (z \div bs) \in Nat /\ z % bs \in 0 .. bs - 1 /\ z = bs * (z \div bs) + (z % bs)
      BY Division
    <3>2. size % bs \in 0 .. bs - 1 /\ size = bs * m + (size % bs)
      BY <1>1, <3>1
    <3>3. PICK r \in 0 .. bs - 1 : size = bs * m + r
      BY <3>2
    <3>4. bs * m = m * bs /\ m * bs \in Nat
      BY <1>1, SMTT(30)
    <3> QED
      BY <1>1, <3>3, <3>4
  <2> QED
    BY <2>1
<1> DEFINE d == size - x
<1>4. d \in Nat /\ x + d = size
  BY <1>1, <1>3
<1>5. tail \in Seq(B) /\ Piece(tail, source, x, d)
  <2>1. x + d <= Len(source) /\ x \in Nat
    BY <1>3, <1>4
  <2>2. tail = ReadAt(source, x, d)
    BY <1>3
  <2> HIDE DEF d, tail, size
  <2>3. ReadAt(source, x, d) \in Seq(B) /\ Piece(ReadAt(source, x, d), source, x, d)
    BY <1>4, <2>1, ReadAtInside, Zenon
  <2> QED
    BY <2>2, <2>3, Zenon
<1>6. out \in Seq(C) /\ Len(out) = size
  BY <1>2 DEF Held
<1>7. new = [i \in 1 .. size |-> IF i \in x + 1 .. x + d THEN tail[i - x] ELSE out[i]]
  <2>1. new = WriteAt(out, x, tail, 0)
    BY <1>3, Zenon DEF CopyBlocks
  <2>2. Len(tail) = d
    BY <1>5 DEF Piece
  <2> HIDE DEF new, out, tail, d
  <2>3. Greatest(Len(out), x + Len(tail)) = size
    BY <1>1, <1>3, <1>4, <1>6, <2>2 DEF Greatest
  <2> HIDE DEF size
  <2> QED
    BY <1>6, <2>1, <2>2, <2>3 DEF WriteAt
<1> HIDE DEF new, out, tail, C, d
<1>8. ASSUME NEW i \in 1 .. size
      PROVE  IF i \in x + 1 .. x + d THEN new[i] = source[i] /\ new[i] \in C
             ELSE new[i] = out[i] /\ new[i] \in C
  <2> HIDE DEF size
  <2>1. CASE i \in x + 1 .. x + d
    <3>1. i - x \in 1 .. d /\ x + (i - x) = i
      BY <1>1, <1>3, <1>4, <2>1
    <3>2. new[i] = tail[i - x] /\ tail[i - x] = source[i] /\ tail[i - x] \in B
      BY <1>5, <1>7, <2>1, <3>1 DEF Piece
    <3> QED
      BY <2>1, <3>2 DEF C
  <2>2. CASE i \notin x + 1 .. x + d
    BY <1>6, <1>7, <2>2
  <2> QED
    BY <2>1, <2>2
<1>9. new \in Seq(C) /\ Len(new) = size
  <2>1. \A i \in 1 .. size : new[i] \in C
    BY <1>8
  <2>2. new = [i \in 1 .. size |-> new[i]]
    BY <1>7
  <2> QED
    BY <1>1, <2>1, <2>2
<1>10. ASSUME NEW p \in 1 .. size
       PROVE  p \in x + 1 .. x + d <=> BlockOf(p, bs) >= m
  <2>1. p \in Nat \ {0}
    BY <1>1
  <2>2. BlockOf(p, bs) \in Nat /\ WithinBlock(p, bs) \in 0 .. bs - 1
        /\ p = BytePos(BlockOf(p, bs), WithinBlock(p, bs), bs)
    BY <2>1, SplitPosition
  <2>3. PICK b \in Nat, o \in 0 .. bs - 1 : b = BlockOf(p, bs) /\ p = b * bs + o + 1
    BY <2>2 DEF BytePos
  <2> HIDE DEF m
  <2>4. b >= m <=> m * bs < p
    BY <1>1, <2>3, BlockOrder, Zenon
  <2>5. p \in x + 1 .. x + d <=> x < p
    BY <1>1, <1>3, <1>4, <2>1
  <2>6. x < p <=> m * bs < p
    BY <1>3
  <2> QED
    BY <2>3, <2>4, <2>5, <2>6
<1>11. ASSUME NEW k \in 0 .. m - 1, NEW o \in 0 .. bs - 1
       PROVE  new[BytePos(to[k], o, bs)] = source[BytePos(from[k], o, bs)]
  <2>1. to[k] \in 0 .. m - 1 /\ to[k] \in Nat
    BY <1>1 DEF Targets
  <2>2. BytePos(to[k], o, bs) \in 1 .. size /\ BlockOf(BytePos(to[k], o, bs), bs) = to[k]
    <3>1. to[k] \in 0 .. (size \div bs) - 1 /\ size \div bs \in Nat /\ size \in Nat
      BY <1>1, <2>1
    <3> HIDE DEF size
    <3> QED
      BY <2>1, <3>1, InsideBuffer, JoinPosition
  <2>3. BytePos(to[k], o, bs) \notin x + 1 .. x + d
    <3>1. ~ (BlockOf(BytePos(to[k], o, bs), bs) >= m)
      BY <1>1, <2>1, <2>2
    <3> QED
      BY <1>10, <2>2, <3>1
  <2>4. new[BytePos(to[k], o, bs)] = out[BytePos(to[k], o, bs)]
    BY <1>8, <2>2, <2>3
  <2> QED
    BY <1>2, <2>4 DEF Held
<1>12. ASSUME NEW p \in 1 .. size, \A k \in 0 .. m - 1 : to[k] # BlockOf(p, bs),
              ~ (BlockOf(p, bs) >= m)
       PROVE  new[p] = 0
  <2>1. new[p] = out[p]
    BY <1>8, <1>10, <1>12
  <2> QED
    BY <1>2, <1>12, <2>1 DEF Held
<1>13. \A p \in 1 .. size : BlockOf(p, bs) >= m => new[p] = source[p]
  BY <1>8, <1>10
<1> QED
  BY <1>9, <1>11, <1>12, <1>13 DEF Laid, new, C

LEMMA InOrderTargets ==
    ASSUME NEW n \in Nat
    PROVE  /\ Targets(InOrder(n), n) /\ Apart(InOrder(n), n)
           /\ \A k \in 0 .. n - 1 : InOrder(n)[k] = k
BY DEF InOrder, Targets, Apart

LEMMA PermuteFileLays ==
    ASSUME NEW B, NEW raw \in Seq(B), NEW bs \in Nat \ {0}, NEW target,
           Targets(target, Blocks(raw, bs)), Apart(target, Blocks(raw, bs))
    PROVE  Laid(B, PermuteFile(raw, bs, target), raw, bs, InOrder(Blocks(raw, bs)), target)
<1>1. Blocks(raw, bs) \in Nat
  BY BlocksType
<1>2. Targets(InOrder(Blocks(raw, bs)), Blocks(raw, bs))
  BY <1>1, InOrderTargets, Zenon
<1> QED
  BY <1>2, CopyBlocksHolds, Zenon DEF PermuteFile

\* restore_file undoes permute_file, whatever the size of the file and the
\* one-to-one layout of its complete blocks.
THEOREM RestoreFileUndoesPermute ==
    ASSUME NEW B, NEW raw \in Seq(B), NEW bs \in Nat \ {0}, NEW target,
           Targets(target, Blocks(raw, bs)), Apart(target, Blocks(raw, bs))
    PROVE  RestoreFile(PermuteFile(raw, bs, target), bs, target) = raw
<1> DEFINE m == Blocks(raw, bs)
           q == PermuteFile(raw, bs, target)
           r == RestoreFile(q, bs, target)
<1>1. m \in Nat /\ Len(raw) \in Nat
  BY BlocksType
<1>2. Laid(B, q, raw, bs, InOrder(m), target)
  BY PermuteFileLays
<1>3. q \in Seq(B \cup {0}) /\ Len(q) = Len(raw) /\ Blocks(q, bs) = m
  <2>1. q \in Seq(B \cup {0}) /\ Len(q) = Len(raw)
    BY <1>2 DEF Laid
  <2> QED
    BY <2>1 DEF Blocks
<1>4. Targets(InOrder(m), m) /\ Apart(InOrder(m), m) /\ \A k \in 0 .. m - 1 : InOrder(m)[k] = k
  <2> HIDE DEF m
  <2> QED
    BY <1>1, InOrderTargets, Zenon
<1>5. Laid(B \cup {0}, r, q, bs, target, InOrder(m))
  <2>1. r = CopyBlocks(q, bs, target, InOrder(m))
    BY <1>3 DEF RestoreFile
  <2> HIDE DEF q, r
  <2>2. Targets(target, Blocks(q, bs)) /\ Targets(InOrder(m), Blocks(q, bs))
        /\ Apart(InOrder(m), Blocks(q, bs))
    BY <1>3, <1>4
  <2>3. Laid(B \cup {0}, CopyBlocks(q, bs, target, InOrder(m)), q, bs, target, InOrder(m))
    BY <1>3, <2>2, CopyBlocksHolds, Zenon
  <2> QED
    BY <2>1, <2>3
<1> HIDE DEF q, r, m
<1>6. ASSUME NEW p \in 1 .. Len(raw) PROVE r[p] = raw[p]
  <2>1. p \in Nat \ {0}
    BY <1>1
  <2>2. PICK b \in Nat, o \in 0 .. bs - 1 : b = BlockOf(p, bs) /\ p = BytePos(b, o, bs)
    BY <2>1, SplitPosition
  <2>3. CASE b >= m
    BY <1>2, <1>3, <1>5, <2>2, <2>3 DEF Laid, m
  <2>4. CASE b < m
    <3>1. b \in 0 .. m - 1
      BY <1>1, <2>4
    <3>2. r[BytePos(InOrder(m)[b], o, bs)] = q[BytePos(target[b], o, bs)]
      BY <1>3, <1>5, <3>1 DEF Laid
    <3>3. q[BytePos(target[b], o, bs)] = raw[BytePos(InOrder(m)[b], o, bs)]
      BY <1>2, <3>1 DEF Laid, m
    <3>4. InOrder(m)[b] = b
      BY <1>4, <3>1
    <3> QED
      BY <2>2, <3>2, <3>3, <3>4
  <2> QED
    BY <1>1, <2>2, <2>3, <2>4
<1>7. r \in Seq(B \cup {0} \cup {0}) /\ Len(r) = Len(raw)
  BY <1>3, <1>5 DEF Laid
<1>8. r = raw
  <2>1. r = [p \in 1 .. Len(raw) |-> r[p]] /\ raw = [p \in 1 .. Len(raw) |-> raw[p]]
    BY <1>7
  <2> QED
    BY <1>6, <2>1
<1> QED
  BY <1>8 DEF r, q

\* permute_file and permute_blocks lay their input out alike (krp.py has two
\* implementations of one format).
THEOREM FileLaidOutAsBuffer ==
    ASSUME NEW B, NEW raw \in Seq(B), NEW bs \in Nat \ {0}, NEW target,
           Targets(target, Blocks(raw, bs)), Apart(target, Blocks(raw, bs))
    PROVE  PermuteFile(raw, bs, target) = PermuteBlocks(raw, bs, target)
<1> DEFINE m == Blocks(raw, bs)
           q == PermuteFile(raw, bs, target)
           From(b) == {i \in 0 .. m - 1 : target[i] = b}
           Latest(S) == CHOOSE i \in S : \A j \in S : j <= i
           w == PermuteBlocks(raw, bs, target)
<1>1. m \in Nat /\ Len(raw) \in Nat
  BY BlocksType
<1>2. Laid(B, q, raw, bs, InOrder(m), target)
  BY PermuteFileLays
<1>3. \A k \in 0 .. m - 1 : InOrder(m)[k] = k
  <2> HIDE DEF m
  <2> QED
    BY <1>1, InOrderTargets, Zenon
<1>4. q = [p \in 1 .. Len(raw) |-> q[p]]
  <2>1. q \in Seq(B \cup {0}) /\ Len(q) = Len(raw)
    BY <1>2 DEF Laid
  <2> HIDE DEF q
  <2> QED
    BY <2>1
<1> HIDE DEF q
<1>5. ASSUME NEW b \in 0 .. m - 1, NEW o \in 0 .. bs - 1
      PROVE  q[BytePos(target[b], o, bs)] = raw[BytePos(b, o, bs)]
  <2> HIDE DEF m
  <2>1. q[BytePos(target[b], o, bs)] = raw[BytePos(InOrder(m)[b], o, bs)]
    BY <1>2 DEF Laid, m
  <2> QED
    BY <1>3, <2>1
<1>6. CASE m <= 1
  <2>1. w = raw
    BY <1>6 DEF PermuteBlocks
  <2>2. ASSUME NEW p \in 1 .. Len(raw) PROVE q[p] = raw[p]
    <3>1. p \in Nat \ {0}
      BY <1>1
    <3>2. PICK b \in Nat, o \in 0 .. bs - 1 : b = BlockOf(p, bs) /\ p = BytePos(b, o, bs)
      BY <3>1, SplitPosition
    <3>3. CASE b >= m
      BY <1>2, <3>2, <3>3 DEF Laid
    <3>4. CASE b < m
      <4> HIDE DEF m
      <4>1. b = 0 /\ b \in 0 .. m - 1 /\ m = 1
        BY <1>1, <1>6, <3>4
      <4>2. target[b] = b
        <5>1. Targets(target, m)
          BY DEF m
        <5> QED
          BY <4>1, <5>1 DEF Targets
      <4> QED
        BY <1>5, <3>2, <4>1, <4>2
    <3> HIDE DEF m
    <3> QED
      BY <1>1, <3>2, <3>3, <3>4
  <2>3. raw = [p \in 1 .. Len(raw) |-> raw[p]]
    OBVIOUS
  <2> QED
    BY <1>4, <2>1, <2>2, <2>3 DEF q
<1>7. CASE m > 1
  <2> DEFINE val(p) == IF BlockOf(p, bs) >= m THEN raw[p]
                       ELSE IF From(BlockOf(p, bs)) = {} THEN 0
                       ELSE raw[BytePos(Latest(From(BlockOf(p, bs))), WithinBlock(p, bs), bs)]
  <2>1. w = [p \in 1 .. Len(raw) |-> val(p)]
    BY <1>1, <1>7 DEF PermuteBlocks
  <2>2. ASSUME NEW p \in 1 .. Len(raw) PROVE q[p] = val(p)
    <3>1. p \in Nat \ {0}
      BY <1>1
    <3> DEFINE b == BlockOf(p, bs)
               o == WithinBlock(p, bs)
    <3>2. b \in Nat /\ o \in 0 .. bs - 1 /\ p = BytePos(b, o, bs)
      BY <3>1, SplitPosition
    <3> HIDE DEF b, o, m
    <3>3. CASE b >= m
      <4>1. q[p] = raw[p]
        BY <1>2, <3>3 DEF Laid, b, m
      <4> QED
        BY <3>3, <4>1 DEF b
    <3>4. CASE ~ (b >= m) /\ From(b) = {}
      <4>1. \A k \in 0 .. m - 1 : target[k] # b
        BY <3>4
      <4>2. q[p] = 0
        BY <1>2, <3>4, <4>1 DEF Laid, b, m
      <4> QED
        BY <3>4, <4>2 DEF b
    <3>5. CASE ~ (b >= m) /\ From(b) # {}
      <4>1. PICK k \in 0 .. m - 1 : target[k] = b
        BY <3>5
      <4>2. From(b) = {k}
        <5>1. Apart(target, m)
          BY DEF m
        <5> QED
          BY <4>1, <5>1 DEF Apart
      <4>3. Latest({k}) = k
        BY <1>1
      <4>4. q[p] = raw[BytePos(k, o, bs)]
        BY <1>5, <3>2, <4>1
      <4>5. val(p) = raw[BytePos(Latest(From(b)), o, bs)]
        <5> HIDE DEF From, Latest
        <5> QED
          BY <3>5 DEF b, o
      <4> HIDE DEF From, Latest, val
      <4> QED
        BY <4>2, <4>3, <4>4, <4>5
    <3> QED
      BY <3>3, <3>4, <3>5
  <2> HIDE DEF val
  <2>3. q = w
    BY <1>4, <2>1, <2>2
  <2> QED
    BY <2>3 DEF q
<1> QED
  <2> HIDE DEF m
  <2> QED
    BY <1>1, <1>6, <1>7
=============================================================================
