--------------------------- MODULE LibraryProofs ---------------------------
(***************************************************************************)
(* The parts that compute, for every argument: the layout of krp.py can be *)
(* undone, in memory and in files; containers and image carriers give back *)
(* what was put in or nothing; the registry lists, describes, loads and    *)
(* locks the same provider; the searches find what is there; the merge     *)
(* sort is a stable one; and what Protocol 2 writes of a value is its only *)
(* form, and is read back.                                                 *)
(***************************************************************************)
EXTENDS PureParts, ProtocolProofs

\* What a behaviour of PureParts keeps: the task, and the layouts computed of it.
TaskInv ==
    /\ \E a \in DOMAIN Tasks : task \in Tasks[a]
    /\ finished /\ task.name = "layout" => layout = Layout(task.count, task.f)
    /\ finished /\ task.name = "carrier" => layout = Layouts(task)

LEMMA TaskKept == Spec => []TaskInv
<1>1. Init => TaskInv
  BY DEF Init, TaskInv
<1>2. TaskInv /\ [Next]_vars => TaskInv'
  BY DEF TaskInv, Next, vars
<1> QED
  BY <1>1, <1>2, PTL DEF Spec
-----------------------------------------------------------------------------
(* The layout.                                                             *)

\* The bytes of a task make as many blocks as it names.
LEMMA TaskBlocks ==
    ASSUME NEW count \in Nat, NEW bs \in Nat \ {0}, NEW tail \in 0 .. bs - 1
    PROVE  /\ Bytes(count * bs + tail) \in Seq(Nat)
           /\ Blocks(Bytes(count * bs + tail), bs) = count
<1>1. PICK len \in Nat : len = count * bs + tail
  <2>1. count * bs \in Nat
    BY SMTT(30)
  <2>2. count * bs + tail \in Nat
    BY <2>1
  <2> QED
    BY <2>2
<1>2. Bytes(len) \in Seq(Nat) /\ Len(Bytes(len)) = len
  BY DEF Bytes
<1>3. len \div bs = count
  <2>1. len \div bs \in Nat /\ len % bs \in 0 .. bs - 1 /\ len = bs * (len \div bs) + (len % bs)
    BY Division
  <2>2. PICK q \in Nat, r \in 0 .. bs - 1 : q = len \div bs /\ len = bs * q + r
    BY <2>1
  <2>3. bs * q = q * bs
    BY <2>2
  <2>4. q * bs + r = count * bs + tail
    BY <1>1, <2>2, <2>3
  <2>5. q = count
    BY <2>4, UniqueDivision
  <2> QED
    BY <2>2, <2>5
<1> QED
  BY <1>1, <1>2, <1>3 DEF Blocks

\* Whatever the number and the size of the blocks, the length of the tail and
\* the values of the rounds: every block has a target of its own within the
\* walk limit, and restore undoes permute, of buffers and of files.
LEMMA LayoutIsReversible ==
    ASSUME NEW count \in Nat, NEW bs \in Nat \ {0}, NEW tail \in 0 .. bs - 1, NEW f,
           count > 1 => RoundValues(f, HalfBits(count)), Found(Layout(count, f), count)
    PROVE  /\ OneToOne(count, Layout(count, f))
           /\ Reversible(Bytes(count * bs + tail), bs, Layout(count, f))
<1> DEFINE target == Layout(count, f)
           raw == Bytes(count * bs + tail)
<1>1. Found(target, count)
  OBVIOUS
<1>2. /\ \A i \in 0 .. count - 1 : target[i] \in 0 .. count - 1
      /\ \A i, j \in 0 .. count - 1 : target[i] = target[j] => i = j
  BY <1>1, LayoutOneToOne
<1>3. DOMAIN target = 0 .. count - 1
  BY DEF Layout
<1>4. raw \in Seq(Nat) /\ Blocks(raw, bs) = count
  BY TaskBlocks
<1> HIDE DEF target, raw
<1>5. OneToOne(count, target)
  BY <1>2, <1>3 DEF OneToOne
<1>6. Targets(target, Blocks(raw, bs)) /\ Apart(target, Blocks(raw, bs))
  BY <1>2, <1>4 DEF Targets, Apart
<1>7. RestoreBlocks(PermuteBlocks(raw, bs, target), bs, target) = raw
  <2>1. /\ \A i \in 0 .. Blocks(raw, bs) - 1 : target[i] \in 0 .. Blocks(raw, bs) - 1
        /\ \A i, j \in 0 .. Blocks(raw, bs) - 1 : target[i] = target[j] => i = j
    BY <1>2, <1>4
  <2> QED
    BY <1>4, <2>1, RestoreUndoesPermute
<1>8. RestoreFile(PermuteFile(raw, bs, target), bs, target) = raw
  BY <1>4, <1>6, RestoreFileUndoesPermute
<1>9. PermuteFile(raw, bs, target) = PermuteBlocks(raw, bs, target)
  BY <1>4, <1>6, FileLaidOutAsBuffer
<1>10. Reversible(raw, bs, target)
  BY <1>7, <1>8, <1>9 DEF Reversible
<1> QED
  BY <1>5, <1>10 DEF target, raw

\* The layout of krp.py is one to one and can be undone, in every task.
THEOREM LayoutsStand == Spec => []LayoutReversible
<1>1. TaskInv => LayoutReversible
  <2> SUFFICES ASSUME TaskInv, Done("layout")
               PROVE  /\ FewSpare(task.count) => Found(layout, task.count)
                      /\ Found(layout, task.count) =>
                             /\ OneToOne(task.count, layout)
                             /\ Reversible(Bytes(task.count * task.bs + task.tail), task.bs, layout)
    BY DEF LayoutReversible
  <2>1. layout = Layout(task.count, task.f)
    BY DEF TaskInv, Done
  <2>2. /\ task.count \in Nat /\ task.bs \in Nat \ {0} /\ task.tail \in 0 .. task.bs - 1
        /\ task.count > 1 => RoundValues(task.f, HalfBits(task.count))
    BY LayoutArguments, Zenon DEF TaskInv, Done
  <2>3. FewSpare(task.count) => Found(layout, task.count)
    BY <2>1, <2>2, LayoutFound DEF FewSpare
  <2> QED
    BY <2>1, <2>2, <2>3, LayoutIsReversible
<1> QED
  BY <1>1, TaskKept, PTL
-----------------------------------------------------------------------------
(* Joining sequences.                                                      *)

\* g[i] is what the first i sequences of s make.
Joins(B, g, s) ==
    /\ g \in [0 .. Len(s) -> Seq(B)] /\ g[0] = <<>>
    /\ \A i \in 1 .. Len(s) : g[i] = g[i - 1] \o s[i]

LEMMA FlattenJoins ==
    ASSUME NEW B, NEW s \in Seq(Seq(B)), NEW g, Joins(B, g, s)
    PROVE  FlattenSeq(s) = g[Len(s)] /\ FlattenSeq(s) \in Seq(B)
<1> DEFINE n == Len(s)
           Eq(out) == out = [i \in 1 .. Len(s) |-> IF i = 1 THEN s[i] ELSE out[i - 1] \o s[i]]
           W == CHOOSE out : Eq(out)
           q == [i \in 1 .. n |-> g[i]]
<1>1. n \in Nat /\ \A i \in 1 .. n : s[i] \in Seq(B)
  OBVIOUS
<1>2. g \in [0 .. n -> Seq(B)] /\ g[0] = <<>> /\ \A i \in 1 .. n : g[i] = g[i - 1] \o s[i]
  BY DEF Joins
<1>3. g[n] \in Seq(B)
  BY <1>1, <1>2
<1>6. ASSUME n # 0 PROVE g[1] = s[1]
  <2>1. 1 \in 1 .. n /\ 1 - 1 = 0
    BY <1>1, <1>6
  <2>2. g[1] = g[1 - 1] \o s[1]
    BY <1>2, <2>1, Zenon
  <2>3. g[1] = <<>> \o s[1]
    BY <1>2, <2>1, <2>2
  <2>4. s[1] \in Seq(B)
    BY <1>1, <2>1
  <2>5. \A x \in Seq(B) : <<>> \o x = x
    OBVIOUS
  <2> QED
    BY <2>3, <2>4, <2>5, Zenon
<1>4. CASE n = 0
  <2>1. s = <<>>
    BY <1>4
  <2> QED
    BY <1>2, <1>3, <1>4, <2>1 DEF FlattenSeq
<1>5. CASE n # 0
  <2>1. FlattenSeq(s) = W[n]
    BY <1>5, Zenon DEF FlattenSeq
  <2>2. Eq(q)
    <3>1. \A i \in 1 .. n : q[i] = IF i = 1 THEN s[i] ELSE q[i - 1] \o s[i]
      <4> TAKE i \in 1 .. n
      <4>1. CASE i = 1
        BY <1>5, <1>6, <4>1
      <4>2. CASE i # 1
        <5>1. i - 1 \in 1 .. n
          BY <1>1, <4>2
        <5> QED
          BY <1>2, <4>2, <5>1
      <4> QED
        BY <4>1, <4>2
    <3>2. q = [i \in 1 .. n |-> q[i]]
      OBVIOUS
    <3> HIDE DEF q
    <3> QED
      BY <3>1, <3>2, Zenon
  <2>3. Eq(W)
    <3> HIDE DEF q, Eq
    <3> QED
      BY <2>2, Zenon
  <2> HIDE DEF W
  <2> DEFINE T == {k \in Nat : k + 1 <= n => W[k + 1] = g[k + 1]}
  <2>4. 0 \in T
    <3>1. W[1] = s[1]
      BY <1>1, <1>5, <2>3
    <3> QED
      BY <1>5, <1>6, <3>1
  <2>5. ASSUME NEW k \in T PROVE k + 1 \in T
    <3>1. CASE (k + 1) + 1 <= n
      <4>1. /\ (k + 1) + 1 \in 1 .. n /\ (k + 1) + 1 # 1 /\ ((k + 1) + 1) - 1 = k + 1
            /\ W[k + 1] = g[k + 1]
        BY <1>1, <3>1
      <4> DEFINE j == (k + 1) + 1
      <4>2. W[j] = W[j - 1] \o s[j]
        BY <2>3, <4>1
      <4>3. g[j] = g[j - 1] \o s[j]
        BY <1>2, <4>1
      <4>4. W[j] = g[j]
        BY <4>1, <4>2, <4>3
      <4> QED
        BY <4>4
    <3> QED
      BY <3>1
  <2>6. T = Nat
    <3> HIDE DEF T
    <3>1. T \in SUBSET Nat
      BY DEF T
    <3> QED
      BY <2>4, <2>5, <3>1, Induction
  <2>7. n - 1 \in Nat /\ (n - 1) + 1 = n
    BY <1>1, <1>5
  <2>8. W[n] = g[n]
    <3>1. n - 1 \in T
      BY <2>6, <2>7
    <3>2. (n - 1) + 1 <= n => W[(n - 1) + 1] = g[(n - 1) + 1]
      BY <3>1
    <3> QED
      BY <1>1, <2>7, <3>2
  <2> QED
    BY <1>3, <2>1, <2>8
<1> QED
  BY <1>4, <1>5

\* Whatever the sequences, something joins them.
LEMMA JoinsExist ==
    ASSUME NEW B, NEW s \in Seq(Seq(B))
    PROVE  \E g : Joins(B, g, s)
<1> DEFINE n == Len(s)
           S == Seq(B)
           step == [k \in Nat |-> [x \in S |-> IF k < n THEN x \o s[k + 1] ELSE x]]
<1>1. n \in Nat /\ \A i \in 1 .. n : s[i] \in Seq(B)
  OBVIOUS
<1>2. step \in [Nat -> [S -> S]]
  <2>1. ASSUME NEW k \in Nat, NEW x \in S
        PROVE  (IF k < n THEN x \o s[k + 1] ELSE x) \in S
    <3>1. CASE k < n
      <4>1. k + 1 \in 1 .. n
        BY <1>1, <3>1
      <4> QED
        BY <1>1, <4>1
    <3> QED
      BY <3>1
  <2> HIDE DEF S, n
  <2> QED
    BY <2>1
<1>3. <<>> \in S
  OBVIOUS
<1> HIDE DEF step, S
<1>4. PICK f \in [Nat -> S] : Follows(f, <<>>, step)
  BY <1>2, <1>3, Recursion, Zenon
<1> DEFINE g == [i \in 0 .. n |-> f[i]]
<1>5. \A i \in 1 .. n : g[i] = g[i - 1] \o s[i]
  <2> TAKE i \in 1 .. n
  <2>1. i - 1 \in Nat /\ i - 1 < n /\ i - 1 \in 0 .. n /\ i \in 0 .. n /\ (i - 1) + 1 = i
    BY <1>1
  <2>2. f[i] = step[i - 1][f[i - 1]]
    BY <1>4, <2>1 DEF Follows
  <2>3. f[i - 1] \in S
    BY <1>4, <2>1
  <2>4. step[i - 1][f[i - 1]] = f[i - 1] \o s[i]
    BY <2>1, <2>3 DEF step
  <2> QED
    BY <2>1, <2>2, <2>4
<1>6. g \in [0 .. n -> Seq(B)] /\ g[0] = <<>>
  BY <1>1, <1>4 DEF Follows, S
<1>7. Joins(B, g, s)
  BY <1>5, <1>6 DEF Joins
<1> QED
  BY <1>7

\* What is joined is a sequence over the same elements.
LEMMA FlattenType ==
    ASSUME NEW B, NEW s \in Seq(Seq(B))
    PROVE  FlattenSeq(s) \in Seq(B)
BY JoinsExist, FlattenJoins

\* One more sequence is joined at the end.
LEMMA FlattenAppend ==
    ASSUME NEW B, NEW s \in Seq(Seq(B)), NEW e \in Seq(B)
    PROVE  FlattenSeq(Append(s, e)) = FlattenSeq(s) \o e
<1> DEFINE n == Len(s)
           t == Append(s, e)
<1>1. PICK g : Joins(B, g, s)
  BY JoinsExist
<1>2. n \in Nat /\ t \in Seq(Seq(B)) /\ Len(t) = n + 1 /\ t[n + 1] = e /\ \A i \in 1 .. n : t[i] = s[i]
  OBVIOUS
<1>3. g \in [0 .. n -> Seq(B)] /\ g[0] = <<>> /\ \A i \in 1 .. n : g[i] = g[i - 1] \o s[i]
  BY <1>1 DEF Joins
<1> HIDE DEF n, t
<1> DEFINE h == [i \in 0 .. n + 1 |-> IF i <= n THEN g[i] ELSE g[n] \o e]
<1>4. g[n] \in Seq(B) /\ g[n] \o e \in Seq(B)
  BY <1>2, <1>3
<1>5. h \in [0 .. n + 1 -> Seq(B)] /\ h[0] = <<>> /\ h[n + 1] = g[n] \o e
  BY <1>2, <1>3, <1>4
<1>6. \A i \in 1 .. n + 1 : h[i] = h[i - 1] \o t[i]
  <2> TAKE i \in 1 .. n + 1
  <2>1. CASE i <= n
    <3>1. i \in 1 .. n /\ i - 1 \in 0 .. n /\ i \in 0 .. n
      BY <1>2, <2>1
    <3>2. g[i] = g[i - 1] \o s[i] /\ t[i] = s[i]
      BY <1>2, <1>3, <3>1, Zenon
    <3>3. h[i] = g[i] /\ h[i - 1] = g[i - 1]
      BY <1>2, <3>1
    <3> QED
      BY <3>2, <3>3
  <2>2. CASE i = n + 1
    <3>1. (n + 1) - 1 = n /\ n \in 0 .. n + 1
      BY <1>2
    <3>2. h[n] = g[n]
      BY <1>2, <3>1
    <3>3. h[n + 1] = h[n] \o t[n + 1]
      BY <1>2, <1>5, <3>2
    <3> HIDE DEF h
    <3> QED
      BY <2>2, <3>1, <3>3
  <2>3. i <= n \/ i = n + 1
    BY <1>2
  <2> QED
    BY <2>1, <2>2, <2>3
<1>7. Joins(B, h, t)
  BY <1>2, <1>5, <1>6 DEF Joins
<1>8. FlattenSeq(t) = h[n + 1]
  BY <1>2, <1>7, FlattenJoins
<1>9. FlattenSeq(s) = g[n]
  BY <1>1, FlattenJoins DEF n
<1> QED
  BY <1>5, <1>8, <1>9 DEF t

\* Consecutive pieces of a sequence join to it.
Cuts(cut, n, len) ==
    /\ cut \in [0 .. n -> 0 .. len] /\ cut[0] = 0 /\ cut[n] = len
    /\ \A i \in 1 .. n : cut[i - 1] <= cut[i]

ArePieces(pieces, s, n, cut) == pieces = [i \in 1 .. n |-> SubSeq(s, cut[i - 1] + 1, cut[i])]

LEMMA PiecesJoin ==
    ASSUME NEW B, NEW s \in Seq(B), NEW n \in Nat, NEW cut, Cuts(cut, n, Len(s)),
           NEW pieces, ArePieces(pieces, s, n, cut)
    PROVE  FlattenSeq(pieces) = s
<1> DEFINE len == Len(s)
           g == [i \in 0 .. n |-> SubSeq(s, 1, cut[i])]
<1>0. pieces = [i \in 1 .. n |-> SubSeq(s, cut[i - 1] + 1, cut[i])]
  BY DEF ArePieces
<1>1. /\ cut \in [0 .. n -> 0 .. len] /\ cut[0] = 0 /\ cut[n] = len
      /\ \A i \in 1 .. n : cut[i - 1] <= cut[i]
  BY DEF Cuts
<1>2. len \in Nat
  OBVIOUS
<1>3. ASSUME NEW i \in 1 .. n
      PROVE  /\ pieces[i] \in Seq(B) /\ g[i] = g[i - 1] \o pieces[i]
  <2>1. i - 1 \in 0 .. n /\ i \in 0 .. n
    OBVIOUS
  <2>2. PICK a \in 0 .. len : a = cut[i - 1]
    BY <1>1, <2>1
  <2>3. PICK b \in 0 .. len : b = cut[i]
    BY <1>1, <2>1
  <2>4. a <= b
    BY <1>1, <2>2, <2>3
  <2>5. pieces[i] = SubSeq(s, a + 1, b)
    BY <1>0, <2>2, <2>3
  <2>6. SubSeq(s, a + 1, b) \in Seq(B)
    BY <1>2
  <2>7. SubSeq(s, 1, b) = SubSeq(s, 1, a) \o SubSeq(s, a + 1, b)
    BY <1>2, <2>4
  <2> QED
    BY <2>1, <2>2, <2>3, <2>5, <2>6, <2>7
<1>4. pieces \in Seq(Seq(B)) /\ Len(pieces) = n
  <2>1. pieces \in [1 .. n -> Seq(B)]
    BY <1>0, <1>3
  <2> QED
    BY <2>1
<1>5. g \in [0 .. n -> Seq(B)] /\ g[0] = <<>>
  <2>1. ASSUME NEW i \in 0 .. n PROVE SubSeq(s, 1, cut[i]) \in Seq(B)
    <3>1. PICK a \in 0 .. len : a = cut[i]
      BY <1>1
    <3> QED
      BY <1>2, <3>1
  <2>2. SubSeq(s, 1, 0) = <<>>
    OBVIOUS
  <2> QED
    BY <1>1, <2>1, <2>2
<1>6. Joins(B, g, pieces)
  <2> HIDE DEF g
  <2> QED
    BY <1>3, <1>4, <1>5 DEF Joins
<1>7. g[n] = s
  BY <1>1, <1>2
<1> QED
  BY <1>4, <1>6, <1>7, FlattenJoins
-----------------------------------------------------------------------------
(* Containers.  k describes one: what it holds, its frame size, its key and *)
(* its identity.                                                           *)

CellsOf(k)      == Save(k.bytes, k.frame, k.key, k.id)
HeaderOf(k)     == Header(Len(k.bytes), k.frame, k.id)
CountOf(k)      == FrameCount(Len(k.bytes), k.frame)
PlainOf(k, i)   == ReadAt(k.bytes, (i - 1) * k.frame,
                          FrameLen((i - 1) * k.frame, Len(k.bytes), k.frame))
LengthOf(k, i)  == FrameLen((i - 1) * k.frame, Len(k.bytes), k.frame)
MetaOf(k, i)    == Meta(i - 1, LengthOf(k, i))
SealedOf(k, i)  == Seal(k.key, FrameNonce(HeaderOf(k), i - 1), PlainOf(k, i),
                        FrameAad(HeaderOf(k), i - 1, LengthOf(k, i)))
DigestOf(k)     == Seal(k.key, FrameNonce(HeaderOf(k), CountOf(k)), k.bytes,
                        FinalAad(HeaderOf(k)))

Saveable(B, k) == k.bytes \in Seq(B) /\ k.frame \in Nat \ {0}

\* Frame i of a source are the bytes between two cuts.
CutOf(k) == [i \in 0 .. CountOf(k) |-> Least(i * k.frame, Len(k.bytes))]

LEMMA FramesCut ==
    ASSUME NEW B, NEW k, Saveable(B, k)
    PROVE  /\ CountOf(k) \in Nat /\ Len(k.bytes) \in Nat
           /\ Cuts(CutOf(k), CountOf(k), Len(k.bytes))
           /\ \A i \in 1 .. CountOf(k) :
                  /\ PlainOf(k, i) = SubSeq(k.bytes, CutOf(k)[i - 1] + 1, CutOf(k)[i])
                  /\ PlainOf(k, i) \in Seq(B) /\ Len(PlainOf(k, i)) = LengthOf(k, i)
<1> DEFINE s == k.bytes
           fs == k.frame
           n == CountOf(k)
           size == Len(s)
<1>1. s \in Seq(B) /\ fs \in Nat \ {0} /\ size \in Nat
  BY DEF Saveable
<1>2. n \in Nat /\ size <= n * fs /\ (size > 0 => (n - 1) * fs < size)
  BY <1>1, FrameCountBounds DEF CountOf
<1>3. n = 0 <=> size = 0
  <2>1. size = 0 => n = 0
    BY DEF CountOf, FrameCount
  <2>2. n = 0 => size = 0
    <3>1. 0 * fs = 0
      BY <1>1
    <3> QED
      BY <1>1, <1>2, <3>1
  <2> QED
    BY <2>1, <2>2
<1> HIDE DEF n
<1>4. \A i \in 0 .. n : i * fs \in Nat
  BY <1>1, <1>2, SMTT(30)
<1>5. ASSUME NEW i \in 1 .. n
      PROVE  /\ (i - 1) * fs \in Nat /\ i * fs = (i - 1) * fs + fs /\ (i - 1) * fs < size
  <2>1. (i - 1) * fs \in Nat /\ i * fs = (i - 1) * fs + fs
    BY <1>1, <1>2, SMTT(30)
  <2>2. (i - 1) * fs <= (n - 1) * fs
    BY <1>1, <1>2, SMTT(30)
  <2>3. size > 0
    BY <1>1, <1>2, <1>3
  <2>4. PICK a \in Nat : a = (i - 1) * fs
    BY <2>1
  <2>5. (n - 1) * fs \in Int
    BY <1>1, <1>2, SMTT(30)
  <2>6. PICK b \in Int : b = (n - 1) * fs
    BY <2>5
  <2>7. a <= b
    BY <2>2, <2>4, <2>6, Zenon
  <2>8. b < size
    BY <1>2, <2>3, <2>6, Zenon
  <2>9. a < size
    BY <1>1, <2>7, <2>8
  <2> QED
    BY <2>1, <2>4, <2>9
<1>6. Cuts(CutOf(k), n, size)
  <2>1. CutOf(k) = [i \in 0 .. n |-> Least(i * fs, size)]
    BY DEF CutOf, n
  <2>2. \A i \in 0 .. n : Least(i * fs, size) \in 0 .. size
    BY <1>1, <1>4 DEF Least
  <2>3. Least(0 * fs, size) = 0
    BY <1>1 DEF Least
  <2>4. Least(n * fs, size) = size
    <3>1. PICK c \in Nat : c = n * fs
      BY <1>2, <1>4
    <3>2. size <= c
      BY <1>2, <3>1, Zenon
    <3>3. Least(c, size) = size
      BY <1>1, <3>2 DEF Least
    <3> QED
      BY <3>1, <3>3
  <2>5. ASSUME NEW i \in 1 .. n PROVE Least((i - 1) * fs, size) <= Least(i * fs, size)
    BY <1>1, <1>5 DEF Least
  <2>6. ASSUME NEW i \in 1 .. n PROVE i - 1 \in 0 .. n /\ i \in 0 .. n
    BY <1>2
  <2>7. CutOf(k) \in [0 .. n -> 0 .. size]
    BY <2>1, <2>2
  <2>8. CutOf(k)[0] = 0 /\ CutOf(k)[n] = size
    BY <1>2, <2>1, <2>3, <2>4
  <2>9. \A i \in 1 .. n : CutOf(k)[i - 1] <= CutOf(k)[i]
    BY <2>1, <2>5, <2>6
  <2> QED
    BY <2>7, <2>8, <2>9 DEF Cuts
<1>7. ASSUME NEW i \in 1 .. n
      PROVE  /\ PlainOf(k, i) = SubSeq(s, CutOf(k)[i - 1] + 1, CutOf(k)[i])
             /\ PlainOf(k, i) \in Seq(B) /\ Len(PlainOf(k, i)) = LengthOf(k, i)
  <2>1. PICK a \in Nat : a = (i - 1) * fs /\ a < size /\ i * fs = a + fs
    BY <1>5
  <2>2. PICK len \in Nat : /\ len = LengthOf(k, i) /\ a + len <= size
                           /\ Least(a + fs, size) = a + len
    <3>1. LengthOf(k, i) = Least(fs, size - a)
      BY <2>1, Zenon DEF LengthOf, FrameLen
    <3>2. /\ Least(fs, size - a) \in Nat /\ a + Least(fs, size - a) <= size
          /\ Least(a + fs, size) = a + Least(fs, size - a)
      <4>1. ASSUME NEW b \in Nat, NEW f \in Nat, NEW z \in Nat, b < z
            PROVE  /\ Least(f, z - b) \in Nat /\ b + Least(f, z - b) <= z
                   /\ Least(b + f, z) = b + Least(f, z - b)
        BY <4>1 DEF Least
      <4> QED
        BY <1>1, <2>1, <4>1
    <3> QED
      BY <3>1, <3>2
  <2>3. i - 1 \in 0 .. n /\ i \in 0 .. n
    BY <1>2
  <2>4. CutOf(k)[i - 1] = a /\ CutOf(k)[i] = a + len
    <3>1. CutOf(k)[i - 1] = Least(a, size) /\ CutOf(k)[i] = Least(a + fs, size)
      BY <2>1, <2>3 DEF CutOf, n
    <3>2. Least(a, size) = a
      BY <1>1, <2>1 DEF Least
    <3> QED
      BY <2>2, <3>1, <3>2
  <2>5. PlainOf(k, i) = ReadAt(s, a, len)
    BY <2>1, <2>2 DEF PlainOf, LengthOf
  <2>6. ReadAt(s, a, len) = SubSeq(s, a + 1, a + len)
    BY <1>1, <2>2 DEF ReadAt, Least
  <2>7. SubSeq(s, a + 1, a + len) \in Seq(B) /\ Len(SubSeq(s, a + 1, a + len)) = len
    <3>1. ASSUME NEW u \in Seq(B), NEW b \in Nat, NEW l \in Nat, b + l <= Len(u)
          PROVE  SubSeq(u, b + 1, b + l) \in Seq(B) /\ Len(SubSeq(u, b + 1, b + l)) = l
      <4>1. Len(u) \in Nat
        OBVIOUS
      <4> QED
        BY <3>1, <4>1
    <3> QED
      BY <1>1, <2>2, <3>1
  <2> QED
    BY <2>2, <2>4, <2>5, <2>6, <2>7
<1> QED
  BY <1>1, <1>2, <1>6, <1>7 DEF n

\* The frames join to the source.
LEMMA PlainsJoin ==
    ASSUME NEW B, NEW k, Saveable(B, k)
    PROVE  FlattenSeq([i \in 1 .. CountOf(k) |-> PlainOf(k, i)]) = k.bytes
<1>1. k.bytes \in Seq(B)
  BY DEF Saveable
<1>2. /\ CountOf(k) \in Nat /\ Cuts(CutOf(k), CountOf(k), Len(k.bytes))
      /\ \A i \in 1 .. CountOf(k) :
             PlainOf(k, i) = SubSeq(k.bytes, CutOf(k)[i - 1] + 1, CutOf(k)[i])
  BY FramesCut
<1>3. [i \in 1 .. CountOf(k) |-> PlainOf(k, i)]
      = [i \in 1 .. CountOf(k) |-> SubSeq(k.bytes, CutOf(k)[i - 1] + 1, CutOf(k)[i])]
  BY <1>2, Zenon
<1> DEFINE pieces == [i \in 1 .. CountOf(k) |-> PlainOf(k, i)]
<1> HIDE DEF pieces
<1>4. ArePieces(pieces, k.bytes, CountOf(k), CutOf(k))
  BY <1>3, Zenon DEF pieces, ArePieces
<1>5. FlattenSeq(pieces) = k.bytes
  BY <1>1, <1>2, <1>4, PiecesJoin, Zenon
<1> QED
  BY <1>5 DEF pieces

\* Where the cells of a container are.
IsSaved(x, k) ==
    /\ Len(x) = 2 * CountOf(k) + 3 /\ DOMAIN x = 1 .. Len(x)
    /\ x = [p \in DOMAIN x |-> x[p]]
    /\ x[1] = HeaderOf(k)
    /\ \A i \in 1 .. CountOf(k) : x[2 * i] = MetaOf(k, i) /\ x[2 * i + 1] = SealedOf(k, i)
    /\ x[2 * CountOf(k) + 2] = FinalMeta /\ x[2 * CountOf(k) + 3] = DigestOf(k)

\* A position is that of the header, of a cell of a frame or of the end.
LEMMA CellPositions ==
    ASSUME NEW n \in Nat, NEW p \in 1 .. 2 * n + 3
    PROVE  \/ p = 1 \/ p = 2 * n + 2 \/ p = 2 * n + 3
           \/ \E i \in 1 .. n : p = 2 * i \/ p = 2 * i + 1
<1>1. p \div 2 \in Nat /\ p % 2 \in {0, 1} /\ p = 2 * (p \div 2) + (p % 2)
  BY Halving
<1>2. PICK i \in Nat : p = 2 * i \/ p = 2 * i + 1
  BY <1>1
<1>3. CASE i \in 1 .. n
  BY <1>2, <1>3
<1>4. CASE i \notin 1 .. n
  BY <1>2, <1>4
<1> QED
  BY <1>3, <1>4

\* The pairs of n frames, joined.
ArePairs(pairs, a, b, n) == pairs = [i \in 1 .. n |-> <<a[i], b[i]>>]
Alternate(f, C, a, b, n) ==
    /\ f \in Seq(C) /\ Len(f) = 2 * n
    /\ \A i \in 1 .. n : f[2 * i - 1] = a[i] /\ f[2 * i] = b[i]

LEMMA PairsJoin ==
    ASSUME NEW C, NEW n \in Nat, NEW a \in [1 .. n -> C], NEW b \in [1 .. n -> C],
           NEW pairs, ArePairs(pairs, a, b, n)
    PROVE  Alternate(FlattenSeq(pairs), C, a, b, n)
<1> DEFINE f == [p \in 1 .. 2 * n |-> IF p % 2 = 0 THEN b[p \div 2] ELSE a[(p + 1) \div 2]]
           cut == [i \in 0 .. n |-> 2 * i]
<1>1. ASSUME NEW i \in 1 .. n
      PROVE  /\ 2 * i - 1 \in 1 .. 2 * n /\ 2 * i \in 1 .. 2 * n
             /\ (2 * i - 1) % 2 # 0 /\ ((2 * i - 1) + 1) \div 2 = i
             /\ (2 * i) % 2 = 0 /\ (2 * i) \div 2 = i
  OBVIOUS
<1>2. \A i \in 1 .. n : f[2 * i - 1] = a[i] /\ f[2 * i] = b[i]
  BY <1>1
<1>3. f \in Seq(C) /\ Len(f) = 2 * n
  <2>1. ASSUME NEW p \in 1 .. 2 * n
        PROVE  (IF p % 2 = 0 THEN b[p \div 2] ELSE a[(p + 1) \div 2]) \in C
    <3>1. p % 2 = 0 => p \div 2 \in 1 .. n
      OBVIOUS
    <3>2. p % 2 # 0 => (p + 1) \div 2 \in 1 .. n
      OBVIOUS
    <3> QED
      BY <3>1, <3>2
  <2>2. f \in [1 .. 2 * n -> C]
    BY <2>1
  <2>3. 2 * n \in Nat
    OBVIOUS
  <2> QED
    BY <2>2, <2>3
<1> HIDE DEF f
<1>4. Cuts(cut, n, 2 * n)
  BY DEF Cuts
<1>5. ArePieces(pairs, f, n, cut)
  <2>1. ASSUME NEW i \in 1 .. n
        PROVE  SubSeq(f, cut[i - 1] + 1, cut[i]) = <<a[i], b[i]>>
    <3>1. cut[i - 1] + 1 = 2 * i - 1 /\ cut[i] = 2 * i
      OBVIOUS
    <3> DEFINE u == SubSeq(f, 2 * i - 1, 2 * i)
    <3>2. u \in Seq(C) /\ Len(u) = 2 /\ u[1] = f[2 * i - 1] /\ u[2] = f[2 * i]
      BY <1>1, <1>3
    <3>3. \A v \in Seq(C) : Len(v) = 2 => v = <<v[1], v[2]>>
      OBVIOUS
    <3>4. u[1] = a[i] /\ u[2] = b[i]
      BY <1>2, <3>2
    <3> HIDE DEF u
    <3>5. u = <<a[i], b[i]>>
      BY <3>2, <3>3, <3>4, Zenon
    <3> QED
      BY <3>1, <3>5 DEF u
  <2>2. pairs = [i \in 1 .. n |-> SubSeq(f, cut[i - 1] + 1, cut[i])]
    BY <2>1, Zenon DEF ArePairs
  <2> QED
    BY <2>2 DEF ArePieces
<1>6. FlattenSeq(pairs) = f
  BY <1>3, <1>4, <1>5, PiecesJoin
<1> QED
  BY <1>2, <1>3, <1>6 DEF Alternate

LEMMA SavedCells ==
    ASSUME NEW B, NEW k, Saveable(B, k)
    PROVE  IsSaved(CellsOf(k), k)
<1> DEFINE n == CountOf(k)
           h == HeaderOf(k)
           a == [i \in 1 .. n |-> MetaOf(k, i)]
           b == [i \in 1 .. n |-> SealedOf(k, i)]
           pairs == [i \in 1 .. n |-> <<a[i], b[i]>>]
           frames == FlattenSeq(pairs)
           C == {h, FinalMeta, DigestOf(k)} \cup {a[i] : i \in 1 .. n} \cup {b[i] : i \in 1 .. n}
<1>1. n \in Nat /\ \A i \in 1 .. n : Len(PlainOf(k, i)) = LengthOf(k, i)
  BY FramesCut
<1>2. h.size = Len(k.bytes) /\ h.frameSize = k.frame /\ h.frameCount = n
  BY DEF HeaderOf, Header, CountOf
<1>3. \A i \in 1 .. n : SaveFrame(k.bytes, h, k.key, i - 1) = <<MetaOf(k, i), SealedOf(k, i)>>
  <2> TAKE i \in 1 .. n
  <2>1. ReadAt(k.bytes, (i - 1) * h.frameSize,
               FrameLen((i - 1) * h.frameSize, h.size, h.frameSize)) = PlainOf(k, i)
    BY <1>2, Zenon DEF PlainOf
  <2>2. Len(PlainOf(k, i)) = LengthOf(k, i)
    BY <1>1
  <2> HIDE DEF h
  <2>3. SaveFrame(k.bytes, h, k.key, i - 1)
          = <<Meta(i - 1, LengthOf(k, i)),
              Seal(k.key, FrameNonce(h, i - 1), PlainOf(k, i), FrameAad(h, i - 1, LengthOf(k, i)))>>
    BY <2>1, <2>2, Zenon DEF SaveFrame
  <2> QED
    BY <2>3, Zenon DEF h, MetaOf, SealedOf
<1>4. pairs = [i \in 1 .. h.frameCount |-> SaveFrame(k.bytes, h, k.key, i - 1)]
  BY <1>2, <1>3
<1>5. a \in [1 .. n -> C] /\ b \in [1 .. n -> C]
  OBVIOUS
<1>6. CellsOf(k) = <<h>> \o frames \o <<FinalMeta, DigestOf(k)>>
  <2>1. CellsOf(k) = <<h>> \o FlattenSeq([i \in 1 .. h.frameCount |-> SaveFrame(k.bytes, h, k.key, i - 1)])
                       \o <<FinalMeta, Seal(k.key, FrameNonce(h, h.frameCount), k.bytes, FinalAad(h))>>
    BY Zenon DEF CellsOf, Save, HeaderOf
  <2> HIDE DEF n, h, pairs, C
  <2> QED
    BY <1>2, <1>4, <2>1 DEF DigestOf, n, h
<1>7. h \in C /\ FinalMeta \in C /\ DigestOf(k) \in C
  OBVIOUS
<1> HIDE DEF C, h, n, a, b
<1>8. /\ frames \in Seq(C) /\ Len(frames) = 2 * n
      /\ \A i \in 1 .. n : frames[2 * i - 1] = a[i] /\ frames[2 * i] = b[i]
  <2>1. ArePairs(pairs, a, b, n)
    BY DEF ArePairs
  <2> HIDE DEF pairs
  <2>2. Alternate(frames, C, a, b, n)
    BY <1>1, <1>5, <2>1, PairsJoin, Zenon
  <2> QED
    BY <2>2, Zenon DEF Alternate
<1> HIDE DEF frames, pairs
<1> DEFINE x == <<h>> \o frames \o <<FinalMeta, DigestOf(k)>>
<1>9. /\ x \in Seq(C) /\ Len(x) = 2 * n + 3 /\ x[1] = h
      /\ x[2 * n + 2] = FinalMeta /\ x[2 * n + 3] = DigestOf(k)
      /\ \A p \in 1 .. 2 * n : x[p + 1] = frames[p]
  <2>1. ASSUME NEW f \in Seq(C), NEW m \in Nat, Len(f) = m, NEW u \in C, NEW v \in C, NEW w \in C
        PROVE  /\ <<u>> \o f \o <<v, w>> \in Seq(C) /\ Len(<<u>> \o f \o <<v, w>>) = m + 3
               /\ (<<u>> \o f \o <<v, w>>)[1] = u
               /\ (<<u>> \o f \o <<v, w>>)[m + 2] = v /\ (<<u>> \o f \o <<v, w>>)[m + 3] = w
               /\ \A p \in 1 .. m : (<<u>> \o f \o <<v, w>>)[p + 1] = f[p]
    <3>1. <<u>> \o f \in Seq(C) /\ Len(<<u>> \o f) = m + 1 /\ (<<u>> \o f)[1] = u
          /\ \A p \in 1 .. m : (<<u>> \o f)[p + 1] = f[p]
      BY <2>1
    <3> DEFINE g == <<u>> \o f
    <3> HIDE DEF g
    <3>2. g \o <<v, w>> \in Seq(C) /\ Len(g \o <<v, w>>) = m + 3
          /\ (g \o <<v, w>>)[m + 2] = v /\ (g \o <<v, w>>)[m + 3] = w
          /\ \A p \in 1 .. m + 1 : (g \o <<v, w>>)[p] = g[p]
      BY <3>1, SMTT(30) DEF g
    <3>3. 1 \in 1 .. m + 1 /\ \A p \in 1 .. m : p + 1 \in 1 .. m + 1
      OBVIOUS
    <3>4. (g \o <<v, w>>)[1] = u /\ \A p \in 1 .. m : (g \o <<v, w>>)[p + 1] = f[p]
      BY <3>1, <3>2, <3>3 DEF g
    <3> QED
      BY <3>2, <3>4 DEF g
  <2>2. 2 * n \in Nat
    BY <1>1
  <2> QED
    BY <1>7, <1>8, <2>1, <2>2
<1>10. ASSUME NEW i \in 1 .. n
       PROVE  x[2 * i] = MetaOf(k, i) /\ x[2 * i + 1] = SealedOf(k, i)
  <2>1. /\ 2 * i - 1 \in 1 .. 2 * n /\ (2 * i - 1) + 1 = 2 * i /\ 2 * i \in 1 .. 2 * n
    BY <1>1
  <2>2. x[2 * i] = frames[2 * i - 1] /\ x[2 * i + 1] = frames[2 * i]
    BY <1>9, <2>1
  <2> QED
    BY <1>8, <2>2 DEF a, b
<1>11. DOMAIN x = 1 .. Len(x) /\ x = [p \in DOMAIN x |-> x[p]]
  <2>1. \A u \in Seq(C) : DOMAIN u = 1 .. Len(u) /\ u = [p \in DOMAIN u |-> u[p]]
    OBVIOUS
  <2> HIDE DEF x
  <2> QED
    BY <1>9, <2>1, Zenon
<1> HIDE DEF x
<1>12. IsSaved(x, k)
  BY <1>9, <1>10, <1>11 DEF IsSaved, n, h
<1> QED
  BY <1>6, <1>12 DEF x

\* When decrypt_file accepts a file, and what it then yields.
PlainsOf(x) == FlattenSeq([i \in 1 .. Head(x).frameCount |-> x[2 * i + 1].plain])
Accepted(x, key) ==
    /\ x # <<>> /\ HeaderIsValid(Head(x)) /\ Len(x) = 2 * Head(x).frameCount + 3
    /\ \A i \in 1 .. Head(x).frameCount :
           FrameIsValid(x[2 * i], x[2 * i + 1], Head(x), key, i - 1, (i - 1) * Head(x).frameSize)
    /\ FinalIsValid(x[2 * Head(x).frameCount + 2], x[2 * Head(x).frameCount + 3], Head(x), key,
                    PlainsOf(x))

LEMMA DecryptCases ==
    ASSUME NEW x, NEW key
    PROVE  /\ Accepted(x, key) => Decrypt(x, key) = Success(PlainsOf(x))
           /\ ~Accepted(x, key) => Decrypt(x, key) = Failure
BY Zenon DEF Decrypt, Accepted, PlainsOf

\* Kinds and fields of cells.
LEMMA CellFields ==
    ASSUME NEW k
    PROVE  /\ HeaderOf(k).kind = "header" /\ HeaderOf(k).size = Len(k.bytes)
           /\ HeaderOf(k).frameSize = k.frame /\ HeaderOf(k).frameCount = CountOf(k)
           /\ HeaderOf(k).id = k.id
           /\ FinalMeta.kind = "final"
           /\ DigestOf(k).kind = "sealed" /\ DigestOf(k).key = k.key
           /\ DigestOf(k).nonce = FrameNonce(HeaderOf(k), CountOf(k))
           /\ DigestOf(k).aad = FinalAad(HeaderOf(k)) /\ DigestOf(k).plain = k.bytes
           /\ \A i : /\ MetaOf(k, i).kind = "meta" /\ MetaOf(k, i).number = i - 1
                     /\ MetaOf(k, i).len = LengthOf(k, i)
                     /\ SealedOf(k, i).kind = "sealed" /\ SealedOf(k, i).key = k.key
                     /\ SealedOf(k, i).nonce = FrameNonce(HeaderOf(k), i - 1)
                     /\ SealedOf(k, i).aad = FrameAad(HeaderOf(k), i - 1, LengthOf(k, i))
                     /\ SealedOf(k, i).plain = PlainOf(k, i)
<1>1. /\ HeaderOf(k).kind = "header" /\ HeaderOf(k).size = Len(k.bytes)
      /\ HeaderOf(k).frameSize = k.frame /\ HeaderOf(k).frameCount = CountOf(k)
      /\ HeaderOf(k).id = k.id /\ FinalMeta.kind = "final"
  BY DEF HeaderOf, Header, CountOf, FinalMeta
<1>2. \A key, nonce, plain, aad :
          /\ Seal(key, nonce, plain, aad).kind = "sealed" /\ Seal(key, nonce, plain, aad).key = key
          /\ Seal(key, nonce, plain, aad).nonce = nonce /\ Seal(key, nonce, plain, aad).aad = aad
          /\ Seal(key, nonce, plain, aad).plain = plain
  BY DEF Seal
<1>3. \A i : MetaOf(k, i).kind = "meta" /\ MetaOf(k, i).number = i - 1
             /\ MetaOf(k, i).len = LengthOf(k, i)
  BY DEF MetaOf, Meta
<1>4. \A i : /\ SealedOf(k, i).kind = "sealed" /\ SealedOf(k, i).key = k.key
             /\ SealedOf(k, i).nonce = FrameNonce(HeaderOf(k), i - 1)
             /\ SealedOf(k, i).aad = FrameAad(HeaderOf(k), i - 1, LengthOf(k, i))
             /\ SealedOf(k, i).plain = PlainOf(k, i)
  BY <1>2, SMT DEF SealedOf
<1>5. /\ DigestOf(k).kind = "sealed" /\ DigestOf(k).key = k.key
      /\ DigestOf(k).nonce = FrameNonce(HeaderOf(k), CountOf(k))
      /\ DigestOf(k).aad = FinalAad(HeaderOf(k)) /\ DigestOf(k).plain = k.bytes
  BY <1>2, SMT DEF DigestOf
<1> QED
  BY <1>1, <1>3, <1>4, <1>5, Zenon

\* A container is opened with its key and gives back what it was made of.
LEMMA ContainerOpens ==
    ASSUME NEW B, NEW k, Saveable(B, k), NEW x, IsSaved(x, k)
    PROVE  Decrypt(x, k.key) = Success(k.bytes)
<1> DEFINE n == CountOf(k)
           h == HeaderOf(k)
<1>1. n \in Nat /\ Len(k.bytes) \in Nat
  BY FramesCut
<1>2. Len(x) = 2 * n + 3 /\ x # <<>> /\ Head(x) = h
  <2>1. Len(x) = 2 * n + 3 /\ x[1] = h /\ x = [p \in 1 .. Len(x) |-> x[p]]
    BY DEF IsSaved
  <2>2. PICK m \in Nat : m = Len(x) /\ m >= 3
    BY <1>1, <2>1
  <2>3. x \in Seq({x[p] : p \in 1 .. m})
    <3>1. x = [p \in 1 .. m |-> x[p]]
      BY <2>1, <2>2
    <3>2. x \in [1 .. m -> {x[p] : p \in 1 .. m}]
      BY <3>1
    <3> QED
      BY <3>2
  <2>4. x # <<>> /\ Head(x) = x[1]
    BY <2>2, <2>3
  <2> QED
    BY <2>1, <2>4
<1> HIDE DEF n, h
<1>3. /\ h.kind = "header" /\ h.size = Len(k.bytes) /\ h.frameSize = k.frame /\ h.frameCount = n
  BY CellFields DEF h, n
<1>4. HeaderIsValid(h)
  BY <1>3 DEF HeaderIsValid, n, CountOf
<1>5. ASSUME NEW i \in 1 .. n
      PROVE  /\ FrameIsValid(x[2 * i], x[2 * i + 1], h, k.key, i - 1, (i - 1) * k.frame)
             /\ x[2 * i + 1].plain = PlainOf(k, i)
  <2>1. x[2 * i] = MetaOf(k, i) /\ x[2 * i + 1] = SealedOf(k, i)
    BY DEF IsSaved, n
  <2>2. /\ MetaOf(k, i).kind = "meta" /\ MetaOf(k, i).number = i - 1
        /\ MetaOf(k, i).len = LengthOf(k, i)
        /\ SealedOf(k, i).kind = "sealed" /\ SealedOf(k, i).key = k.key
        /\ SealedOf(k, i).nonce = FrameNonce(HeaderOf(k), i - 1)
        /\ SealedOf(k, i).aad = FrameAad(HeaderOf(k), i - 1, LengthOf(k, i))
        /\ SealedOf(k, i).plain = PlainOf(k, i)
    BY CellFields
  <2>3. LengthOf(k, i) = FrameLen((i - 1) * k.frame, h.size, h.frameSize)
    BY <1>3, Zenon DEF LengthOf
  <2> QED
    BY <2>1, <2>2, <2>3, Zenon DEF FrameIsValid, Opens, h
<1>6. PlainsOf(x) = k.bytes
  <2>1. \A i \in 1 .. n : x[2 * i + 1].plain = PlainOf(k, i)
    BY <1>5
  <2>2. [i \in 1 .. n |-> x[2 * i + 1].plain] = [i \in 1 .. n |-> PlainOf(k, i)]
    BY <2>1, Zenon
  <2> QED
    BY <1>2, <1>3, <2>2, PlainsJoin, Zenon DEF PlainsOf, n
<1>7. FinalIsValid(x[2 * n + 2], x[2 * n + 3], h, k.key, k.bytes)
  <2>1. x[2 * n + 2] = FinalMeta /\ x[2 * n + 3] = DigestOf(k)
    BY DEF IsSaved, n
  <2>2. /\ FinalMeta.kind = "final" /\ DigestOf(k).kind = "sealed" /\ DigestOf(k).key = k.key
        /\ DigestOf(k).nonce = FrameNonce(HeaderOf(k), CountOf(k))
        /\ DigestOf(k).aad = FinalAad(HeaderOf(k)) /\ DigestOf(k).plain = k.bytes
    BY CellFields
  <2> QED
    BY <1>3, <2>1, <2>2, Zenon DEF FinalIsValid, Opens, h, n
<1>8. Accepted(x, k.key)
  <2>1. \A i \in 1 .. n : FrameIsValid(x[2 * i], x[2 * i + 1], h, k.key, i - 1, (i - 1) * k.frame)
    BY <1>5
  <2> QED
    BY <1>2, <1>3, <1>4, <1>6, <1>7, <2>1, Zenon DEF Accepted
<1> QED
  BY <1>6, <1>8, DecryptCases

\* The cells of the containers in K, and cells of other files.
CellIn(y, K) ==
    \E k \in K : \/ y = HeaderOf(k) \/ y = FinalMeta \/ y = DigestOf(k)
                 \/ \E i \in 1 .. CountOf(k) : y = MetaOf(k, i) \/ y = SealedOf(k, i)
Stray(y) == y.kind \notin {"header", "meta", "sealed", "final"}
Mixed(x, K) == \A p \in DOMAIN x : CellIn(x[p], K) \/ Stray(x[p])

\* Containers whose random identities differ.
Identified(B, K) == /\ \A k \in K : Saveable(B, k)
                    /\ \A j, k \in K : j.id = k.id => j = k

\* A cell of some kind, among cells of containers, is one of that kind.
OfItsKind(y, K) ==
    /\ y.kind = "header" => \E k \in K : y = HeaderOf(k)
    /\ y.kind = "meta" => \E k \in K : \E i \in 1 .. CountOf(k) : y = MetaOf(k, i)
    /\ y.kind = "final" => y = FinalMeta
    /\ y.kind = "sealed" =>
           \E k \in K : y = DigestOf(k) \/ \E i \in 1 .. CountOf(k) : y = SealedOf(k, i)

LEMMA CellKinds ==
    ASSUME NEW K, NEW y, CellIn(y, K) \/ Stray(y)
    PROVE  OfItsKind(y, K)
<1> USE DEF OfItsKind
<1>1. CASE Stray(y)
  BY <1>1 DEF Stray
<1>2. CASE CellIn(y, K)
  <2>1. PICK k \in K : \/ y = HeaderOf(k) \/ y = FinalMeta \/ y = DigestOf(k)
                       \/ \E i \in 1 .. CountOf(k) : y = MetaOf(k, i) \/ y = SealedOf(k, i)
    BY <1>2 DEF CellIn
  <2>2. /\ HeaderOf(k).kind = "header" /\ FinalMeta.kind = "final" /\ DigestOf(k).kind = "sealed"
        /\ \A i : MetaOf(k, i).kind = "meta" /\ SealedOf(k, i).kind = "sealed"
    BY CellFields
  <2> QED
    BY <2>1, <2>2
<1> QED
  BY <1>1, <1>2

\* What seals under the header of k with the data of a frame, or of the end,
\* can only be that cell of k.
SealsOnly(j, k) ==
    /\ DigestOf(j).aad = FinalAad(HeaderOf(k)) => j = k
    /\ \A i, len : DigestOf(j).aad # FrameAad(HeaderOf(k), i, len)
    /\ \A a : SealedOf(j, a).aad # FinalAad(HeaderOf(k))
    /\ \A a, i, len : SealedOf(j, a).aad = FrameAad(HeaderOf(k), i, len) => j = k /\ a - 1 = i

LEMMA SealsApart ==
    ASSUME NEW B, NEW K, Identified(B, K), NEW k \in K, NEW j \in K
    PROVE  SealsOnly(j, k)
<1>1. /\ DigestOf(j).aad = FinalAad(HeaderOf(j))
      /\ \A a : SealedOf(j, a).aad = FrameAad(HeaderOf(j), a - 1, LengthOf(j, a))
  BY CellFields
<1>2. \A g, h, a, l : FrameAad(g, a, l) # FinalAad(h)
  BY DEF FrameAad, FinalAad
<1>3. \A g, h : FinalAad(g) = FinalAad(h) => g = h
  BY DEF FinalAad
<1>4. \A g, h, a, b, l, m : FrameAad(g, a, l) = FrameAad(h, b, m) => g = h /\ a = b
  BY DEF FrameAad
<1>5. HeaderOf(j) = HeaderOf(k) => j = k
  <2>1. HeaderOf(j).id = j.id /\ HeaderOf(k).id = k.id
    BY CellFields
  <2> QED
    BY <2>1 DEF Identified
<1>6. DigestOf(j).aad = FinalAad(HeaderOf(k)) => j = k
  BY <1>1, <1>3, <1>5
<1>7. \A i, len : DigestOf(j).aad # FrameAad(HeaderOf(k), i, len)
  BY <1>1, <1>2
<1>8. \A a : SealedOf(j, a).aad # FinalAad(HeaderOf(k))
  BY <1>1, <1>2
<1>9. \A a, i, len : SealedOf(j, a).aad = FrameAad(HeaderOf(k), i, len) => j = k /\ a - 1 = i
  BY <1>1, <1>4, <1>5
<1> QED
  BY <1>6, <1>7, <1>8, <1>9, Zenon DEF SealsOnly

\* A file is one of the containers it was put together from, or it is refused:
\* under one key, decrypt_file accepts no file in which cells of containers
\* are exchanged, lost, doubled, or mixed with those of others.
THEOREM ContainersUnmixed ==
    ASSUME NEW B, NEW K, Identified(B, K), NEW S, NEW x \in Seq(S), Mixed(x, K), NEW key,
           Decrypt(x, key) # Failure
    PROVE  \E k \in K : k.key = key /\ IsSaved(x, k) /\ Decrypt(x, key) = Success(k.bytes)
<1> DEFINE h == Head(x)
           n == h.frameCount
<1>1. Accepted(x, key)
  BY DecryptCases
<1>2. /\ x # <<>> /\ HeaderIsValid(h) /\ Len(x) = 2 * n + 3
      /\ \A i \in 1 .. n : FrameIsValid(x[2 * i], x[2 * i + 1], h, key, i - 1, (i - 1) * h.frameSize)
      /\ FinalIsValid(x[2 * n + 2], x[2 * n + 3], h, key, PlainsOf(x))
  BY <1>1, Zenon DEF Accepted
<1>3. h = x[1] /\ 1 \in DOMAIN x /\ DOMAIN x = 1 .. Len(x) /\ Len(x) \in Nat
      /\ x = [p \in DOMAIN x |-> x[p]]
  BY <1>2
<1>4. PICK k \in K : h = HeaderOf(k)
  <2>1. h.kind = "header"
    BY <1>2 DEF HeaderIsValid
  <2>2. CellIn(h, K) \/ Stray(h)
    BY <1>3, Zenon DEF Mixed
  <2>3. OfItsKind(h, K)
    BY <2>2, CellKinds, Zenon
  <2> QED
    BY <2>1, <2>3, Zenon DEF OfItsKind
<1>5. /\ n = CountOf(k) /\ h.size = Len(k.bytes) /\ h.frameSize = k.frame
  BY <1>4, CellFields
<1>6. Saveable(B, k) /\ n \in Nat
  BY <1>5, FramesCut DEF Identified
<1> HIDE DEF h, n
<1>7. \A p \in 1 .. 2 * n + 3 : CellIn(x[p], K) \/ Stray(x[p])
  BY <1>2, <1>3, Zenon DEF Mixed
<1>13. \A p \in 1 .. 2 * n + 3 : OfItsKind(x[p], K)
  BY <1>7, CellKinds, Zenon
<1>14. \A j \in K : SealsOnly(j, k)
  BY SealsApart, Zenon
<1>8. ASSUME NEW i \in 1 .. n
      PROVE  x[2 * i] = MetaOf(k, i) /\ x[2 * i + 1] = SealedOf(k, i)
  <2>1. 2 * i \in 1 .. 2 * n + 3 /\ 2 * i + 1 \in 1 .. 2 * n + 3
    BY <1>6
  <2>2. FrameIsValid(x[2 * i], x[2 * i + 1], h, key, i - 1, (i - 1) * h.frameSize)
    BY <1>2
  <2>3. FrameLen((i - 1) * h.frameSize, h.size, h.frameSize) = LengthOf(k, i)
    BY <1>5, Zenon DEF LengthOf
  <2>4. /\ x[2 * i].kind = "meta" /\ x[2 * i].number = i - 1 /\ x[2 * i].len = LengthOf(k, i)
        /\ x[2 * i + 1].kind = "sealed"
        /\ x[2 * i + 1].aad = FrameAad(h, i - 1, LengthOf(k, i))
    BY <2>2, <2>3, Zenon DEF FrameIsValid, Opens
  <2>5. x[2 * i] = MetaOf(k, i)
    <3>0. PICK j \in K : \E a \in 1 .. CountOf(j) : x[2 * i] = MetaOf(j, a)
      BY <1>13, <2>1, <2>4, Zenon DEF OfItsKind
    <3>1. PICK a \in 1 .. CountOf(j) : x[2 * i] = MetaOf(j, a)
      BY <3>0
    <3>2. MetaOf(j, a).number = a - 1 /\ MetaOf(j, a).len = LengthOf(j, a)
      BY CellFields
    <3>3. a - 1 = i - 1 /\ LengthOf(j, a) = LengthOf(k, i)
      BY <2>4, <3>1, <3>2
    <3> QED
      BY <3>1, <3>3, Zenon DEF MetaOf
  <2>6. x[2 * i + 1] = SealedOf(k, i)
    <3>1. PICK j \in K : \/ x[2 * i + 1] = DigestOf(j)
                         \/ \E a \in 1 .. CountOf(j) : x[2 * i + 1] = SealedOf(j, a)
      BY <1>13, <2>1, <2>4, Zenon DEF OfItsKind
    <3>2. x[2 * i + 1] # DigestOf(j)
      BY <1>4, <1>14, <2>4, ZenonT(30) DEF SealsOnly
    <3>3. PICK a \in 1 .. CountOf(j) : x[2 * i + 1] = SealedOf(j, a)
      BY <3>1, <3>2
    <3>4. j = k /\ a - 1 = i - 1
      BY <1>4, <1>14, <2>4, <3>3, ZenonT(30) DEF SealsOnly
    <3>5. CountOf(j) \in Nat
      BY <1>5, <1>6, <3>4
    <3>6. a = i
      BY <1>6, <3>4, <3>5
    <3> QED
      BY <3>3, <3>4, <3>6
  <2> QED
    BY <2>5, <2>6
<1>9. x[2 * n + 2] = FinalMeta
  <2>1. 2 * n + 2 \in 1 .. 2 * n + 3
    BY <1>6
  <2>2. x[2 * n + 2].kind = "final"
    BY <1>2 DEF FinalIsValid
  <2> QED
    BY <1>13, <2>1, <2>2, Zenon DEF OfItsKind
<1>10. x[2 * n + 3] = DigestOf(k) /\ k.key = key
  <2>1. 2 * n + 3 \in 1 .. 2 * n + 3
    BY <1>6
  <2>2. /\ x[2 * n + 3].kind = "sealed" /\ x[2 * n + 3].key = key
        /\ x[2 * n + 3].aad = FinalAad(h)
    BY <1>2, Zenon DEF FinalIsValid, Opens
  <2>3. PICK j \in K : \/ x[2 * n + 3] = DigestOf(j)
                       \/ \E a \in 1 .. CountOf(j) : x[2 * n + 3] = SealedOf(j, a)
    BY <1>13, <2>1, <2>2, Zenon DEF OfItsKind
  <2>4. \A a : x[2 * n + 3] # SealedOf(j, a)
    BY <1>4, <1>14, <2>2, Zenon DEF SealsOnly
  <2>5. x[2 * n + 3] = DigestOf(j) /\ j = k
    BY <1>4, <1>14, <2>2, <2>3, <2>4, Zenon DEF SealsOnly
  <2>6. DigestOf(k).key = k.key
    BY CellFields
  <2> QED
    BY <2>2, <2>5, <2>6
<1>11. IsSaved(x, k)
  BY <1>2, <1>3, <1>4, <1>5, <1>8, <1>9, <1>10 DEF IsSaved
<1>12. Decrypt(x, k.key) = Success(k.bytes)
  BY <1>6, <1>11, ContainerOpens
<1> QED
  BY <1>10, <1>11, <1>12

\* The cells of a container stand where IsSaved says, so there is one such file.
LEMMA SavedOnce ==
    ASSUME NEW B, NEW k, Saveable(B, k), NEW x, IsSaved(x, k), NEW y, IsSaved(y, k)
    PROVE  x = y
<1> DEFINE n == CountOf(k)
<1>1. n \in Nat
  BY FramesCut
<1>2. /\ DOMAIN x = 1 .. 2 * n + 3 /\ x = [p \in 1 .. 2 * n + 3 |-> x[p]]
      /\ DOMAIN y = 1 .. 2 * n + 3 /\ y = [p \in 1 .. 2 * n + 3 |-> y[p]]
  BY DEF IsSaved
<1>3. ASSUME NEW p \in 1 .. 2 * n + 3 PROVE x[p] = y[p]
  <2>1. \/ p = 1 \/ p = 2 * n + 2 \/ p = 2 * n + 3
        \/ \E i \in 1 .. n : p = 2 * i \/ p = 2 * i + 1
    BY <1>1, CellPositions
  <2> QED
    BY <2>1, Zenon DEF IsSaved
<1> QED
  BY <1>2, <1>3, Zenon

\* A container is a sequence of its cells.
LEMMA SavedType ==
    ASSUME NEW B, NEW k, Saveable(B, k)
    PROVE  /\ CellsOf(k) \in Seq({CellsOf(k)[p] : p \in DOMAIN CellsOf(k)})
           /\ \A p \in DOMAIN CellsOf(k) : CellIn(CellsOf(k)[p], {k})
<1> DEFINE n == CountOf(k)
           x == CellsOf(k)
<1>1. n \in Nat /\ IsSaved(x, k)
  BY FramesCut, SavedCells
<1> HIDE DEF x
<1>2. DOMAIN x = 1 .. 2 * n + 3 /\ x = [p \in DOMAIN x |-> x[p]]
  BY <1>1 DEF IsSaved
<1>3. x \in Seq({x[p] : p \in DOMAIN x})
  <2> DEFINE R == {x[p] : p \in DOMAIN x}
  <2>1. x \in [1 .. 2 * n + 3 -> R]
    BY <1>2
  <2>2. 2 * n + 3 \in Nat
    BY <1>1
  <2> HIDE DEF R, n
  <2>3. x \in Seq(R)
    BY <2>1, <2>2
  <2> QED
    BY <2>3 DEF R
<1>4. ASSUME NEW p \in DOMAIN x PROVE CellIn(x[p], {k})
  <2>1. \/ p = 1 \/ p = 2 * n + 2 \/ p = 2 * n + 3
        \/ \E i \in 1 .. n : p = 2 * i \/ p = 2 * i + 1
    BY <1>1, <1>2, CellPositions
  <2>2. \/ x[p] = HeaderOf(k) \/ x[p] = FinalMeta \/ x[p] = DigestOf(k)
        \/ \E i \in 1 .. n : x[p] = MetaOf(k, i) \/ x[p] = SealedOf(k, i)
    BY <1>1, <2>1, Zenon DEF IsSaved
  <2> QED
    BY <2>2 DEF CellIn
<1> QED
  BY <1>3, <1>4 DEF x

\* A sequence over the elements of s and others, of which one end at least is
\* an element of s.
OneEndOf(x, s, others) ==
    /\ x \in Seq({s[p] : p \in DOMAIN s} \cup others)
    /\ Len(x) >= 2 => \/ x[1] \in {s[p] : p \in DOMAIN s}
                      \/ x[Len(x)] \in {s[p] : p \in DOMAIN s}

\* A disturbance brings in one element at most.
LEMMA DisturbedOnce ==
    ASSUME NEW S, NEW s \in Seq(S), NEW others, NEW x \in Disturbed(s, others)
    PROVE  OneEndOf(x, s, others)
<1> DEFINE R == {s[p] : p \in DOMAIN s}
           n == Len(s)
<1>1. s \in Seq(R) /\ n \in Nat /\ DOMAIN s = 1 .. n
  <2>1. n \in Nat /\ DOMAIN s = 1 .. n /\ s = [p \in 1 .. n |-> s[p]]
    OBVIOUS
  <2>2. s \in [1 .. n -> R]
    BY <2>1
  <2> QED
    BY <2>1, <2>2
<1> HIDE DEF R
<1>2. ASSUME NEW y \in Seq(R) PROVE OneEndOf(y, s, others)
  <2>1. y \in Seq(R \cup others) /\ Len(y) \in Nat
    OBVIOUS
  <2>2. Len(y) >= 2 => y[1] \in R
    OBVIOUS
  <2> QED
    BY <2>1, <2>2 DEF OneEndOf, R
<1>3. CASE \E m \in 0 .. n - 1 : x = SubSeq(s, 1, m)
  <2>1. PICK m \in 0 .. n - 1 : x = SubSeq(s, 1, m)
    BY <1>3
  <2>2. x \in Seq(R)
    BY <1>1, <2>1
  <2> QED
    BY <1>2, <2>2
<1>4. CASE \E i \in DOMAIN s : x = RemoveAt(s, i)
  <2>1. PICK i \in 1 .. n : x = RemoveAt(s, i)
    BY <1>1, <1>4
  <2>2. SubSeq(s, 1, i - 1) \in Seq(R) /\ SubSeq(s, i + 1, n) \in Seq(R)
    BY <1>1
  <2>3. x \in Seq(R)
    BY <2>1, <2>2 DEF RemoveAt
  <2> QED
    BY <1>2, <2>3
<1>5. CASE \E i \in DOMAIN s, y \in others : x = ReplaceAt(s, i, y)
  <2>1. PICK i \in 1 .. n, y \in others : x = [s EXCEPT ![i] = y]
    BY <1>1, <1>5 DEF ReplaceAt
  <2>2. x \in Seq(R \cup others) /\ Len(x) = n
    <3>1. s \in Seq(R \cup others)
      BY <1>1
    <3> QED
      BY <1>1, <2>1, <3>1
  <2>3. n >= 2 => x[1] = s[1] \/ x[n] = s[n]
    <3>1. \A p \in 1 .. n : p # i => x[p] = s[p]
      BY <1>1, <2>1
    <3>2. n >= 2 => 1 \in 1 .. n /\ n \in 1 .. n /\ 1 # n
      BY <1>1
    <3> QED
      BY <3>1, <3>2
  <2>4. n >= 2 => s[1] \in R /\ s[n] \in R
    BY <1>1
  <2>5. n >= 2 => x[1] \in R \/ x[n] \in R
    BY <2>3, <2>4
  <2> QED
    BY <2>2, <2>5 DEF OneEndOf, R
<1>6. CASE \E y \in others : x = Append(s, y)
  <2>1. PICK y \in others : x = Append(s, y)
    BY <1>6
  <2>2. s \in Seq(R \cup others)
    BY <1>1
  <2>3. x \in Seq(R \cup others) /\ Len(x) = n + 1 /\ (n >= 1 => x[1] = s[1])
    BY <1>1, <2>1, <2>2
  <2>4. n >= 1 => s[1] \in R
    BY <1>1
  <2>5. Len(x) >= 2 => x[1] \in R
    BY <1>1, <2>3, <2>4
  <2> QED
    BY <2>3, <2>5 DEF OneEndOf, R
<1>7. CASE \E i \in DOMAIN s, j \in DOMAIN s : x = [s EXCEPT ![i] = s[j], ![j] = s[i]]
  <2>1. PICK i \in 1 .. n, j \in 1 .. n : x = [s EXCEPT ![i] = s[j], ![j] = s[i]]
    BY <1>1, <1>7
  <2>2. s[i] \in R /\ s[j] \in R
    BY <1>1
  <2>3. x \in Seq(R)
    BY <1>1, <2>1, <2>2
  <2> QED
    BY <1>2, <2>3
<1> QED
  BY <1>3, <1>4, <1>5, <1>6, <1>7 DEF Disturbed

\* A container gives back what was saved, under its key only; one with a cell
\* altered, lost, added, exchanged, or taken from another container under the
\* same key is refused: for every content, frame size and pair of keys.
THEOREM ContainersRestored ==
    ASSUME NEW B, NEW bytes \in Seq(B), NEW other \in Seq(B), NEW fs \in Nat \ {0},
           NEW key, NEW wrongKey, key # wrongKey
    PROVE  ContainerRestored(bytes, other, fs, key, wrongKey)
<1> DEFINE k == [bytes |-> bytes, frame |-> fs, key |-> key, id |-> "id1"]
           j == [bytes |-> other, frame |-> fs, key |-> key, id |-> "id2"]
           cells == CellsOf(k)
           alien == CellsOf(j)
           foreign == {alien[p] : p \in DOMAIN alien} \cup {Noise}
           R == {cells[p] : p \in DOMAIN cells}
<1>1. /\ k.bytes = bytes /\ k.frame = fs /\ k.key = key /\ k.id = "id1"
      /\ j.bytes = other /\ j.frame = fs /\ j.key = key /\ j.id = "id2"
  OBVIOUS
<1>2. cells = Save(bytes, fs, key, "id1") /\ foreign = ToSet(Save(other, fs, key, "id2")) \cup {Noise}
  BY <1>1 DEF CellsOf, ToSet
<1> HIDE DEF k, j
<1>3. Saveable(B, k) /\ Saveable(B, j) /\ k # j
  BY <1>1 DEF Saveable
<1>4. IsSaved(cells, k) /\ IsSaved(alien, j)
  BY <1>3, SavedCells
<1>5. /\ cells \in Seq(R) /\ \A p \in DOMAIN cells : CellIn(cells[p], {k})
      /\ \A p \in DOMAIN alien : CellIn(alien[p], {j})
  BY <1>3, SavedType
<1> HIDE DEF cells, alien
<1>6. Decrypt(cells, key) = Success(bytes)
  BY <1>1, <1>3, <1>4, ContainerOpens
<1>7. Decrypt(cells, wrongKey) = Failure
  <2>1. Identified(B, {k})
    BY <1>3 DEF Identified
  <2>2. Mixed(cells, {k})
    BY <1>5 DEF Mixed
  <2>3. Decrypt(cells, wrongKey) # Failure => \E i \in {k} : i.key = wrongKey
    BY <1>5, <2>1, <2>2, ContainersUnmixed
  <2> QED
    BY <1>1, <2>3
<1>8. ASSUME NEW x \in Disturbed(cells, foreign), x # cells
      PROVE  Decrypt(x, key) = Failure
  <2>1. OneEndOf(x, cells, foreign)
    BY <1>5, DisturbedOnce
  <2>2. x \in Seq(R \cup foreign) /\ (Len(x) >= 2 => x[1] \in R \/ x[Len(x)] \in R)
    BY <2>1 DEF OneEndOf
  <2>3. Identified(B, {k, j})
    BY <1>1, <1>3 DEF Identified
  <2>4. \A y \in R : CellIn(y, {k})
    BY <1>5
  <2>5. \A y \in R \cup foreign : CellIn(y, {k, j}) \/ Stray(y)
    <3>1. \A y : CellIn(y, {k}) \/ CellIn(y, {j}) => CellIn(y, {k, j})
      BY DEF CellIn
    <3>2. Stray(Noise)
      BY DEF Stray, Noise
    <3> QED
      BY <1>5, <2>4, <3>1, <3>2
  <2> HIDE DEF R, foreign
  <2>6. Mixed(x, {k, j})
    <3> DEFINE Q == R \cup foreign
    <3> HIDE DEF Q
    <3>1. x \in Seq(Q)
      BY <2>2 DEF Q
    <3>2. \A p \in DOMAIN x : x[p] \in Q
      BY <3>1
    <3> QED
      BY <2>5, <3>2 DEF Mixed, Q
  <2>7. SUFFICES ASSUME Decrypt(x, key) # Failure
                 PROVE  FALSE
    OBVIOUS
  <2>8. PICK i \in {k, j} : IsSaved(x, i)
    BY <2>2, <2>3, <2>6, <2>7, ContainersUnmixed
  <2>9. CASE i = k
    BY <1>3, <1>4, <1>8, <2>8, <2>9, SavedOnce
  <2>10. CASE i = j
    <3>1. /\ CountOf(j) \in Nat /\ Len(x) = 2 * CountOf(j) + 3
          /\ x[1] = HeaderOf(j) /\ x[Len(x)] = DigestOf(j)
      BY <1>3, <2>8, <2>10, FramesCut DEF IsSaved
    <3>2. HeaderOf(j) \in R \/ DigestOf(j) \in R
      BY <2>2, <3>1
    <3>3. HeaderOf(j).kind = "header" /\ DigestOf(j).kind = "sealed"
          /\ DigestOf(j).aad = FinalAad(HeaderOf(j))
      BY CellFields
    <3>4. CASE HeaderOf(j) \in R
      <4>1. OfItsKind(HeaderOf(j), {k})
        BY <2>4, <3>4, CellKinds
      <4>2. HeaderOf(j) = HeaderOf(k)
        BY <3>3, <4>1 DEF OfItsKind
      <4>3. HeaderOf(j).id = j.id /\ HeaderOf(k).id = k.id
        BY CellFields
      <4> QED
        BY <1>1, <4>2, <4>3
    <3>5. CASE DigestOf(j) \in R
      <4>1. OfItsKind(DigestOf(j), {k})
        BY <2>4, <3>5, CellKinds
      <4>2. DigestOf(j) = DigestOf(k) \/ \E a \in 1 .. CountOf(k) : DigestOf(j) = SealedOf(k, a)
        BY <3>3, <4>1 DEF OfItsKind
      <4>3. SealsOnly(k, j)
        BY <2>3, SealsApart
      <4>4. DigestOf(k).aad = FinalAad(HeaderOf(j)) => k = j
        BY <4>3 DEF SealsOnly
      <4>5. \A a : SealedOf(k, a).aad # FinalAad(HeaderOf(j))
        BY <4>3 DEF SealsOnly
      <4> QED
        BY <1>3, <3>3, <4>2, <4>4, <4>5
    <3> QED
      BY <3>2, <3>4, <3>5
  <2> QED
    BY <2>8, <2>9, <2>10
<1> QED
  BY <1>2, <1>6, <1>7, <1>8, Zenon DEF ContainerRestored
-----------------------------------------------------------------------------
(* Laid out files.                                                         *)

\* Targets that are all different meet every block.
MeetAll(target, n) == \A b \in 0 .. n - 1 : \E k \in 0 .. n - 1 : target[k] = b

LEMMA TargetsMeetAll ==
    ASSUME NEW n \in Nat, NEW target, Targets(target, n), Apart(target, n)
    PROVE  MeetAll(target, n)
<1> DEFINE S == 0 .. n - 1
           f == [k \in S |-> target[k]]
<1>1. f \in [S -> S]
  BY DEF Targets
<1>2. \A a, b \in S : f[a] = f[b] => a = b
  BY DEF Apart
<1>3. IsFiniteSet(S)
  <2>1. 0 \in Int /\ n - 1 \in Int
    OBVIOUS
  <2> QED
    BY <2>1, FS_Interval, Zenon
<1> HIDE DEF f, S
<1>4. f \in Injection(S, S)
  BY <1>1, <1>2, Zenon DEF Injection, IsInjective
<1>5. f \in Surjection(S, S)
  BY <1>3, <1>4, FS_Injection, Zenon
<1>6. \A b \in S : \E k \in S : f[k] = b
  BY <1>5, Zenon DEF Surjection
<1> QED
  BY <1>6 DEF f, S, MeetAll

\* What is copied to every block is made of the elements of the source.
MadeOf(out, R, s) == out \in Seq(R) /\ Len(out) = Len(s)

LEMMA CopyMembers ==
    ASSUME NEW R, NEW source \in Seq(R), NEW bs \in Nat \ {0}, NEW from, NEW to,
           Targets(from, Blocks(source, bs)), Targets(to, Blocks(source, bs)),
           Apart(to, Blocks(source, bs))
    PROVE  MadeOf(CopyBlocks(source, bs, from, to), R, source)
<1> DEFINE m == Blocks(source, bs)
           out == CopyBlocks(source, bs, from, to)
<1>1. m \in Nat /\ Len(source) \in Nat /\ m = Len(source) \div bs
  BY BlocksType DEF Blocks
<1>2. Laid(R, out, source, bs, from, to)
  BY CopyBlocksHolds
<1>3. out \in Seq(R \cup {0}) /\ Len(out) = Len(source)
  BY <1>2 DEF Laid
<1>4. MeetAll(to, m)
  <2> HIDE DEF m
  <2>1. Targets(to, m) /\ Apart(to, m)
    BY DEF m
  <2> QED
    BY <1>1, <2>1, TargetsMeetAll, Zenon
<1> HIDE DEF out, m
<1>5. ASSUME NEW p \in 1 .. Len(source) PROVE out[p] \in R
  <2>1. p \in Nat \ {0}
    BY <1>1
  <2>2. PICK b \in Nat, o \in 0 .. bs - 1 : b = BlockOf(p, bs) /\ p = BytePos(b, o, bs)
    BY <2>1, SplitPosition
  <2>3. CASE b >= m
    <3>1. out[p] = source[p]
      BY <1>2, <2>2, <2>3 DEF Laid, m
    <3> QED
      BY <3>1
  <2>4. CASE b < m
    <3>1. b \in 0 .. m - 1
      BY <1>1, <2>4
    <3>2. PICK k \in 0 .. m - 1 : to[k] = b
      BY <1>4, <3>1 DEF MeetAll
    <3>3. out[BytePos(to[k], o, bs)] = source[BytePos(from[k], o, bs)]
      BY <1>2, <3>2 DEF Laid, m
    <3>4. PICK a \in 0 .. m - 1 : a = from[k]
      BY <3>2 DEF Targets, m
    <3>5. BytePos(a, o, bs) \in 1 .. Len(source)
      <4> DEFINE len == Len(source)
      <4>1. len \in Nat /\ a \in 0 .. (len \div bs) - 1 /\ len \div bs \in Nat
        BY <1>1, <3>4
      <4> HIDE DEF len
      <4>2. BytePos(a, o, bs) \in 1 .. len
        BY <4>1, InsideBuffer
      <4> QED
        BY <4>2 DEF len
    <3>6. source[BytePos(a, o, bs)] \in R
      BY <1>1, <3>5
    <3> QED
      BY <2>2, <3>2, <3>3, <3>4, <3>6
  <2> QED
    BY <1>1, <2>2, <2>3, <2>4
<1>6. out \in [1 .. Len(source) -> R]
  <2>1. out = [p \in 1 .. Len(source) |-> out[p]]
    BY <1>3
  <2> QED
    BY <1>5, <2>1
<1>7. out \in Seq(R)
  BY <1>1, <1>6
<1> QED
  BY <1>3, <1>7 DEF out, MadeOf

\* Both ways of laying a file out keep its elements and its length.
LEMMA LaidOutMembers ==
    ASSUME NEW R, NEW s \in Seq(R), NEW bs \in Nat \ {0}, NEW target,
           Targets(target, Blocks(s, bs)), Apart(target, Blocks(s, bs))
    PROVE  /\ MadeOf(PermuteFile(s, bs, target), R, s)
           /\ MadeOf(RestoreFile(s, bs, target), R, s)
<1> DEFINE m == Blocks(s, bs)
<1>1. m \in Nat
  BY BlocksType
<1> HIDE DEF m
<1>2. Targets(InOrder(m), m) /\ Apart(InOrder(m), m)
  BY <1>1, InOrderTargets, Zenon
<1>3. Targets(InOrder(Blocks(s, bs)), Blocks(s, bs)) /\ Apart(InOrder(Blocks(s, bs)), Blocks(s, bs))
  BY <1>2, Zenon DEF m
<1>4. MadeOf(CopyBlocks(s, bs, InOrder(Blocks(s, bs)), target), R, s)
  BY <1>3, CopyMembers, Zenon
<1>5. MadeOf(CopyBlocks(s, bs, target, InOrder(Blocks(s, bs))), R, s)
  BY <1>3, CopyMembers, Zenon
<1> QED
  BY <1>4, <1>5, Zenon DEF PermuteFile, RestoreFile

\* The data that the chunks of an image carry.
DataOf(chunks)   == [i \in DOMAIN chunks |-> IF chunks[i].type = "IDAT" THEN chunks[i].data ELSE <<>>]
StreamOf(chunks) == FlattenSeq(DataOf(chunks))
SizeChunk(w, h)  == Chunk("IHDR", <<[kind |-> "ihdr", width |-> w, height |-> h]>>)

\* Chunks of an image of w columns and h rows, or others with data of C.
ShownBy(chunk, w, h, C) ==
    \/ chunk = SizeChunk(w, h)
    \/ chunk.type # "IHDR" /\ (chunk.type = "IDAT" => chunk.data \in Seq(C))
LikeImage(x, w, h, C) == DOMAIN x = 1 .. Len(x) /\ \A i \in DOMAIN x : ShownBy(x[i], w, h, C)

LEMMA DataType ==
    ASSUME NEW C, NEW w, NEW h, NEW x, LikeImage(x, w, h, C), Len(x) \in Nat
    PROVE  DataOf(x) \in Seq(Seq(C))
<1>1. DOMAIN x = 1 .. Len(x) /\ \A i \in DOMAIN x : ShownBy(x[i], w, h, C)
  BY DEF LikeImage
<1>2. ASSUME NEW i \in DOMAIN x
      PROVE  (IF x[i].type = "IDAT" THEN x[i].data ELSE <<>>) \in Seq(C)
  <2>1. SizeChunk(w, h).type = "IHDR"
    BY DEF SizeChunk, Chunk
  <2>2. x[i].type = "IDAT" => x[i].data \in Seq(C)
    BY <1>1, <2>1, Zenon DEF ShownBy
  <2>3. <<>> \in Seq(C)
    OBVIOUS
  <2> QED
    BY <2>2, <2>3, Zenon
<1>3. DataOf(x) \in [1 .. Len(x) -> Seq(C)]
  BY <1>1, <1>2, Zenon DEF DataOf
<1> DEFINE d == DataOf(x)
           n == Len(x)
           Q == Seq(C)
<1> HIDE DEF d, n, Q
<1>4. d \in Seq(Q)
  BY <1>3 DEF d, n, Q
<1> QED
  BY <1>4 DEF d, Q

\* The compressed stream of an image is made of its data.
LEMMA StreamType ==
    ASSUME NEW C, NEW w, NEW h, NEW x, LikeImage(x, w, h, C), Len(x) \in Nat
    PROVE  StreamOf(x) \in Seq(C)
BY DataType, FlattenType, Zenon DEF StreamOf

\* A position in the stream of an image is a row and a cell of the row.
LEMMA RowBounds ==
    ASSUME NEW L \in Nat \ {0}, NEW h \in Nat, NEW r \in 1 .. h
    PROVE  /\ (r - 1) * L \in Nat /\ r * L = (r - 1) * L + L /\ r * L \in Nat
           /\ r * L <= h * L /\ h * L \in Nat
<1>1. PICK a \in Nat : r = a + 1
  <2>1. r - 1 \in Nat /\ r = (r - 1) + 1
    OBVIOUS
  <2> QED
    BY <2>1
<1>2. PICK d \in Nat : h = r + d
  <2>1. h - r \in Nat /\ h = r + (h - r)
    OBVIOUS
  <2> QED
    BY <2>1
<1>3. /\ r * L = a * L + L /\ a * L \in Nat /\ d * L \in Nat
  BY <1>1, SMTT(30)
<1>4. h * L = r * L + d * L
  BY <1>2, SMTT(30)
<1>5. r - 1 = a
  BY <1>1
<1> QED
  BY <1>3, <1>4, <1>5

\* What is decoded of a valid image comes from its data.
LEMMA DecodedType ==
    ASSUME NEW C, NEW w \in Nat, NEW h \in Nat, NEW x, LikeImage(x, w, h, C), PngIsValid(x)
    PROVE  DecodePng(x) \in Seq(C)
<1> DEFINE L == 4 * w + 1
           s == StreamOf(x)
           rows == [r \in 1 .. h |-> SubSeq(s, (r - 1) * L + 2, r * L)]
<1>1. Len(x) >= 2 /\ x[1].type = "IHDR"
  BY Zenon DEF PngIsValid
<1>2. Len(x) \in Nat /\ 1 \in DOMAIN x
  BY <1>1 DEF LikeImage
<1>3. x[1] = SizeChunk(w, h)
  BY <1>1, <1>2, Zenon DEF LikeImage, ShownBy
<1>4. x[1].data[1].width = w /\ x[1].data[1].height = h
  BY <1>3 DEF SizeChunk, Chunk
<1>5. s \in Seq(C)
  BY <1>2, StreamType
<1>6. Len(s) = h * L + 1
  BY <1>4, Zenon DEF PngIsValid, StreamOf, DataOf
<1>7. DecodePng(x) = FlattenSeq(rows)
  BY <1>4, Zenon DEF DecodePng, StreamOf, DataOf
<1>8. L \in Nat \ {0}
  OBVIOUS
<1> HIDE DEF L, s
<1>9. ASSUME NEW r \in 1 .. h PROVE SubSeq(s, (r - 1) * L + 2, r * L) \in Seq(C)
  <2>1. /\ (r - 1) * L \in Nat /\ r * L = (r - 1) * L + L /\ r * L \in Nat
        /\ r * L <= h * L /\ h * L \in Nat
    BY <1>8, RowBounds
  <2>2. PICK a \in Nat, b \in Nat : a = (r - 1) * L /\ b = r * L
    BY <2>1
  <2>3. a + 2 >= 1 /\ b <= Len(s) /\ Len(s) \in Nat
    BY <1>6, <2>1, <2>2
  <2>4. \A t \in Seq(C), c, e \in Nat : c >= 1 /\ e <= Len(t) => SubSeq(t, c, e) \in Seq(C)
    OBVIOUS
  <2>5. SubSeq(s, a + 2, b) \in Seq(C)
    BY <1>5, <2>3, <2>4
  <2> QED
    BY <2>2, <2>5
<1>10. rows \in [1 .. h -> Seq(C)]
  BY <1>9
<1> DEFINE Q == Seq(C)
<1> HIDE DEF rows, Q
<1>11. rows \in Seq(Q)
  BY <1>10 DEF Q
<1> QED
  BY <1>7, <1>11, FlattenType, Zenon DEF Q
-----------------------------------------------------------------------------
(* Reading a carrier.                                                      *)

\* One cell in C can be a carrier's header.
OneCarrier(C, ch) == \A c \in C : c.kind = "carrier" => c = ch

\* Layouts of files of up to `limit` cells, one to one where they are found.
LayoutsFit(layouts, pass, limit) ==
    \A n \in 0 .. limit :
        Found(layouts[pass][n], n) => Targets(layouts[pass][n], n) /\ Apart(layouts[pass][n], n)

\* There are no more blocks than bytes.
LEMMA BlocksFit ==
    ASSUME NEW S, NEW s \in Seq(S), NEW b \in Nat \ {0}
    PROVE  Blocks(s, b) \in 0 .. Len(s)
<1> DEFINE len == Len(s)
<1>1. Blocks(s, b) = len \div b /\ len \in Nat /\ Blocks(s, b) \in Nat
  BY BlocksType DEF Blocks
<1> HIDE DEF len
<1>2. PICK q \in Nat : q = Blocks(s, b)
  BY <1>1
<1>3. len % b \in 0 .. b - 1 /\ len = b * (len \div b) + (len % b)
  BY <1>1, Division
<1>4. b * q <= len
  BY <1>1, <1>2, <1>3
<1>5. q <= b * q /\ b * q \in Nat
  <2>1. PICK d \in Nat : b = 1 + d
    <3>1. b - 1 \in Nat /\ b = 1 + (b - 1)
      OBVIOUS
    <3> QED
      BY <3>1
  <2>2. b * q = q + d * q /\ d * q \in Nat
    BY <1>2, <2>1, SMTT(30)
  <2> QED
    BY <1>2, <2>2
<1> QED
  BY <1>1, <1>2, <1>4, <1>5 DEF len

\* However the chunks were disturbed, what is decrypted is the payload that the
\* only header announces, cells of the container in some order.
SameOrNothing(out, k, key) == out \in {Failure, Success(k.bytes)} /\ (key # k.key => out = Failure)

LEMMA RestoresOnly ==
    ASSUME NEW B, NEW k, Saveable(B, k), NEW S, S = {CellsOf(k)[p] : p \in DOMAIN CellsOf(k)},
           NEW permuted \in Seq(S), NEW size, NEW C,
           OneCarrier(C, CarrierHeader(size, k.id, permuted)),
           NEW w \in Nat, NEW h \in Nat, NEW x, LikeImage(x, w, h, C),
           NEW layouts, NEW pass, LayoutsFit(layouts, pass, Len(permuted)), NEW b \in Nat \ {0}
    PROVE  SameOrNothing(RestoreCarrier(x, pass, layouts, b), k, CarrierKey(pass, k.id))
<1> DEFINE pixels == DecodePng(x)
           payload == Payload(pixels)
           n == Blocks(payload, b)
           key == CarrierKey(pass, Head(pixels).id)
           secure == RestoreFile(payload, b, CarrierLayout(layouts, pass, n))
           ch == CarrierHeader(size, k.id, permuted)
<1> DEFINE read == PngIsValid(x) /\ CarrierIsValid(pixels) /\ Found(CarrierLayout(layouts, pass, n), n)
<1>1. RestoreCarrier(x, pass, layouts, b) = IF read THEN Decrypt(secure, key) ELSE Failure
  BY DEF RestoreCarrier
<1>2. CASE ~read
  <2> HIDE DEF read
  <2> QED
    BY <1>1, <1>2, Zenon DEF SameOrNothing
<1>3. CASE read
  <2>1. pixels \in Seq(C)
    BY <1>3, DecodedType
  <2>2. pixels # <<>> /\ Head(pixels).kind = "carrier" /\ Head(pixels).digest = payload
    BY <1>3 DEF CarrierIsValid
  <2> HIDE DEF pixels, payload
  <2>3. Head(pixels) \in C
    BY <2>1, <2>2
  <2>4. Head(pixels) = ch
    BY <2>2, <2>3 DEF OneCarrier
  <2>5. payload = permuted /\ Head(pixels).id = k.id
    BY <2>2, <2>4 DEF CarrierHeader
  <2>6. payload \in Seq(S)
    BY <2>5
  <2>7. Targets(layouts[pass][n], n) /\ Apart(layouts[pass][n], n)
    <3>1. n \in 0 .. Len(payload)
      BY <2>6, BlocksFit
    <3>2. n \in 0 .. Len(permuted)
      BY <2>5, <3>1
    <3>3. Found(layouts[pass][n], n)
      BY <1>3 DEF CarrierLayout
    <3> HIDE DEF n
    <3> QED
      BY <3>2, <3>3, Zenon DEF LayoutsFit
  <2>8. secure \in Seq(S)
    <3> DEFINE target == CarrierLayout(layouts, pass, n)
    <3>1. Targets(target, n) /\ Apart(target, n)
      BY <2>7 DEF CarrierLayout
    <3> HIDE DEF target
    <3>2. MadeOf(RestoreFile(payload, b, target), S, payload)
      BY <2>6, <3>1, LaidOutMembers
    <3> QED
      BY <3>2 DEF MadeOf, target
  <2> HIDE DEF secure
  <2>9. Identified(B, {k})
    BY DEF Identified
  <2>10. Mixed(secure, {k})
    <3>1. \A p \in DOMAIN secure : secure[p] \in S
      BY <2>8
    <3>2. \A y \in S : CellIn(y, {k})
      BY SavedType
    <3> QED
      BY <3>1, <3>2 DEF Mixed
  <2>11. Decrypt(secure, key) # Failure
           => k.key = key /\ Decrypt(secure, key) = Success(k.bytes)
    <3>1. Decrypt(secure, key) # Failure
            => \E i \in {k} : i.key = key /\ Decrypt(secure, key) = Success(i.bytes)
      BY <2>8, <2>9, <2>10, ContainersUnmixed
    <3> QED
      BY <3>1
  <2>12. key = CarrierKey(pass, k.id)
    BY <2>5
  <2>13. RestoreCarrier(x, pass, layouts, b) = Decrypt(secure, key)
    BY <1>1, <1>3, Zenon DEF secure, pixels, payload
  <2> HIDE DEF key
  <2> QED
    BY <2>11, <2>12, <2>13 DEF SameOrNothing
<1> QED
  BY <1>2, <1>3
-----------------------------------------------------------------------------
(* The encoder.                                                            *)

\* The chunks that the encoder writes.
ImageChunks(w, h, D) ==
    {SizeChunk(w, h), Chunk("IEND", <<>>)} \cup {Chunk("IDAT", d) : d \in Seq(D)}

LEMMA ChunksShown ==
    ASSUME NEW w, NEW h, NEW D
    PROVE  \A c \in ImageChunks(w, h, D) : ShownBy(c, w, h, D) /\ c.intact = TRUE
<1>1. \A type, data : /\ Chunk(type, data).type = type /\ Chunk(type, data).data = data
                      /\ Chunk(type, data).intact = TRUE
  BY DEF Chunk
<1> QED
  BY <1>1 DEF ImageChunks, ShownBy, SizeChunk

LEMMA ChunksLikeImage ==
    ASSUME NEW w, NEW h, NEW D, NEW x \in Seq(ImageChunks(w, h, D))
    PROVE  LikeImage(x, w, h, D) /\ Len(x) \in Nat
<1> DEFINE Q == ImageChunks(w, h, D)
<1> HIDE DEF Q
<1>1. x \in Seq(Q)
  BY DEF Q
<1>2. DOMAIN x = 1 .. Len(x) /\ Len(x) \in Nat /\ \A i \in DOMAIN x : x[i] \in Q
  BY <1>1
<1>3. \A i \in DOMAIN x : ShownBy(x[i], w, h, D)
  BY <1>2, ChunksShown, Zenon DEF Q
<1> QED
  BY <1>2, <1>3, Zenon DEF LikeImage

\* What a chunk adds to the stream.
Adds(y, x, c) == StreamOf(y) = StreamOf(x) \o (IF c.type = "IDAT" THEN c.data ELSE <<>>)

LEMMA StreamGrows ==
    ASSUME NEW w, NEW h, NEW D, NEW x \in Seq(ImageChunks(w, h, D)), NEW c \in ImageChunks(w, h, D)
    PROVE  Adds(Append(x, c), x, c)
<1> DEFINE Q == ImageChunks(w, h, D)
           e == IF c.type = "IDAT" THEN c.data ELSE <<>>
           n == Len(x)
           y == Append(x, c)
           V == Seq(D)
           dx == DataOf(x)
<1> HIDE DEF Q
<1>1. x \in Seq(Q) /\ c \in Q
  BY DEF Q
<1>2. n \in Nat /\ DOMAIN x = 1 .. n /\ DOMAIN y = 1 .. n + 1 /\ y[n + 1] = c
      /\ \A i \in 1 .. n : y[i] = x[i]
  BY <1>1
<1>3. dx \in Seq(V)
  BY ChunksLikeImage, DataType, Zenon
<1>4. e \in V
  <2>1. ShownBy(c, w, h, D)
    BY ChunksShown
  <2>2. SizeChunk(w, h).type = "IHDR"
    BY DEF SizeChunk, Chunk
  <2>3. <<>> \in Seq(D)
    OBVIOUS
  <2> QED
    BY <2>1, <2>2, <2>3 DEF ShownBy
<1> DEFINE f(z) == IF z.type = "IDAT" THEN z.data ELSE <<>>
<1>5. DataOf(x) = [i \in 1 .. n |-> f(x[i])] /\ DataOf(y) = [i \in 1 .. n + 1 |-> f(y[i])]
  BY <1>2, Zenon DEF DataOf
<1>6. DataOf(y) = Append(dx, e)
  <2>1. \A i \in 1 .. n : f(y[i]) = f(x[i])
    BY <1>2
  <2>2. f(y[n + 1]) = e
    BY <1>2
  <2> HIDE DEF f, e, y, V
  <2> DEFINE a == Append(dx, e)
  <2>3. Len(dx) = n /\ \A i \in 1 .. n : dx[i] = f(x[i])
    <3>1. DOMAIN dx = 1 .. n
      BY <1>5
    <3>2. Len(dx) \in Nat /\ DOMAIN dx = 1 .. Len(dx)
      BY <1>3
    <3>3. Len(dx) = n
      BY <1>2, <3>1, <3>2
    <3> QED
      BY <1>5, <3>3
  <2> HIDE DEF dx
  <2>4. a = [i \in 1 .. n + 1 |-> IF i = n + 1 THEN e ELSE dx[i]]
    <3>1. ASSUME NEW U, NEW s \in Seq(U), NEW v \in U, NEW m \in Nat, Len(s) = m
          PROVE  Append(s, v) = [i \in 1 .. m + 1 |-> IF i = m + 1 THEN v ELSE s[i]]
      <4> DEFINE t == Append(s, v)
      <4>1. t \in Seq(U) /\ Len(t) = m + 1 /\ t[m + 1] = v /\ \A i \in 1 .. m : t[i] = s[i]
        BY <3>1
      <4> HIDE DEF t
      <4>2. t = [i \in 1 .. m + 1 |-> t[i]]
        BY <4>1
      <4>3. \A i \in 1 .. m + 1 : t[i] = IF i = m + 1 THEN v ELSE s[i]
        BY <4>1
      <4> QED
        BY <4>2, <4>3 DEF t
    <3> QED
      BY <1>2, <1>3, <1>4, <2>3, <3>1 DEF a
  <2>5. \A i \in 1 .. n + 1 : f(y[i]) = IF i = n + 1 THEN e ELSE dx[i]
    BY <1>2, <2>1, <2>2, <2>3
  <2> HIDE DEF a
  <2> QED
    BY <1>5, <2>4, <2>5 DEF a
<1> HIDE DEF e, y, dx
<1>7. FlattenSeq(Append(dx, e)) = FlattenSeq(dx) \o e
  BY <1>3, <1>4, FlattenAppend, Zenon DEF V
<1> QED
  BY <1>6, <1>7, Zenon DEF Adds, StreamOf, y, dx, e
-----------------------------------------------------------------------------
(* The rows.                                                               *)

\* The pixels of a payload, and the raw cells of the first h rows: a filter
\* byte and four cells per pixel.
PixelAt(payload, p) == IF p <= Len(payload) THEN payload[p] ELSE Filler
RawAt(payload, w, p) ==
    IF WithinBlock(p, 4 * w + 1) = 0 THEN Filter
    ELSE PixelAt(payload, BlockOf(p, 4 * w + 1) * (4 * w) + WithinBlock(p, 4 * w + 1))
RawOf(payload, w, h) == [p \in 1 .. h * (4 * w + 1) |-> RawAt(payload, w, p)]

\* A row of cells, the pixels after x among them.
IsRow(row, payload, x, len) ==
    /\ Len(row) = len + 1 /\ DOMAIN row = 1 .. len + 1 /\ row[1] = Filter
    /\ row = [i \in DOMAIN row |-> row[i]]
    /\ \A i \in 1 .. len : row[i + 1] = PixelAt(payload, x + i)

LEMMA FilledRow ==
    ASSUME NEW D, NEW payload \in Seq(D), NEW x \in Nat, NEW len \in Nat, Filter \in D, Filler \in D
    PROVE  LET taken == ReadAt(payload, x, len)
               row   == <<Filter>> \o taken \o [i \in 1 .. len - Len(taken) |-> Filler]
           IN  row \in Seq(D) /\ IsRow(row, payload, x, len)
<1> DEFINE size == Len(payload)
           taken == ReadAt(payload, x, len)
           fill == [i \in 1 .. len - Len(taken) |-> Filler]
<1>1. size \in Nat
  OBVIOUS
<1> DEFINE Taken(t) == /\ taken \in Seq(D) /\ Len(taken) = t
                       /\ \A i \in 1 .. t : x + i <= size /\ taken[i] = payload[x + i]
                       /\ \A i \in t + 1 .. len : ~(x + i <= size)
<1>2. \E t \in 0 .. len : Taken(t)
  <2>1. CASE x + len <= size
    <3>1. taken \in Seq(D) /\ Piece(taken, payload, x, len)
      BY <2>1, ReadAtInside
    <3>2. \A i \in 1 .. len : x + i <= size
      BY <1>1, <2>1
    <3>3. \A i \in len + 1 .. len : FALSE
      OBVIOUS
    <3> HIDE DEF taken, size
    <3>4. Taken(len)
      BY <3>1, <3>2, <3>3, Zenon DEF Piece
    <3>5. len \in 0 .. len
      OBVIOUS
    <3> QED
      BY <3>4, <3>5, Zenon
  <2>2. CASE ~(x + len <= size) /\ x <= size
    <3>1. size - x \in Nat /\ size - x \in 0 .. len /\ x + (size - x) <= size
      BY <1>1, <2>2
    <3>2. taken = SubSeq(payload, x + 1, size)
      BY <1>1, <2>2 DEF ReadAt, Least
    <3>3. taken \in Seq(D) /\ Len(taken) = size - x
          /\ \A i \in 1 .. size - x : taken[i] = payload[x + i]
      BY <1>1, <2>2, <3>2
    <3>4. \A i \in (size - x) + 1 .. len : ~(x + i <= size)
      BY <1>1, <2>2
    <3>5. \A i \in 1 .. size - x : x + i <= size
      BY <1>1, <2>2
    <3> HIDE DEF taken, size
    <3>6. Taken(size - x)
      BY <3>3, <3>4, <3>5, Zenon
    <3> QED
      BY <3>1, <3>6, Zenon
  <2>3. CASE ~(x <= size)
    <3>1. taken = SubSeq(payload, x + 1, size)
      BY <1>1, <2>3 DEF ReadAt, Least
    <3>2. taken \in Seq(D) /\ Len(taken) = 0
      BY <1>1, <2>3, <3>1
    <3>3. \A i \in 0 + 1 .. len : ~(x + i <= size)
      BY <1>1, <2>3
    <3> QED
      BY <3>2, <3>3
  <2> HIDE DEF Taken
  <2> QED
    BY <1>1, <2>1, <2>2, <2>3
<1>3. PICK t \in 0 .. len : Taken(t)
  BY <1>2
<1>4. PICK l \in Nat : l = len - t /\ t + l = len
  <2>1. len - t \in Nat /\ t + (len - t) = len
    OBVIOUS
  <2> QED
    BY <2>1
<1>5. /\ fill \in Seq(D) /\ Len(fill) = l /\ \A i \in 1 .. l : fill[i] = Filler
  <2>1. fill = [i \in 1 .. l |-> Filler]
    BY <1>3, <1>4
  <2> HIDE DEF fill
  <2> QED
    BY <2>1
<1> HIDE DEF taken, fill, size
<1> DEFINE head == <<Filter>> \o taken
           row == head \o fill
<1>6. head \in Seq(D) /\ Len(head) = t + 1 /\ head[1] = Filter /\ \A i \in 1 .. t : head[i + 1] = taken[i]
  BY <1>3
<1> HIDE DEF head
<1>7. /\ row \in Seq(D) /\ Len(row) = len + 1
      /\ \A p \in 1 .. t + 1 : row[p] = head[p]
      /\ \A p \in t + 2 .. len + 1 : row[p] = fill[p - (t + 1)]
  BY <1>4, <1>5, <1>6
<1> HIDE DEF row
<1>8. ASSUME NEW i \in 1 .. len PROVE row[i + 1] = PixelAt(payload, x + i)
  <2>1. CASE i <= t
    <3>1. i \in 1 .. t /\ i + 1 \in 1 .. t + 1
      BY <2>1
    <3>2. row[i + 1] = taken[i]
      BY <1>6, <1>7, <3>1
    <3> QED
      BY <1>3, <3>1, <3>2 DEF PixelAt, size
  <2>2. CASE ~(i <= t)
    <3>1. /\ i \in t + 1 .. len /\ i - t \in 1 .. l
          /\ i + 1 \in t + 2 .. len + 1 /\ (i + 1) - (t + 1) = i - t
      BY <1>4, <2>2
    <3>2. row[i + 1] = Filler
      BY <1>5, <1>7, <3>1
    <3> QED
      BY <1>3, <3>1, <3>2 DEF PixelAt, size
  <2> QED
    BY <2>1, <2>2
<1>9. row[1] = Filter /\ DOMAIN row = 1 .. len + 1 /\ row = [i \in DOMAIN row |-> row[i]]
  BY <1>6, <1>7
<1>10. row \in Seq(D) /\ IsRow(row, payload, x, len)
  BY <1>7, <1>8, <1>9 DEF IsRow
<1> QED
  BY <1>10 DEF row, head, taken, fill

LEMMA RowCells ==
    ASSUME NEW D, NEW payload \in Seq(D), NEW w \in Nat \ {0}, NEW r \in Nat \ {0},
           Filter \in D, Filler \in D
    PROVE  /\ (r - 1) * (4 * w) \in Nat
           /\ PngRow(payload, w, r) \in Seq(D)
           /\ IsRow(PngRow(payload, w, r), payload, (r - 1) * (4 * w), 4 * w)
<1>1. /\ 4 * w \in Nat /\ (r - 1) * (4 * w) \in Nat /\ (r - 1) * 4 * w = (r - 1) * (4 * w)
  <2>1. PICK a \in Nat : a = r - 1
    OBVIOUS
  <2>2. a * (4 * w) \in Nat /\ a * 4 * w = a * (4 * w)
    BY <2>1, SMTT(30)
  <2> QED
    BY <2>1, <2>2
<1>2. PICK x \in Nat, len \in Nat : x = (r - 1) * (4 * w) /\ len = 4 * w
  BY <1>1
<1>3. PngRow(payload, w, r) = <<Filter>> \o ReadAt(payload, x, len)
          \o [i \in 1 .. len - Len(ReadAt(payload, x, len)) |-> Filler]
  BY <1>1, <1>2, Zenon DEF PngRow
<1>4. PngRow(payload, w, r) \in Seq(D) /\ IsRow(PngRow(payload, w, r), payload, x, len)
  BY <1>3, FilledRow
<1> QED
  BY <1>1, <1>2, <1>4

\* What raw is, at the o-th cell of row b + 1.
LEMMA RawCell ==
    ASSUME NEW payload, NEW w \in Nat \ {0}, NEW b \in Nat, NEW o \in 0 .. 4 * w
    PROVE  RawAt(payload, w, BytePos(b, o, 4 * w + 1))
             = IF o = 0 THEN Filter ELSE PixelAt(payload, b * (4 * w) + o)
<1> DEFINE L == 4 * w + 1
<1>1. L \in Nat \ {0} /\ o \in 0 .. L - 1
  OBVIOUS
<1> HIDE DEF L
<1>2. BlockOf(BytePos(b, o, L), L) = b /\ WithinBlock(BytePos(b, o, L), L) = o
  BY <1>1, JoinPosition
<1> QED
  BY <1>2 DEF RawAt, L

SizedRaw(raw, w, h, D) == h * (4 * w + 1) \in Nat /\ raw \in Seq(D) /\ Len(raw) = h * (4 * w + 1)

LEMMA RawType ==
    ASSUME NEW D, NEW payload \in Seq(D), NEW w \in Nat \ {0}, NEW h \in Nat,
           Filter \in D, Filler \in D
    PROVE  SizedRaw(RawOf(payload, w, h), w, h, D)
<1> DEFINE L == 4 * w + 1
           raw == RawOf(payload, w, h)
<1>1. L \in Nat \ {0}
  OBVIOUS
<1>2. PICK n \in Nat : n = h * L
  <2>1. h * L \in Nat
    BY <1>1, SMTT(30)
  <2> QED
    BY <2>1
<1>3. ASSUME NEW p \in 1 .. n PROVE RawAt(payload, w, p) \in D
  <2>1. p \in Nat \ {0}
    OBVIOUS
  <2> HIDE DEF L
  <2>2. PICK b \in Nat, o \in 0 .. L - 1 : p = BytePos(b, o, L)
    BY <1>1, <2>1, SplitPosition
  <2>3. o \in 0 .. 4 * w
    BY <2>2 DEF L
  <2>4. RawAt(payload, w, p) = IF o = 0 THEN Filter ELSE PixelAt(payload, b * (4 * w) + o)
    BY <2>2, <2>3, RawCell DEF L
  <2>5. PICK x \in Nat : x = b * (4 * w)
    <3>1. b * (4 * w) \in Nat
      BY SMTT(30)
    <3> QED
      BY <3>1
  <2>6. \A q \in Nat \ {0} : PixelAt(payload, q) \in D
    BY DEF PixelAt
  <2>7. o # 0 => x + o \in Nat \ {0}
    BY <2>5
  <2> QED
    BY <2>4, <2>5, <2>6, <2>7
<1>4. raw = [p \in 1 .. n |-> RawAt(payload, w, p)]
  BY <1>2 DEF RawOf
<1>5. raw \in [1 .. n -> D]
  BY <1>3, <1>4
<1> HIDE DEF raw
<1>6. raw \in Seq(D) /\ Len(raw) = n
  BY <1>5
<1> QED
  BY <1>2, <1>6 DEF raw, SizedRaw

\* The r-th row of the payload is the r-th piece of the raw cells.
RowsUpTo(raw, row, a, b) == SubSeq(raw, a + 1, b) = row /\ SubSeq(raw, 1, b) = SubSeq(raw, 1, a) \o row

LEMMA RowPiece ==
    ASSUME NEW D, NEW payload \in Seq(D), NEW w \in Nat \ {0}, NEW h \in Nat, NEW r \in 1 .. h,
           Filter \in D, Filler \in D
    PROVE  /\ PngRow(payload, w, r) \in Seq(D)
           /\ RowsUpTo(RawOf(payload, w, h), PngRow(payload, w, r),
                       (r - 1) * (4 * w + 1), r * (4 * w + 1))
<1> DEFINE L == 4 * w + 1
           raw == RawOf(payload, w, h)
           row == PngRow(payload, w, r)
<1>1. L \in Nat \ {0}
  OBVIOUS
<1>2. /\ (r - 1) * L \in Nat /\ r * L = (r - 1) * L + L /\ r * L \in Nat
      /\ r * L <= h * L /\ h * L \in Nat
  <2> HIDE DEF L
  <2> QED
    BY <1>1, RowBounds
<1>3. PICK n \in Nat, a \in Nat, b \in Nat : n = h * L /\ a = (r - 1) * L /\ b = r * L
  BY <1>2
<1>4. b = a + L /\ b <= n
  BY <1>2, <1>3
<1>5. raw \in Seq(D) /\ Len(raw) = n /\ \A p \in 1 .. n : raw[p] = RawAt(payload, w, p)
  <2>1. raw \in Seq(D) /\ Len(raw) = n
    <3>1. SizedRaw(raw, w, h, D)
      BY RawType
    <3> QED
      BY <1>3, <3>1 DEF SizedRaw
  <2>2. raw = [p \in 1 .. n |-> RawAt(payload, w, p)]
    BY <1>3 DEF RawOf
  <2> HIDE DEF raw
  <2> QED
    BY <2>1, <2>2
<1>6. PICK c \in Nat : c = r - 1
  OBVIOUS
<1>7. row \in Seq(D) /\ IsRow(row, payload, c * (4 * w), 4 * w)
  <2>1. r \in Nat \ {0}
    OBVIOUS
  <2>2. row \in Seq(D) /\ IsRow(row, payload, (r - 1) * (4 * w), 4 * w)
    BY <2>1, RowCells, Zenon
  <2> QED
    BY <1>6, <2>2, Zenon
<1>8. /\ Len(row) = L /\ row[1] = Filter /\ row = [i \in 1 .. L |-> row[i]]
      /\ \A i \in 1 .. 4 * w : row[i + 1] = PixelAt(payload, c * (4 * w) + i)
  BY <1>7 DEF IsRow
<1> HIDE DEF raw, row
<1>9. ASSUME NEW i \in 1 .. L PROVE raw[a + i] = row[i]
  <2>1. PICK o \in 0 .. 4 * w : i = o + 1
    <3>1. i - 1 \in 0 .. 4 * w /\ i = (i - 1) + 1
      OBVIOUS
    <3> QED
      BY <3>1
  <2>2. BytePos(c, o, L) = a + i
    BY <1>3, <1>6, <2>1 DEF BytePos
  <2>3. a + i \in 1 .. n
    BY <1>4
  <2>4. raw[a + i] = RawAt(payload, w, BytePos(c, o, L))
    BY <1>5, <2>2, <2>3
  <2>5. raw[a + i] = IF o = 0 THEN Filter ELSE PixelAt(payload, c * (4 * w) + o)
    BY <2>4, RawCell
  <2>6. o # 0 => o \in 1 .. 4 * w
    OBVIOUS
  <2>7. o # 0 => row[o + 1] = PixelAt(payload, c * (4 * w) + o)
    BY <1>8, <2>6
  <2> QED
    BY <1>8, <2>1, <2>5, <2>7, SMTT(30)
<1> HIDE DEF L
<1>10. SubSeq(raw, a + 1, b) = row
  <2> DEFINE s == SubSeq(raw, a + 1, b)
  <2>1. s \in Seq(D) /\ Len(s) = L /\ \A i \in 1 .. L : s[i] = raw[a + i]
    BY <1>1, <1>4, <1>5
  <2> HIDE DEF s
  <2>2. s = [i \in 1 .. L |-> s[i]]
    BY <2>1
  <2> QED
    BY <1>8, <1>9, <2>1, <2>2 DEF s
<1>11. SubSeq(raw, 1, b) = SubSeq(raw, 1, a) \o SubSeq(raw, a + 1, b)
  <2>1. ASSUME NEW s \in Seq(D), NEW x \in Nat, NEW y \in Nat, x <= y, y <= Len(s)
        PROVE  SubSeq(s, 1, y) = SubSeq(s, 1, x) \o SubSeq(s, x + 1, y)
    BY <2>1
  <2>2. a <= b /\ b <= Len(raw)
    BY <1>1, <1>4, <1>5
  <2> QED
    BY <1>5, <2>1, <2>2
<1>12. RowsUpTo(raw, row, a, b)
  BY <1>10, <1>11 DEF RowsUpTo
<1> QED
  BY <1>3, <1>7, <1>12 DEF L, raw, row
-----------------------------------------------------------------------------
(* The encoder, row by row.                                                *)

NoRows(w, h) == [chunks |-> <<SizeChunk(w, h)>>, pending |-> <<>>]
AddRow(acc, row) ==
    IF Len(acc.pending \o row) >= ChunkLimit
    THEN [chunks |-> Append(acc.chunks, Chunk("IDAT", acc.pending \o row)), pending |-> <<>>]
    ELSE [chunks |-> acc.chunks, pending |-> acc.pending \o row]

\* Chunks that begin an image and go on with data; y has one more than x.
Begun(x, w, h, D) ==
    /\ x \in Seq(ImageChunks(w, h, D)) /\ Len(x) >= 1 /\ x[1] = SizeChunk(w, h)
    /\ \A i \in 2 .. Len(x) : x[i].type = "IDAT"
Extends(y, x, d) == Len(y) = Len(x) + 1 /\ StreamOf(y) = StreamOf(x) \o d

LEMMA DataAppended ==
    ASSUME NEW w, NEW h, NEW D, NEW x, Begun(x, w, h, D), NEW d \in Seq(D)
    PROVE  /\ Begun(Append(x, Chunk("IDAT", d)), w, h, D)
           /\ Extends(Append(x, Chunk("IDAT", d)), x, d)
<1> DEFINE c == Chunk("IDAT", d)
           Q == ImageChunks(w, h, D)
           y == Append(x, c)
           n == Len(x)
<1>1. c \in Q /\ c.type = "IDAT" /\ c.data = d
  BY DEF Chunk, ImageChunks
<1>0. /\ x \in Seq(ImageChunks(w, h, D)) /\ Len(x) >= 1 /\ x[1] = SizeChunk(w, h)
      /\ \A i \in 2 .. Len(x) : x[i].type = "IDAT"
  BY DEF Begun
<1>2. StreamOf(y) = StreamOf(x) \o d
  <2>1. Adds(y, x, c)
    <3> HIDE DEF c
    <3> QED
      BY <1>0, <1>1, StreamGrows, Zenon
  <2> QED
    BY <1>1, <2>1, Zenon DEF Adds
<1> HIDE DEF Q, c
<1>3. x \in Seq(Q) /\ n \in Nat
  BY <1>0 DEF Q
<1>4. /\ y \in Seq(Q) /\ Len(y) = n + 1 /\ y[n + 1] = c
      /\ \A i \in 1 .. n : y[i] = x[i]
  BY <1>1, <1>3
<1> HIDE DEF y
<1>5. \A i \in 2 .. n + 1 : y[i].type = "IDAT"
  <2> TAKE i \in 2 .. n + 1
  <2>1. CASE i = n + 1
    BY <1>1, <1>4, <2>1
  <2>2. CASE i # n + 1
    <3>1. i \in 1 .. n /\ i \in 2 .. n
      BY <1>3, <2>2
    <3> QED
      BY <1>0, <1>4, <3>1
  <2> QED
    BY <2>1, <2>2
<1>6. y[1] = SizeChunk(w, h) /\ n + 1 >= 1
  BY <1>0, <1>3, <1>4
<1>7. Begun(y, w, h, D) /\ Extends(y, x, d)
  BY <1>2, <1>4, <1>5, <1>6 DEF Q, Begun, Extends
<1> QED
  BY <1>7 DEF y, c

\* What the chunks hold, and what is still pending, are the first a raw cells.
Gathered(acc, w, h, D, raw, a) ==
    /\ Begun(acc.chunks, w, h, D) /\ acc.pending \in Seq(D)
    /\ StreamOf(acc.chunks) \o acc.pending = SubSeq(raw, 1, a)

LEMMA RowGathered ==
    ASSUME NEW w, NEW h, NEW D, NEW S, NEW raw \in Seq(S), NEW acc, NEW a, NEW b,
           Gathered(acc, w, h, D, raw, a), NEW row \in Seq(D), RowsUpTo(raw, row, a, b)
    PROVE  Gathered(AddRow(acc, row), w, h, D, raw, b)
<1> DEFINE p == acc.pending \o row
           x == acc.chunks
           next == AddRow(acc, row)
<1>1. /\ Begun(x, w, h, D) /\ acc.pending \in Seq(D)
      /\ StreamOf(x) \o acc.pending = SubSeq(raw, 1, a)
  BY DEF Gathered
<1>2. p \in Seq(D)
  BY <1>1
<1>3. StreamOf(x) \in Seq(D)
  BY <1>1, ChunksLikeImage, StreamType, Zenon DEF Begun
<1>4. StreamOf(x) \o p = SubSeq(raw, 1, b)
  <2>1. \A u, v, z \in Seq(D) : u \o (v \o z) = (u \o v) \o z
    OBVIOUS
  <2>2. StreamOf(x) \o p = (StreamOf(x) \o acc.pending) \o row
    BY <1>1, <1>3, <2>1
  <2> QED
    BY <1>1, <2>2, Zenon DEF RowsUpTo
<1> HIDE DEF x, p
<1>5. CASE Len(p) >= ChunkLimit
  <2> DEFINE y == Append(x, Chunk("IDAT", p))
  <2>1. next.chunks = y /\ next.pending = <<>>
    BY <1>5 DEF AddRow, p, x
  <2>2. Begun(y, w, h, D) /\ StreamOf(y) = StreamOf(x) \o p
    <3>1. Begun(y, w, h, D) /\ Extends(y, x, p)
      BY <1>1, <1>2, DataAppended, Zenon
    <3> QED
      BY <3>1 DEF Extends
  <2>3. StreamOf(y) \o <<>> = StreamOf(y) /\ <<>> \in Seq(D)
    <3>1. \A u \in Seq(D) : u \o <<>> = u
      OBVIOUS
    <3>2. StreamOf(y) \in Seq(D)
      BY <2>2, ChunksLikeImage, StreamType, Zenon DEF Begun
    <3>3. <<>> \in Seq(D)
      OBVIOUS
    <3> QED
      BY <3>1, <3>2, <3>3, Zenon
  <2> HIDE DEF y, next
  <2> QED
    BY <1>4, <2>1, <2>2, <2>3, Zenon DEF Gathered, next
<1>6. CASE ~(Len(p) >= ChunkLimit)
  <2>1. next.chunks = x /\ next.pending = p
    BY <1>6 DEF AddRow, p, x
  <2> HIDE DEF next
  <2> QED
    BY <1>1, <1>2, <1>4, <2>1, Zenon DEF Gathered, next, x
<1> QED
  BY <1>5, <1>6

\* Encoded adds row after row, and gathers all rows of the payload.
LEMMA EncodedSteps ==
    ASSUME NEW D, NEW payload \in Seq(D), NEW w \in Nat \ {0}, NEW h \in Nat,
           Filter \in D, Filler \in D
    PROVE  /\ Encoded(payload, w, h)[0] = NoRows(w, h)
           /\ \A r \in 1 .. h : Encoded(payload, w, h)[r]
                  = AddRow(Encoded(payload, w, h)[r - 1], PngRow(payload, w, r))
<1> DEFINE Q == ImageChunks(w, h, D)
           S == [chunks : Seq(Q), pending : Seq(D)]
           first == NoRows(w, h)
           step == [n \in Nat |-> [g \in S |-> AddRow(g, PngRow(payload, w, n + 1))]]
           Eq(rows) == rows = [r \in 0 .. h |->
               IF r = 0
               THEN [chunks |-> <<Chunk("IHDR", <<[kind |-> "ihdr", width |-> w, height |-> h]>>)>>,
                     pending |-> <<>>]
               ELSE LET acc     == rows[r - 1]
                        pending == acc.pending \o PngRow(payload, w, r)
                    IN  IF Len(pending) >= ChunkLimit
                        THEN [chunks |-> Append(acc.chunks, Chunk("IDAT", pending)), pending |-> <<>>]
                        ELSE [chunks |-> acc.chunks, pending |-> pending]]
           W == Encoded(payload, w, h)
<1>1. first \in S
  <2>1. SizeChunk(w, h) \in Q
    BY DEF ImageChunks
  <2> HIDE DEF Q
  <2>2. <<SizeChunk(w, h)>> \in Seq(Q) /\ <<>> \in Seq(D)
    BY <2>1
  <2> QED
    BY <2>2 DEF NoRows
<1>2. ASSUME NEW acc \in S, NEW row \in Seq(D) PROVE AddRow(acc, row) \in S
  <2>1. acc.chunks \in Seq(Q) /\ acc.pending \in Seq(D)
    OBVIOUS
  <2>2. acc.pending \o row \in Seq(D) /\ <<>> \in Seq(D)
    BY <2>1
  <2>3. Chunk("IDAT", acc.pending \o row) \in Q
    BY <2>2 DEF ImageChunks
  <2> HIDE DEF Q
  <2>4. Append(acc.chunks, Chunk("IDAT", acc.pending \o row)) \in Seq(Q)
    BY <2>1, <2>3
  <2> QED
    BY <2>1, <2>2, <2>4 DEF AddRow
<1>3. ASSUME NEW r \in Nat \ {0} PROVE PngRow(payload, w, r) \in Seq(D)
  BY RowCells
<1> HIDE DEF S, first
<1>4. step \in [Nat -> [S -> S]]
  <2>1. ASSUME NEW n \in Nat, NEW g \in S PROVE AddRow(g, PngRow(payload, w, n + 1)) \in S
    <3>1. n + 1 \in Nat \ {0}
      OBVIOUS
    <3> QED
      BY <1>2, <1>3, <3>1
  <2> QED
    BY <2>1
<1> HIDE DEF step
<1>5. PICK g : g \in [Nat -> S] /\ Follows(g, first, step)
  BY <1>1, <1>4, Recursion, Zenon
<1> DEFINE q == [n \in 0 .. h |-> g[n]]
<1>6. ASSUME NEW r \in 1 .. h
      PROVE  r - 1 \in Nat /\ r - 1 \in 0 .. h /\ r \in 0 .. h /\ (r - 1) + 1 = r /\ r # 0
  OBVIOUS
<1>7. \A r \in 0 .. h : r # 0 => r \in 1 .. h
  OBVIOUS
<1>8. ASSUME NEW r \in 1 .. h PROVE q[r] = AddRow(q[r - 1], PngRow(payload, w, r))
  <2>1. g[r] = step[r - 1][g[r - 1]]
    BY <1>5, <1>6, Zenon DEF Follows
  <2>2. g[r - 1] \in S
    BY <1>5, <1>6
  <2>3. step[r - 1][g[r - 1]] = AddRow(g[r - 1], PngRow(payload, w, r))
    BY <1>6, <2>2 DEF step
  <2> QED
    BY <1>6, <2>1, <2>3
<1>9. q[0] = first
  BY <1>5 DEF Follows
<1>10. Eq(q)
  <2>1. q = [r \in 0 .. h |-> q[r]]
    OBVIOUS
  <2> HIDE DEF q
  <2> DEFINE val(r) ==
          IF r = 0
          THEN [chunks |-> <<Chunk("IHDR", <<[kind |-> "ihdr", width |-> w, height |-> h]>>)>>,
                pending |-> <<>>]
          ELSE IF Len(q[r - 1].pending \o PngRow(payload, w, r)) >= ChunkLimit
               THEN [chunks |-> Append(q[r - 1].chunks,
                                       Chunk("IDAT", q[r - 1].pending \o PngRow(payload, w, r))),
                     pending |-> <<>>]
               ELSE [chunks |-> q[r - 1].chunks,
                     pending |-> q[r - 1].pending \o PngRow(payload, w, r)]
  <2>2. ASSUME NEW r \in 0 .. h PROVE q[r] = val(r)
    <3>1. CASE r = 0
      BY <1>9, <3>1, Zenon DEF first, NoRows, SizeChunk
    <3>2. CASE r # 0
      <4>1. q[r] = AddRow(q[r - 1], PngRow(payload, w, r))
        BY <1>7, <1>8, <3>2
      <4> QED
        BY <3>2, <4>1, Zenon DEF AddRow
    <3> QED
      BY <3>1, <3>2
  <2> QED
    BY <2>1, <2>2, Zenon
<1>11. Eq(W)
  <2>1. W = CHOOSE rows : Eq(rows)
    BY Zenon DEF Encoded
  <2> HIDE DEF W, q, Eq
  <2> QED
    BY <1>10, <2>1, Zenon
<1> HIDE DEF W
<1>12. W[0] = NoRows(w, h)
  <2>1. 0 \in 0 .. h
    OBVIOUS
  <2> QED
    BY <1>11, <2>1, Zenon DEF NoRows, SizeChunk
<1>13. ASSUME NEW r \in 1 .. h PROVE W[r] = AddRow(W[r - 1], PngRow(payload, w, r))
  BY <1>6, <1>11, Zenon DEF AddRow
<1> QED
  BY <1>12, <1>13 DEF W

LEMMA EncodedHolds ==
    ASSUME NEW D, NEW payload \in Seq(D), NEW w \in Nat \ {0}, NEW h \in Nat,
           Filter \in D, Filler \in D
    PROVE  Gathered(Encoded(payload, w, h)[h], w, h, D, RawOf(payload, w, h), h * (4 * w + 1))
<1> DEFINE W == Encoded(payload, w, h)
           L == 4 * w + 1
           raw == RawOf(payload, w, h)
           T == {n \in Nat : n <= h => Gathered(W[n], w, h, D, raw, n * L)}
<1>1. W[0] = NoRows(w, h) /\ \A r \in 1 .. h : W[r] = AddRow(W[r - 1], PngRow(payload, w, r))
  <2> HIDE DEF W
  <2> QED
    BY EncodedSteps, Zenon DEF W
<1>2. L \in Nat \ {0} /\ 0 * L = 0
  OBVIOUS
<1>3. raw \in Seq(D)
  BY RawType DEF SizedRaw
<1> HIDE DEF W, L, raw
<1>4. 0 \in T
  <2>1. NoRows(w, h).chunks = <<SizeChunk(w, h)>> /\ NoRows(w, h).pending = <<>>
    BY DEF NoRows
  <2> DEFINE x == <<SizeChunk(w, h)>>
             Q == ImageChunks(w, h, D)
  <2>2. SizeChunk(w, h) \in Q /\ SizeChunk(w, h).type = "IHDR"
    BY DEF ImageChunks, SizeChunk, Chunk
  <2>3. Begun(x, w, h, D)
    <3> HIDE DEF Q
    <3>1. x \in Seq(Q) /\ Len(x) = 1 /\ x[1] = SizeChunk(w, h)
      BY <2>2
    <3>2. \A i \in 2 .. 1 : x[i].type = "IDAT"
      OBVIOUS
    <3> QED
      BY <3>1, <3>2 DEF Begun, Q
  <2>4. StreamOf(x) = <<>>
    <3> DEFINE e == <<>>
    <3>1. DataOf(x) = <<<<>>>>
      <4>1. DOMAIN x = {1} /\ x[1] = SizeChunk(w, h)
        OBVIOUS
      <4>2. DataOf(x) = [i \in {1} |-> <<>>]
        BY <2>2, <4>1 DEF DataOf
      <4>3. <<<<>>>> = [i \in {1} |-> <<>>]
        OBVIOUS
      <4> QED
        BY <4>2, <4>3
    <3>2. FlattenSeq(Append(e, e)) = FlattenSeq(e) \o e
      <4>1. e \in Seq(Seq(D)) /\ e \in Seq(D)
        OBVIOUS
      <4> HIDE DEF e
      <4> QED
        BY <4>1, FlattenAppend, Zenon
    <3>3. Append(e, e) = <<<<>>>>
      OBVIOUS
    <3>4. FlattenSeq(e) = e
      <4>1. Joins(D, [i \in 0 .. 0 |-> e], e)
        BY DEF Joins
      <4>2. e \in Seq(Seq(D)) /\ Len(e) = 0
        OBVIOUS
      <4> HIDE DEF e
      <4>3. FlattenSeq(e) = [i \in 0 .. 0 |-> e][Len(e)]
        BY <4>1, <4>2, FlattenJoins, Zenon
      <4> QED
        BY <4>2, <4>3
    <3>5. e \o e = e
      OBVIOUS
    <3> QED
      BY <3>1, <3>2, <3>3, <3>4, <3>5 DEF StreamOf
  <2>5. <<>> \o <<>> = <<>> /\ <<>> \in Seq(D) /\ SubSeq(raw, 1, 0) = <<>>
    BY <1>3
  <2> HIDE DEF x
  <2>6. Gathered(NoRows(w, h), w, h, D, raw, 0)
    BY <2>1, <2>3, <2>4, <2>5 DEF Gathered, x
  <2> QED
    BY <1>1, <1>2, <2>6
<1>5. ASSUME NEW n \in T PROVE n + 1 \in T
  <2>1. CASE n + 1 <= h
    <3>1. PICK r \in 1 .. h : r = n + 1 /\ r - 1 = n
      <4>1. n + 1 \in 1 .. h /\ (n + 1) - 1 = n
        BY <2>1
      <4> QED
        BY <4>1
    <3>2. Gathered(W[n], w, h, D, raw, n * L)
      BY <2>1
    <3>3. PngRow(payload, w, r) \in Seq(D) /\ RowsUpTo(raw, PngRow(payload, w, r), n * L, r * L)
      <4>1. PngRow(payload, w, r) \in Seq(D)
            /\ RowsUpTo(raw, PngRow(payload, w, r), (r - 1) * L, r * L)
        BY RowPiece, Zenon DEF raw, L
      <4> QED
        BY <3>1, <4>1, Zenon
    <3>4. Gathered(AddRow(W[n], PngRow(payload, w, r)), w, h, D, raw, r * L)
      BY <1>3, <3>2, <3>3, RowGathered, Zenon
    <3>5. W[r] = AddRow(W[n], PngRow(payload, w, r))
      BY <1>1, <3>1
    <3> QED
      BY <3>1, <3>4, <3>5
  <2>2. CASE ~(n + 1 <= h)
    BY <2>2
  <2> QED
    BY <2>1, <2>2
<1>6. T = Nat
  <2> HIDE DEF T
  <2>1. T \in SUBSET Nat
    BY DEF T
  <2> QED
    BY <1>4, <1>5, <2>1, Induction
<1>7. Gathered(W[h], w, h, D, raw, h * L)
  BY <1>6
<1> QED
  BY <1>7 DEF W, L, raw

\* An image has room for its payload.
LEMMA HeightFits ==
    ASSUME NEW size \in Nat, NEW w \in Nat \ {0}
    PROVE  PngHeight(size, w) \in Nat \ {0} /\ size <= PngHeight(size, w) * (4 * w)
<1> DEFINE q == Greatest(1, (size + 3) \div 4)
           h == PngHeight(size, w)
<1>1. q \in Nat \ {0} /\ size <= 4 * q
  <2>1. (size + 3) \div 4 \in Nat /\ size <= 4 * ((size + 3) \div 4)
    BY SMTT(30)
  <2> QED
    BY <2>1 DEF Greatest
<1>2. h = (q + w - 1) \div w
  BY DEF PngHeight
<1> HIDE DEF q, h
<1>3. PICK m \in Nat : m = q + w - 1
  BY <1>1
<1>4. h \in Nat /\ m % w \in 0 .. w - 1 /\ m = w * h + (m % w)
  BY <1>2, <1>3, Division
<1>5. PICK v \in Nat : v = w * h
  <2>1. w * h \in Nat
    BY <1>4, SMTT(30)
  <2> QED
    BY <2>1
<1>6. q <= v
  BY <1>1, <1>3, <1>4, <1>5
<1>7. h # 0
  <2>1. h = 0 => v = 0
    BY <1>5
  <2> QED
    BY <1>1, <1>5, <1>6, <2>1
<1>8. h * (4 * w) = 4 * v
  BY <1>4, <1>5, SMTT(30)
<1>9. size <= 4 * v
  BY <1>1, <1>5, <1>6
<1> QED
  BY <1>4, <1>7, <1>8, <1>9 DEF h

\* The cells of a stream: the raw cells and their end.
PixelCells(C) == C \cup {Filter, Filler}
FileCells(C)  == C \cup {Filter, Filler, StreamEnd}

\* An image of the raw cells.
IsImage(z, w, h, C, raw) ==
    /\ z \in Seq(ImageChunks(w, h, FileCells(C))) /\ Len(z) >= 3
    /\ z[1] = SizeChunk(w, h) /\ z[Len(z)] = Chunk("IEND", <<>>)
    /\ \A i \in 2 .. Len(z) - 1 : z[i].type = "IDAT"
    /\ StreamOf(z) = Append(raw, StreamEnd)

LEMMA EncodeMakesImage ==
    ASSUME NEW C, NEW payload \in Seq(C), NEW w \in Nat \ {0}
    PROVE  LET h == PngHeight(Len(payload), w)
           IN  IsImage(EncodePng(payload, w), w, h, C, RawOf(payload, w, h))
<1> DEFINE h == PngHeight(Len(payload), w)
           raw == RawOf(payload, w, h)
           D == FileCells(C)
           acc == Encoded(payload, w, h)[h]
           d == Append(acc.pending, StreamEnd)
           y == Append(acc.chunks, Chunk("IDAT", d))
           end == Chunk("IEND", <<>>)
           z == Append(y, end)
           Q == ImageChunks(w, h, D)
<1>1. Filter \in D /\ Filler \in D /\ StreamEnd \in D /\ C \subseteq D
  BY DEF FileCells
<1> HIDE DEF D
<1>2. payload \in Seq(D) /\ Len(payload) \in Nat
  BY <1>1
<1>3. h \in Nat
  BY <1>2, HeightFits
<1> HIDE DEF h
<1>4. PICK n \in Nat : n = h * (4 * w + 1) /\ raw \in Seq(D) /\ Len(raw) = n
  <2>1. SizedRaw(raw, w, h, D)
    BY <1>1, <1>2, <1>3, RawType
  <2> QED
    BY <2>1 DEF SizedRaw
<1>5. Gathered(acc, w, h, D, raw, n)
  <2>1. Gathered(acc, w, h, D, raw, h * (4 * w + 1))
    BY <1>1, <1>2, <1>3, EncodedHolds, Zenon
  <2> QED
    BY <1>4, <2>1, Zenon
<1>6. EncodePng(payload, w) = z
  BY Zenon DEF EncodePng, h
<1> HIDE DEF acc, raw
<1>7. /\ Begun(acc.chunks, w, h, D) /\ acc.pending \in Seq(D)
      /\ StreamOf(acc.chunks) \o acc.pending = SubSeq(raw, 1, n)
  BY <1>5 DEF Gathered
<1>8. SubSeq(raw, 1, n) = raw
  BY <1>4
<1>9. d \in Seq(D)
  BY <1>1, <1>7
<1>10. StreamOf(acc.chunks) \in Seq(D)
  BY <1>7, ChunksLikeImage, StreamType, Zenon DEF Begun
<1>11. StreamOf(acc.chunks) \o d = Append(raw, StreamEnd)
  <2>1. ASSUME NEW u \in Seq(D), NEW v \in Seq(D), NEW e \in D
        PROVE  u \o Append(v, e) = Append(u \o v, e)
    OBVIOUS
  <2>2. StreamOf(acc.chunks) \o d = Append(StreamOf(acc.chunks) \o acc.pending, StreamEnd)
    BY <1>1, <1>7, <1>10, <2>1
  <2> QED
    BY <1>7, <1>8, <2>2
<1>12. Append(raw, StreamEnd) \in Seq(D)
  BY <1>1, <1>4
<1> HIDE DEF d
<1>13. Begun(y, w, h, D) /\ StreamOf(y) = Append(raw, StreamEnd) /\ Len(y) = Len(acc.chunks) + 1
  <2>1. Begun(y, w, h, D) /\ Extends(y, acc.chunks, d)
    BY <1>7, <1>9, DataAppended, Zenon
  <2> QED
    BY <1>11, <2>1 DEF Extends
<1> HIDE DEF y
<1>14. end \in Q /\ end.type = "IEND"
  BY DEF ImageChunks, Chunk
<1>15. /\ y \in Seq(Q) /\ Len(y) >= 1 /\ y[1] = SizeChunk(w, h)
       /\ \A i \in 2 .. Len(y) : y[i].type = "IDAT"
  BY <1>13 DEF Begun
<1>16. StreamOf(z) = Append(raw, StreamEnd)
  <2>1. Adds(z, y, end)
    <3> HIDE DEF end
    <3> QED
      BY <1>14, <1>15, StreamGrows, Zenon
  <2>2. StreamOf(z) = StreamOf(y) \o <<>>
    BY <1>14, <2>1 DEF Adds
  <2>3. \A u \in Seq(D) : u \o <<>> = u
    OBVIOUS
  <2> QED
    BY <1>12, <1>13, <2>2, <2>3
<1>17. Len(y) >= 2
  <2>1. Len(acc.chunks) >= 1 /\ Len(acc.chunks) \in Nat
    <3> DEFINE x == acc.chunks
    <3>1. x \in Seq(Q) /\ Len(x) >= 1
      BY <1>7 DEF Begun
    <3> HIDE DEF x, Q
    <3>2. Len(x) \in Nat
      BY <3>1
    <3> QED
      BY <3>1, <3>2 DEF x
  <2> QED
    BY <1>13, <2>1
<1> HIDE DEF Q, end
<1>18. /\ z \in Seq(Q) /\ Len(z) = Len(y) + 1 /\ z[Len(y) + 1] = end /\ Len(y) \in Nat
       /\ \A i \in 1 .. Len(y) : z[i] = y[i]
  BY <1>14, <1>15
<1> HIDE DEF z
<1>19. /\ Len(z) >= 3 /\ z[Len(z)] = end /\ z[1] = SizeChunk(w, h)
       /\ \A i \in 2 .. Len(z) - 1 : z[i].type = "IDAT"
  BY <1>15, <1>17, <1>18, SMTT(30)
<1>20. IsImage(z, w, h, C, raw)
  BY <1>16, <1>18, <1>19 DEF IsImage, Q, D, end
<1> QED
  BY <1>6, <1>20 DEF h, raw

\* What the encoder writes is a valid image, and decodes to the pixels.
LEMMA ImageIsValid ==
    ASSUME NEW C, StreamEnd \notin C, NEW payload \in Seq(C), NEW w \in Nat \ {0}, NEW h \in Nat,
           NEW z, IsImage(z, w, h, C, RawOf(payload, w, h))
    PROVE  PngIsValid(z)
<1> DEFINE raw == RawOf(payload, w, h)
           L == 4 * w + 1
           s == StreamOf(z)
           D == FileCells(C)
           P == PixelCells(C)
           Q == ImageChunks(w, h, D)
<1>1. /\ z \in Seq(Q) /\ Len(z) >= 3
      /\ z[1] = SizeChunk(w, h) /\ z[Len(z)] = Chunk("IEND", <<>>)
      /\ \A i \in 2 .. Len(z) - 1 : z[i].type = "IDAT"
      /\ s = Append(raw, StreamEnd)
  BY DEF IsImage
<1>2. Filter \in P /\ Filler \in P /\ StreamEnd \notin P /\ C \subseteq P
  BY DEF PixelCells, Filter, Filler, StreamEnd
<1> HIDE DEF P, raw
<1>3. payload \in Seq(P)
  BY <1>2
<1>4. PICK n \in Nat : n = h * L /\ raw \in Seq(P) /\ Len(raw) = n
  <2>1. SizedRaw(raw, w, h, P)
    BY <1>2, <1>3, RawType DEF raw
  <2> QED
    BY <2>1 DEF SizedRaw
<1> HIDE DEF s
<1>5. /\ Len(s) = n + 1 /\ s[n + 1] = StreamEnd /\ DOMAIN s = 1 .. n + 1
      /\ \A p \in 1 .. n : s[p] = raw[p] /\ s[p] # StreamEnd
  <2>1. ASSUME NEW r \in Seq(P), Len(r) = n
        PROVE  /\ Len(Append(r, StreamEnd)) = n + 1 /\ Append(r, StreamEnd)[n + 1] = StreamEnd
               /\ DOMAIN Append(r, StreamEnd) = 1 .. n + 1
               /\ \A p \in 1 .. n : Append(r, StreamEnd)[p] = r[p] /\ r[p] \in P
    BY <2>1
  <2>2. /\ Len(s) = n + 1 /\ s[n + 1] = StreamEnd /\ DOMAIN s = 1 .. n + 1
        /\ \A p \in 1 .. n : s[p] = raw[p] /\ raw[p] \in P
    BY <1>1, <1>4, <2>1
  <2> QED
    BY <1>2, <2>2
<1>6. \A p \in DOMAIN s : (s[p] = StreamEnd) = (p = Len(s))
  <2> TAKE p \in DOMAIN s
  <2>1. p \in 1 .. n \/ p = n + 1
    BY <1>5
  <2>2. p \in 1 .. n => p # n + 1
    OBVIOUS
  <2> QED
    BY <1>5, <2>1, <2>2
<1> HIDE DEF D
<1>7. /\ Len(z) \in Nat /\ DOMAIN z = 1 .. Len(z) /\ \A i \in DOMAIN z : z[i] \in Q
  <2> HIDE DEF Q
  <2> QED
    BY <1>1
<1>8. \A i \in DOMAIN z : z[i].intact
  <2>1. \A c \in Q : c.intact = TRUE
    BY ChunksShown
  <2> QED
    BY <1>7, <2>1
<1>9. /\ z[1].type = "IHDR" /\ Len(z[1].data) = 1 /\ z[1].data[1].kind = "ihdr"
      /\ z[1].data[1].width = w /\ z[1].data[1].height = h
  BY <1>1 DEF SizeChunk, Chunk
<1>10. \A i \in 2 .. Len(z) - 1 : z[i].type \notin Critical \cup {"IEND"}
  BY <1>1 DEF Critical
<1>11. Last(z) = Chunk("IEND", <<>>)
  BY <1>1 DEF Last
<1>12. ASSUME NEW r \in 0 .. h - 1 PROVE s[r * L + 1] = Filter
  <2>1. BytePos(r, 0, L) = r * L + 1
    <3>1. PICK a \in Nat : a = r * L
      <4>1. r * L \in Nat
        BY SMTT(30)
      <4> QED
        BY <4>1
    <3> HIDE DEF L
    <3> QED
      BY <3>1 DEF BytePos
  <2>2. RawAt(payload, w, BytePos(r, 0, L)) = Filter
    <3>1. 0 \in 0 .. 4 * w /\ r \in Nat
      OBVIOUS
    <3> QED
      BY <3>1, RawCell
  <2>3. r * L + 1 \in 1 .. n
    <3>1. r + 1 \in 1 .. h /\ (r + 1) - 1 = r /\ L \in Nat \ {0}
      OBVIOUS
    <3> HIDE DEF L
    <3>2. /\ ((r + 1) - 1) * L \in Nat /\ (r + 1) * L = ((r + 1) - 1) * L + L
          /\ (r + 1) * L <= h * L
      BY <3>1, RowBounds
    <3>3. PICK a \in Nat : a = r * L
      BY <3>1, <3>2
    <3>4. a + L <= n
      BY <1>4, <3>1, <3>2, <3>3
    <3> QED
      BY <3>1, <3>3, <3>4
  <2>4. raw[r * L + 1] = RawAt(payload, w, r * L + 1)
    BY <1>4, <2>3 DEF raw, RawOf
  <2> QED
    BY <1>5, <2>1, <2>2, <2>3, <2>4
<1>13. Len(s) = h * L + 1
  BY <1>4, <1>5
<1>14. Len(z) >= 2
  BY <1>1, <1>7
<1> HIDE DEF L, Q
<1> QED
  BY <1>6, <1>8, <1>9, <1>10, <1>11, <1>12, <1>13, <1>14, Zenon
     DEF PngIsValid, StreamOf, DataOf, s, L

LEMMA ImageDecodes ==
    ASSUME NEW C, NEW payload \in Seq(C), NEW w \in Nat \ {0}, NEW h \in Nat,
           NEW z, IsImage(z, w, h, C, RawOf(payload, w, h))
    PROVE  /\ h * (4 * w) \in Nat
           /\ DecodePng(z) = [p \in 1 .. h * (4 * w) |-> PixelAt(payload, p)]
<1> DEFINE raw == RawOf(payload, w, h)
           L == 4 * w + 1
           W == 4 * w
           s == StreamOf(z)
           P == PixelCells(C)
           pixels == [p \in 1 .. h * W |-> PixelAt(payload, p)]
           cut == [r \in 0 .. h |-> r * W]
           rows == [r \in 1 .. h |-> SubSeq(s, (r - 1) * L + 2, r * L)]
<1>1. z[1] = SizeChunk(w, h) /\ s = Append(raw, StreamEnd)
  BY DEF IsImage
<1>2. Filter \in P /\ Filler \in P /\ C \subseteq P
  BY DEF PixelCells
<1> HIDE DEF P, raw
<1>3. payload \in Seq(P)
  BY <1>2
<1>4. PICK n \in Nat : n = h * L /\ raw \in Seq(P) /\ Len(raw) = n
  <2>1. SizedRaw(raw, w, h, P)
    BY <1>2, <1>3, RawType DEF raw
  <2> QED
    BY <2>1 DEF SizedRaw
<1> HIDE DEF s
<1>5. s \in Seq(P \cup {StreamEnd}) /\ Len(s) = n + 1 /\ \A p \in 1 .. n : s[p] = RawAt(payload, w, p)
  <2>1. ASSUME NEW r \in Seq(P), Len(r) = n
        PROVE  /\ Len(Append(r, StreamEnd)) = n + 1
               /\ Append(r, StreamEnd) \in Seq(P \cup {StreamEnd})
               /\ \A p \in 1 .. n : Append(r, StreamEnd)[p] = r[p]
    BY <2>1
  <2>2. /\ Len(s) = n + 1 /\ s \in Seq(P \cup {StreamEnd}) /\ \A p \in 1 .. n : s[p] = raw[p]
    BY <1>1, <1>4, <2>1
  <2>3. \A p \in 1 .. n : raw[p] = RawAt(payload, w, p)
    BY <1>4 DEF raw, RawOf
  <2> QED
    BY <2>2, <2>3
<1>6. z[1].data[1].width = w /\ z[1].data[1].height = h
  BY <1>1 DEF SizeChunk, Chunk
<1>7. DecodePng(z) = FlattenSeq(rows)
  BY <1>6, Zenon DEF DecodePng, StreamOf, DataOf, s
<1>8. W \in Nat \ {0} /\ L = W + 1
  OBVIOUS
<1>9. PICK m \in Nat : m = h * W
  <2>1. h * W \in Nat
    BY <1>8, SMTT(30)
  <2> QED
    BY <2>1
<1>10. pixels \in Seq(P) /\ Len(pixels) = m /\ \A p \in 1 .. m : pixels[p] = PixelAt(payload, p)
  <2>1. \A p \in Nat \ {0} : PixelAt(payload, p) \in P
    BY <1>2, <1>3 DEF PixelAt
  <2>2. pixels = [p \in 1 .. m |-> PixelAt(payload, p)]
    BY <1>9
  <2>3. pixels \in [1 .. m -> P]
    BY <2>1, <2>2
  <2> HIDE DEF pixels
  <2> QED
    BY <2>2, <2>3
<1> HIDE DEF pixels
<1>11. Cuts(cut, h, m)
  <2>1. ASSUME NEW r \in 1 .. h PROVE r * W \in 0 .. m /\ (r - 1) * W <= r * W /\ r - 1 \in 0 .. h
    <3> HIDE DEF W
    <3>1. /\ (r - 1) * W \in Nat /\ r * W = (r - 1) * W + W /\ r * W \in Nat /\ r * W <= h * W
      BY <1>8, RowBounds
    <3>2. PICK a \in Nat, b \in Nat : a = (r - 1) * W /\ b = r * W
      BY <3>1
    <3>3. b <= m /\ a <= b
      BY <1>8, <1>9, <3>1, <3>2
    <3>4. r - 1 \in 0 .. h
      OBVIOUS
    <3> QED
      BY <3>2, <3>3, <3>4
  <2>2. 0 * W = 0 /\ \A r \in 0 .. h : r = 0 \/ r \in 1 .. h
    OBVIOUS
  <2>3. cut \in [0 .. h -> 0 .. m]
    <3>1. ASSUME NEW r \in 0 .. h PROVE r * W \in 0 .. m
      <4>1. CASE r = 0
        BY <2>2, <4>1
      <4>2. CASE r \in 1 .. h
        BY <2>1, <4>2
      <4> QED
        BY <2>2, <4>1, <4>2
    <3> HIDE DEF W
    <3> QED
      BY <3>1
  <2>4. cut[0] = 0 /\ cut[h] = m
    BY <1>9, <2>2
  <2>5. \A r \in 1 .. h : cut[r - 1] <= cut[r]
    BY <2>1
  <2> HIDE DEF cut
  <2> QED
    BY <2>3, <2>4, <2>5 DEF Cuts
<1>12. ASSUME NEW r \in 1 .. h
       PROVE  SubSeq(s, (r - 1) * L + 2, r * L) = SubSeq(pixels, cut[r - 1] + 1, cut[r])
  <2>1. cut[r - 1] = (r - 1) * W /\ cut[r] = r * W
    OBVIOUS
  <2> HIDE DEF cut, W, L
  <2>2. /\ (r - 1) * W \in Nat /\ r * W = (r - 1) * W + W /\ r * W \in Nat /\ r * W <= h * W
    BY <1>8, RowBounds
  <2>3. L \in Nat \ {0}
    BY <1>8
  <2>4. /\ (r - 1) * L \in Nat /\ r * L = (r - 1) * L + L /\ r * L \in Nat /\ r * L <= h * L
    BY <2>3, RowBounds
  <2>5. PICK a \in Nat, b \in Nat : a = (r - 1) * W /\ b = (r - 1) * L
    BY <2>2, <2>4
  <2>6. r * W = a + W /\ a + W <= m /\ r * L = b + L /\ b + L <= n
    BY <1>4, <1>9, <2>2, <2>4, <2>5
  <2> DEFINE u == SubSeq(s, b + 2, b + L)
             v == SubSeq(pixels, a + 1, a + W)
  <2>7. Len(u) = W /\ u \in Seq(P \cup {StreamEnd}) /\ \A i \in 1 .. W : u[i] = s[b + 1 + i]
    <3>1. ASSUME NEW t \in Seq(P \cup {StreamEnd}), Len(t) = n + 1
          PROVE  /\ Len(SubSeq(t, b + 2, b + L)) = W /\ SubSeq(t, b + 2, b + L) \in Seq(P \cup {StreamEnd})
                 /\ \A i \in 1 .. W : SubSeq(t, b + 2, b + L)[i] = t[b + 1 + i]
      BY <1>8, <2>6, <3>1
    <3> QED
      BY <1>5, <3>1
  <2>8. Len(v) = W /\ v \in Seq(P) /\ \A i \in 1 .. W : v[i] = pixels[a + i]
    <3>1. ASSUME NEW t \in Seq(P), Len(t) = m
          PROVE  /\ Len(SubSeq(t, a + 1, a + W)) = W /\ SubSeq(t, a + 1, a + W) \in Seq(P)
                 /\ \A i \in 1 .. W : SubSeq(t, a + 1, a + W)[i] = t[a + i]
      BY <1>8, <2>6, <3>1
    <3> QED
      BY <1>10, <3>1
  <2>9. ASSUME NEW i \in 1 .. W PROVE u[i] = v[i]
    <3>1. b + 1 + i \in 1 .. n /\ a + i \in 1 .. m
      BY <1>8, <2>6
    <3>2. PICK c \in Nat : c = r - 1
      OBVIOUS
    <3>3. BytePos(c, i, L) = b + 1 + i
      BY <1>8, <2>3, <2>5, <3>2 DEF BytePos
    <3>4. i \in 0 .. 4 * w /\ i # 0
      BY DEF W
    <3>5. RawAt(payload, w, BytePos(c, i, L)) = PixelAt(payload, c * (4 * w) + i)
      BY <3>4, RawCell DEF L
    <3>6. c * (4 * w) + i = a + i
      BY <2>5, <3>2 DEF W
    <3>7. s[b + 1 + i] = RawAt(payload, w, b + 1 + i)
      BY <1>5, <3>1
    <3>8. pixels[a + i] = PixelAt(payload, a + i)
      BY <1>10, <3>1
    <3> HIDE DEF u, v
    <3> QED
      BY <2>7, <2>8, <3>3, <3>5, <3>6, <3>7, <3>8
  <2>10. u = v
    <3> HIDE DEF u, v
    <3>1. u = [i \in 1 .. W |-> u[i]] /\ v = [i \in 1 .. W |-> v[i]]
      BY <2>7, <2>8
    <3> QED
      BY <2>9, <3>1
  <2> QED
    BY <2>1, <2>5, <2>6, <2>10
<1>13. ArePieces(rows, pixels, h, cut)
  <2>1. [r \in 1 .. h |-> SubSeq(s, (r - 1) * L + 2, r * L)]
          = [r \in 1 .. h |-> SubSeq(pixels, cut[r - 1] + 1, cut[r])]
    <3> HIDE DEF cut, L
    <3> QED
      BY <1>12
  <2> QED
    BY <2>1, Zenon DEF ArePieces
<1> HIDE DEF rows, cut, W, L
<1>14. FlattenSeq(rows) = pixels
  <2>1. Cuts(cut, h, Len(pixels))
    BY <1>10, <1>11
  <2> QED
    BY <1>10, <1>13, <2>1, PiecesJoin, Zenon
<1> QED
  BY <1>7, <1>9, <1>14 DEF pixels, W
-----------------------------------------------------------------------------
(* The carrier as a whole.                                                 *)

\* No cell of a container is a carrier's header or ends a stream.
LEMMA ContainerCellKinds ==
    ASSUME NEW k, NEW y, CellIn(y, {k})
    PROVE  y.kind \in {"header", "meta", "sealed", "final"}
<1>1. \/ y = HeaderOf(k) \/ y = FinalMeta \/ y = DigestOf(k)
      \/ \E i \in 1 .. CountOf(k) : y = MetaOf(k, i) \/ y = SealedOf(k, i)
  BY DEF CellIn
<1>2. /\ HeaderOf(k).kind = "header" /\ FinalMeta.kind = "final" /\ DigestOf(k).kind = "sealed"
      /\ \A i : MetaOf(k, i).kind = "meta" /\ SealedOf(k, i).kind = "sealed"
  BY CellFields
<1> QED
  BY <1>1, <1>2

\* Pixels that begin with a payload of a header and what it announces.
LEMMA PixelsAreCarrier ==
    ASSUME NEW C, NEW permuted \in Seq(C), Len(permuted) >= 1, NEW size, NEW id,
           NEW m \in Nat, NEW pixels, CarrierHeader(size, id, permuted) \in C,
           pixels = [p \in 1 .. m |-> PixelAt(<<CarrierHeader(size, id, permuted)>> \o permuted, p)],
           Len(permuted) + 1 <= m
    PROVE  /\ CarrierIsValid(pixels) /\ Head(pixels) = CarrierHeader(size, id, permuted)
           /\ Payload(pixels) = permuted
<1> DEFINE ch == CarrierHeader(size, id, permuted)
           payload == <<ch>> \o permuted
           n == Len(permuted)
           D == PixelCells(C)
<1>1. ch.kind = "carrier" /\ ch.length = n /\ ch.digest = permuted
  BY DEF CarrierHeader
<1> HIDE DEF ch
<1>2. ch \in D /\ permuted \in Seq(D) /\ n \in Nat /\ Filler \in D
  BY DEF PixelCells, ch
<1> HIDE DEF D
<1>3. /\ payload \in Seq(D) /\ Len(payload) = n + 1 /\ payload[1] = ch
      /\ \A i \in 1 .. n : payload[i + 1] = permuted[i]
  BY <1>2
<1> HIDE DEF payload
<1>4. \A p \in 1 .. m : pixels[p] = PixelAt(payload, p) /\ pixels[p] \in D
  BY <1>2, <1>3 DEF PixelAt, payload, ch
<1>5. pixels \in Seq(D) /\ Len(pixels) = m
  <2>1. pixels = [p \in 1 .. m |-> pixels[p]]
    BY DEF payload, ch
  <2> QED
    BY <1>4, <2>1
<1>6. 1 \in 1 .. m /\ n + 1 <= m /\ n >= 1
  BY <1>2
<1>7. pixels # <<>> /\ Head(pixels) = ch
  <2>1. pixels[1] = ch
    BY <1>2, <1>3, <1>4, <1>6 DEF PixelAt
  <2>2. pixels # <<>> /\ Head(pixels) = pixels[1]
    BY <1>5, <1>6
  <2> QED
    BY <2>1, <2>2
<1>8. \A i \in 1 .. n : pixels[1 + i] = permuted[i]
  <2> TAKE i \in 1 .. n
  <2>1. 1 + i \in 1 .. m /\ 1 + i <= n + 1 /\ 1 + i = i + 1
    BY <1>2, <1>6
  <2> QED
    BY <1>3, <1>4, <2>1 DEF PixelAt
<1>9. Payload(pixels) = permuted
  <2> DEFINE u == SubSeq(pixels, 2, 1 + n)
  <2>1. Payload(pixels) = u
    BY <1>1, <1>7 DEF Payload
  <2> HIDE DEF n
  <2>2. u \in Seq(D) /\ Len(u) = n /\ \A i \in 1 .. n : u[i] = pixels[1 + i]
    BY <1>2, <1>5, <1>6
  <2> HIDE DEF u
  <2>3. u = [i \in 1 .. n |-> u[i]] /\ permuted = [i \in 1 .. n |-> permuted[i]]
    <3>1. Len(permuted) = n
      BY DEF n
    <3> QED
      BY <1>2, <2>2, <3>1
  <2>4. u = permuted
    BY <1>8, <2>2, <2>3
  <2> QED
    BY <2>1, <2>4
<1>10. CarrierIsValid(pixels)
  <2>1. 1 + n <= Len(pixels)
    BY <1>2, <1>5, <1>6
  <2> QED
    BY <1>1, <1>6, <1>7, <1>9, <2>1, Zenon DEF CarrierIsValid
<1> QED
  BY <1>7, <1>9, <1>10 DEF ch

\* The image z with one chunk's data disturbed, or its chunks.
Noises == {Noise, Filler, StreamEnd}
Tampered(z) ==
    Disturbed(z, {})
    \cup UNION {{[z EXCEPT ![c].data = y] : y \in Disturbed(z[c].data, Noises)} :
                    c \in {i \in DOMAIN z : z[i].type = "IDAT"}}

\* An image, whatever was disturbed, consists of its size and of cells of its
\* data, or noise.
LEMMA TamperedImage ==
    ASSUME NEW C, NEW w, NEW h, NEW z \in Seq(ImageChunks(w, h, FileCells(C))),
           NEW x \in {z} \cup Tampered(z)
    PROVE  LikeImage(x, w, h, FileCells(C) \cup {Noise})
<1> DEFINE D == FileCells(C)
           E == D \cup {Noise}
           Q == ImageChunks(w, h, D)
           n == Len(z)
<1>1. Noises \subseteq E
  BY DEF Noises, FileCells
<1> SUFFICES LikeImage(x, w, h, E)
  OBVIOUS
<1> HIDE DEF D, Q
<1>2. z \in Seq(Q) /\ n \in Nat /\ DOMAIN z = 1 .. n /\ \A i \in 1 .. n : z[i] \in Q
  <2>1. z \in Seq(Q)
    BY DEF D, Q
  <2> QED
    BY <2>1
<1>3. Seq(D) \subseteq Seq(E)
  <2>1. D \subseteq E
    OBVIOUS
  <2> HIDE DEF E
  <2> QED
    BY <2>1
<1> HIDE DEF E
<1>4. \A c \in Q : ShownBy(c, w, h, E)
  <2> TAKE c \in Q
  <2>1. ShownBy(c, w, h, D)
    BY ChunksShown DEF Q
  <2> QED
    BY <1>3, <2>1 DEF ShownBy
<1>5. ASSUME NEW u \in Seq(Q) PROVE LikeImage(u, w, h, E)
  <2>1. DOMAIN u = 1 .. Len(u) /\ \A i \in DOMAIN u : u[i] \in Q
    BY <1>5
  <2> QED
    BY <1>4, <2>1, Zenon DEF LikeImage
<1>6. CASE x = z
  BY <1>2, <1>5, <1>6, Zenon
<1>7. CASE x \in Disturbed(z, {})
  <2> DEFINE R == {z[p] : p \in DOMAIN z}
             R0 == R \cup {}
  <2>1. OneEndOf(x, z, {})
    BY <1>2, <1>7, DisturbedOnce, Zenon
  <2>2. x \in Seq(R0)
    BY <2>1 DEF OneEndOf
  <2>3. R0 \subseteq Q
    BY <1>2
  <2> HIDE DEF R0
  <2>4. x \in Seq(Q)
    BY <2>2, <2>3
  <2> QED
    BY <1>5, <2>4, Zenon
<1>8. CASE \E c \in {i \in DOMAIN z : z[i].type = "IDAT"} :
             \E y \in Disturbed(z[c].data, Noises) : x = [z EXCEPT ![c].data = y]
  <2>1. PICK c \in 1 .. n : /\ z[c].type = "IDAT"
                            /\ \E y \in Disturbed(z[c].data, Noises) : x = [z EXCEPT ![c].data = y]
    BY <1>2, <1>8
  <2>2. PICK y \in Disturbed(z[c].data, Noises) : x = [z EXCEPT ![c].data = y]
    BY <2>1
  <2>3. PICK d \in Seq(D) : z[c] = Chunk("IDAT", d)
    <3>1. z[c] \in Q
      BY <1>2
    <3>2. SizeChunk(w, h).type = "IHDR" /\ Chunk("IEND", <<>>).type = "IEND"
      BY DEF SizeChunk, Chunk
    <3> QED
      BY <2>1, <3>1, <3>2 DEF Q, ImageChunks
  <2>4. z[c].data = d /\ [z[c] EXCEPT !.data = y].type = "IDAT" /\ [z[c] EXCEPT !.data = y].data = y
    BY <2>3 DEF Chunk
  <2>5. y \in Seq(E)
    <3> DEFINE R == {d[p] : p \in DOMAIN d}
               F == R \cup Noises
    <3>1. OneEndOf(y, d, Noises)
      BY <2>2, <2>4, DisturbedOnce
    <3>2. y \in Seq(F)
      BY <3>1 DEF OneEndOf
    <3>3. \A p \in DOMAIN d : d[p] \in D
      OBVIOUS
    <3>4. F \subseteq E
      BY <1>1, <3>3 DEF E
    <3> HIDE DEF F
    <3> QED
      BY <3>2, <3>4
  <2>6. /\ DOMAIN x = 1 .. n /\ Len(x) = n /\ x[c] = [z[c] EXCEPT !.data = y]
        /\ \A i \in 1 .. n : i # c => x[i] = z[i]
    <3>1. x = [i \in 1 .. n |-> IF i = c THEN [z[c] EXCEPT !.data = y] ELSE z[i]]
      BY <1>2, <2>2
    <3>2. Len(x) = n
      BY <1>2, <3>1
    <3> QED
      BY <3>1, <3>2
  <2>7. ShownBy(x[c], w, h, E)
    BY <2>4, <2>5, <2>6 DEF ShownBy
  <2>8. \A i \in 1 .. n : i # c => ShownBy(x[i], w, h, E)
    BY <1>2, <1>4, <2>6
  <2>9. \A i \in 1 .. n : ShownBy(x[i], w, h, E)
    BY <2>7, <2>8, Zenon
  <2>10. DOMAIN x = 1 .. Len(x) /\ \A i \in DOMAIN x : ShownBy(x[i], w, h, E)
    BY <2>6, <2>9, Zenon
  <2> QED
    BY <2>10, Zenon DEF LikeImage
<1> QED
  <2>1. x = z \/ x \in Disturbed(z, {})
        \/ x \in UNION {{[z EXCEPT ![c].data = y] : y \in Disturbed(z[c].data, Noises)} :
                           c \in {i \in DOMAIN z : z[i].type = "IDAT"}}
    BY Zenon DEF Tampered
  <2>2. x \in UNION {{[z EXCEPT ![c].data = y] : y \in Disturbed(z[c].data, Noises)} :
                           c \in {i \in DOMAIN z : z[i].type = "IDAT"}}
        => \E c \in {i \in DOMAIN z : z[i].type = "IDAT"} :
               \E y \in Disturbed(z[c].data, Noises) : x = [z EXCEPT ![c].data = y]
    OBVIOUS
  <2> QED
    BY <1>6, <1>7, <1>8, <2>1, <2>2, Zenon

\* A carrier that could be laid out gives back what was put in; a wrong
\* passphrase gives nothing; and with one pixel altered, one chunk lost or moved,
\* or another block size, it gives the same or nothing: for every content, frame size, block size, width
\* of the image and pair of passphrases.
THEOREM ImagesRestored ==
    ASSUME NEW B, NEW bytes \in Seq(B), NEW fs \in Nat \ {0}, NEW bs \in Nat \ {0},
           NEW width \in Nat \ {0}, NEW layouts, NEW pass, NEW wrongPass, pass # wrongPass,
           LayoutsFit(layouts, pass, 2 * FrameCount(Len(bytes), fs) + 3),
           LayoutsFit(layouts, wrongPass, 2 * FrameCount(Len(bytes), fs) + 3)
    PROVE  ImageRestored(bytes, pass, wrongPass, layouts, fs, bs, width)
<1>a. SUFFICES ASSUME LET count == Blocks(Save(bytes, fs, CarrierKey(pass, "id1"), "id1"), bs)
                      IN  Found(CarrierLayout(layouts, pass, count), count)
               PROVE  ImageRestored(bytes, pass, wrongPass, layouts, fs, bs, width)
  BY Zenon DEF ImageRestored
<1> DEFINE k == [bytes |-> bytes, frame |-> fs, key |-> CarrierKey(pass, "id1"), id |-> "id1"]
           secure == CellsOf(k)
           S == {secure[p] : p \in DOMAIN secure}
           m == Len(secure)
           target == layouts[pass][Blocks(secure, bs)]
           permuted == PermuteFile(secure, bs, target)
           ch == CarrierHeader(Len(bytes), "id1", permuted)
           payload == <<ch>> \o permuted
           C == S \cup {ch}
           h == PngHeight(Len(payload), width)
           z == EncodePng(payload, width)
           pixels == DecodePng(z)
<1>1. k.bytes = bytes /\ k.frame = fs /\ k.key = CarrierKey(pass, "id1") /\ k.id = "id1"
  OBVIOUS
<1>2. CreateCarrier(bytes, pass, "id1", layouts, fs, bs, width) = z
  BY Zenon DEF CreateCarrier, CarrierLayout, CellsOf
<1>0. Found(target, Blocks(secure, bs))
  BY <1>a, Zenon DEF CarrierLayout, CellsOf
<1> HIDE DEF k
<1>3. Saveable(B, k)
  BY <1>1 DEF Saveable
<1>4. IsSaved(secure, k)
  BY <1>3, SavedCells
<1>5. secure \in Seq(S) /\ \A y \in S : CellIn(y, {k})
  BY <1>3, SavedType
<1> HIDE DEF S, secure
<1>6. m = 2 * FrameCount(Len(bytes), fs) + 3 /\ m \in Nat /\ m >= 3
  <2>1. Len(secure) = 2 * CountOf(k) + 3 /\ CountOf(k) \in Nat
    BY <1>3, <1>4, FramesCut DEF IsSaved
  <2> QED
    BY <1>1, <2>1 DEF CountOf
<1>7. Targets(target, Blocks(secure, bs)) /\ Apart(target, Blocks(secure, bs))
  <2>1. Blocks(secure, bs) \in 0 .. m
    BY <1>5, BlocksFit
  <2> HIDE DEF m
  <2> QED
    BY <1>0, <1>6, <2>1, Zenon DEF LayoutsFit
<1>8. permuted \in Seq(S) /\ Len(permuted) = m
  <2> HIDE DEF target
  <2>1. MadeOf(PermuteFile(secure, bs, target), S, secure)
    BY <1>5, <1>7, LaidOutMembers
  <2> QED
    BY <2>1 DEF MadeOf
<1>9. RestoreFile(permuted, bs, target) = secure
  <2> HIDE DEF target
  <2> QED
    BY <1>5, <1>7, RestoreFileUndoesPermute, Zenon
<1>10. Blocks(permuted, bs) = Blocks(secure, bs)
  <2> HIDE DEF permuted
  <2> QED
    BY <1>8 DEF Blocks
<1> HIDE DEF permuted
<1>11. ch.kind = "carrier" /\ \A y \in S : y.kind \in {"header", "meta", "sealed", "final"}
  BY <1>5, ContainerCellKinds DEF CarrierHeader
<1> HIDE DEF ch
<1>12. /\ StreamEnd \notin C /\ OneCarrier(FileCells(C) \cup {Noise}, ch)
  <2>1. /\ StreamEnd.kind = "adler" /\ Filter.kind = "filter0" /\ Filler.kind = "filler"
        /\ Noise.kind = "noise"
    BY DEF StreamEnd, Filter, Filler, Noise
  <2> QED
    BY <1>11, <2>1 DEF OneCarrier, FileCells
<1>13. payload \in Seq(C) /\ Len(payload) = m + 1 /\ permuted \in Seq(C) /\ ch \in C
  <2>1. permuted \in Seq(C) /\ ch \in C
    BY <1>8
  <2> HIDE DEF C, m
  <2> QED
    BY <1>6, <1>8, <2>1
<1> HIDE DEF payload, C, m
<1>14. h \in Nat \ {0} /\ m + 1 <= h * (4 * width)
  <2>1. PICK size \in Nat : size = Len(payload) /\ size = m + 1
    BY <1>6, <1>13
  <2>2. PngHeight(size, width) \in Nat \ {0} /\ size <= PngHeight(size, width) * (4 * width)
    BY HeightFits
  <2>3. h = PngHeight(size, width)
    BY <2>1
  <2> HIDE DEF h
  <2> QED
    BY <2>1, <2>2, <2>3
<1>15. IsImage(z, width, h, C, RawOf(payload, width, h))
  BY <1>13, EncodeMakesImage
<1> HIDE DEF z, h
<1>16. PngIsValid(z)
  BY <1>12, <1>13, <1>14, <1>15, ImageIsValid
<1>17. /\ h * (4 * width) \in Nat
       /\ pixels = [p \in 1 .. h * (4 * width) |-> PixelAt(payload, p)]
  BY <1>13, <1>14, <1>15, ImageDecodes
<1>18. PICK room \in Nat : room = h * (4 * width)
  BY <1>17
<1>19. CarrierIsValid(pixels) /\ Head(pixels) = ch /\ Payload(pixels) = permuted
  <2>1. pixels = [p \in 1 .. room |-> PixelAt(<<ch>> \o permuted, p)]
    BY <1>17, <1>18 DEF payload
  <2>2. Len(permuted) + 1 <= room /\ Len(permuted) >= 1
    BY <1>6, <1>8, <1>14, <1>18
  <2> HIDE DEF pixels
  <2> QED
    BY <1>13, <2>1, <2>2, PixelsAreCarrier DEF ch
<1> HIDE DEF pixels
<1>20. RestoreCarrier(z, pass, layouts, bs) = Success(bytes)
  <2>0. Found(CarrierLayout(layouts, pass, Blocks(Payload(pixels), bs)), Blocks(Payload(pixels), bs))
    BY <1>0, <1>10, <1>19 DEF CarrierLayout
  <2>1. RestoreCarrier(z, pass, layouts, bs)
          = Decrypt(RestoreFile(Payload(pixels), bs,
                                CarrierLayout(layouts, pass, Blocks(Payload(pixels), bs))),
                    CarrierKey(pass, Head(pixels).id))
    BY <1>16, <1>19, <2>0, Zenon DEF RestoreCarrier, pixels
  <2>2. ch.id = "id1"
    BY DEF ch, CarrierHeader
  <2>3. CarrierLayout(layouts, pass, Blocks(permuted, bs)) = target
    BY <1>10 DEF CarrierLayout
  <2>4. RestoreCarrier(z, pass, layouts, bs) = Decrypt(secure, k.key)
    BY <1>1, <1>9, <1>19, <2>1, <2>2, <2>3
  <2> QED
    BY <1>1, <1>3, <1>4, <2>4, ContainerOpens
<1>21. CarrierKey(wrongPass, k.id) # k.key
  BY <1>1 DEF CarrierKey
<1>22. ASSUME NEW x \in {z} \cup Tampered(z), NEW b \in Nat \ {0}
       PROVE  /\ RestoreCarrier(x, pass, layouts, b) \in {Failure, Success(bytes)}
              /\ RestoreCarrier(x, wrongPass, layouts, b) = Failure
  <2>1. LikeImage(x, width, h, FileCells(C) \cup {Noise})
    BY <1>15, TamperedImage DEF IsImage
  <2>2. LayoutsFit(layouts, pass, Len(permuted)) /\ LayoutsFit(layouts, wrongPass, Len(permuted))
    BY <1>6, <1>8
  <2>3. S = {CellsOf(k)[p] : p \in DOMAIN CellsOf(k)}
    BY DEF S, secure
  <2>4. OneCarrier(FileCells(C) \cup {Noise}, CarrierHeader(Len(bytes), k.id, permuted))
    BY <1>1, <1>12 DEF ch
  <2>5. h \in Nat /\ width \in Nat
    BY <1>14
  <2> HIDE DEF C
  <2>6. SameOrNothing(RestoreCarrier(x, pass, layouts, b), k, CarrierKey(pass, k.id))
    BY <1>3, <1>8, <2>1, <2>2, <2>3, <2>4, <2>5, RestoresOnly, Zenon
  <2>7. SameOrNothing(RestoreCarrier(x, wrongPass, layouts, b), k, CarrierKey(wrongPass, k.id))
    BY <1>3, <1>8, <2>1, <2>2, <2>3, <2>4, <2>5, RestoresOnly, Zenon
  <2> QED
    BY <1>1, <1>21, <2>6, <2>7 DEF SameOrNothing
<1>23. \A b \in 1 .. 3 : b \in Nat \ {0}
  OBVIOUS
<1>24. /\ RestoreCarrier(z, wrongPass, layouts, bs) = Failure
       /\ \A b \in 1 .. 3 : RestoreCarrier(z, pass, layouts, b) \in {Failure, Success(bytes)}
       /\ \A x \in Disturbed(z, {}) : RestoreCarrier(x, pass, layouts, bs) \in {Failure, Success(bytes)}
  BY <1>22, <1>23 DEF Tampered
<1>25. ASSUME NEW c \in {i \in DOMAIN z : z[i].type = "IDAT"}, NEW y \in Disturbed(z[c].data, Noises)
       PROVE  RestoreCarrier([z EXCEPT ![c].data = y], pass, layouts, bs) \in {Failure, Success(bytes)}
  <2>1. [z EXCEPT ![c].data = y]
          \in UNION {{[z EXCEPT ![a].data = u] : u \in Disturbed(z[a].data, Noises)} :
                        a \in {i \in DOMAIN z : z[i].type = "IDAT"}}
    <3> DEFINE f(a, u) == [z EXCEPT ![a].data = u]
               A == {i \in DOMAIN z : z[i].type = "IDAT"}
               F(a) == {f(a, u) : u \in Disturbed(z[a].data, Noises)}
    <3> HIDE DEF f, A
    <3>1. f(c, y) \in F(c) /\ c \in A
      BY DEF A
    <3> HIDE DEF F
    <3>2. f(c, y) \in UNION {F(a) : a \in A}
      BY <3>1
    <3> QED
      BY <3>2 DEF f, F, A
  <2>2. [z EXCEPT ![c].data = y] \in Tampered(z)
    BY <2>1, Zenon DEF Tampered
  <2> QED
    BY <1>22, <2>2, <1>14, Zenon
<1> QED
  BY <1>2, <1>20, <1>24, <1>25, Zenon DEF ImageRestored, Noises

\* container.py and image_carrier.py give back the source or nothing at all, of
\* every task whose arguments are as the assumptions say.
THEOREM CarriersStand == Spec => []CarrierRestores
<1>1. TaskInv => CarrierRestores
  <2> SUFFICES ASSUME TaskInv PROVE CarrierRestores
    OBVIOUS
  <2>1. PICK a \in DOMAIN Tasks : task \in Tasks[a]
    BY DEF TaskInv
  <2>2. ASSUME Done("container")
        PROVE  ContainerRestored(task.bytes, task.other, task.frame, "k1", "k2")
    <3>1. task.bytes \in Seq(Nat) /\ task.other \in Seq(Nat) /\ task.frame \in Nat \ {0}
      BY <2>1, <2>2, ContainerArguments, Zenon DEF Done
    <3>2. "k1" # "k2"
      OBVIOUS
    <3> QED
      BY <3>1, <3>2, ContainersRestored, Zenon
  <2>3. ASSUME Done("carrier")
        PROVE  ImageRestored(task.bytes, "right", "wrong", layout,
                             task.frame, task.bs, task.width)
    <3> DEFINE limit == MostBlocks(task)
    <3>1. /\ task.bytes \in Seq(Nat) /\ {task.frame, task.bs, task.width} \subseteq Nat \ {0}
          /\ \A pass \in {"right", "wrong"}, n \in 2 .. limit :
                 RoundValues(task.rounds[pass][n], HalfBits(n))
      BY <2>1, <2>3, CarrierArguments, Zenon DEF Done
    <3>2. task.frame \in Nat \ {0} /\ task.bs \in Nat \ {0} /\ task.width \in Nat \ {0}
      BY <3>1
    <3>3. layout = Layouts(task)
      BY <2>3 DEF TaskInv, Done
    <3>4. limit \in Nat
      <4>1. PICK size \in Nat : size = Len(task.bytes)
        BY <3>1
      <4>2. FrameCount(size, task.frame) \in Nat
        BY <3>2, FrameCountBounds
      <4> QED
        BY <4>1, <4>2 DEF MostBlocks
    <3> HIDE DEF limit
    <3>5. ASSUME NEW pass \in {"right", "wrong"} PROVE LayoutsFit(layout, pass, limit)
      <4>1. ASSUME NEW n \in 0 .. limit, Found(layout[pass][n], n)
            PROVE  Targets(layout[pass][n], n) /\ Apart(layout[pass][n], n)
        <5> DEFINE f == task.rounds[pass][n]
        <5>1. layout[pass][n] = Layout(n, f)
          BY <3>3 DEF Layouts, limit
        <5>2. n \in Nat /\ (n > 1 => RoundValues(f, HalfBits(n)))
          <6>1. n \in Nat /\ (n > 1 => n \in 2 .. limit)
            BY <3>4
          <6> QED
            BY <3>1, <6>1, Zenon
        <5> HIDE DEF f
        <5>3. /\ \A i \in 0 .. n - 1 : Layout(n, f)[i] \in 0 .. n - 1
              /\ \A i, j \in 0 .. n - 1 : Layout(n, f)[i] = Layout(n, f)[j] => i = j
          BY <4>1, <5>1, <5>2, LayoutOneToOne
        <5> QED
          BY <5>1, <5>3 DEF Targets, Apart
      <4> QED
        BY <4>1, Zenon DEF LayoutsFit
    <3>6. LayoutsFit(layout, "right", limit) /\ LayoutsFit(layout, "wrong", limit)
      BY <3>5
    <3>7. "right" # "wrong"
      OBVIOUS
    <3> QED
      BY <3>1, <3>2, <3>6, <3>7, ImagesRestored, Zenon DEF limit, MostBlocks
  <2> QED
    BY <2>2, <2>3, Zenon DEF CarrierRestores
<1> QED
  BY <1>1, TaskKept, PTL
-----------------------------------------------------------------------------
(* The registry.                                                           *)

\* The entry points that are listed.
Plugins(installed) == {e \in installed : Valid(e.name) /\ Normal[e.name] \notin Builtins}
PluginNames(installed) == {Normal[e.name] : e \in Plugins(installed)}

\* The one that is listed under a name.
FirstOf(installed, n) ==
    CHOOSE e \in Plugins(installed) : /\ Normal[e.name] = n
        /\ \A d \in Plugins(installed) : Normal[d.name] = n => Precedes(e, d)

LEMMA ListIs ==
    ASSUME NEW I
    PROVE  List(I) = {Builtin(n) : n \in Builtins}
                     \cup {Plugin(n, FirstOf(I, n)) : n \in PluginNames(I)}
BY DEF List, Plugins, PluginNames, FirstOf

\* A name with an entry point has a first one: entry points are ordered by name
\* and then by provider.
LEMMA FirstExists ==
    ASSUME NEW I, Installation(I), NEW n \in PluginNames(I)
    PROVE  FirstOf(I, n) \in Plugins(I) /\ Normal[FirstOf(I, n).name] = n
<1> DEFINE Q == {e \in Plugins(I) : Normal[e.name] = n}
           T == {Order[e.name] : e \in Q}
<1>1. \A e \in Q : /\ e \in I /\ e.name \in DOMAIN Order /\ Order[e.name] \in Nat
                   /\ e.provider \in DOMAIN Order /\ Order[e.provider] \in Nat
  BY RegistryNames DEF Installation, Plugins
<1>2. T \in SUBSET Nat /\ T # {}
  BY <1>1 DEF PluginNames
<1> HIDE DEF Q
<1>3. PICK a \in Q : \A d \in Q : Order[a.name] <= Order[d.name]
  <2>1. \E x \in T : \A y \in T : x <= y
    <3> HIDE DEF T
    <3> QED
      BY <1>2, LeastNatural, Zenon
  <2> QED
    BY <2>1
<1> DEFINE U == {Order[e.provider] : e \in {d \in Q : d.name = a.name}}
<1>4. U \in SUBSET Nat /\ U # {}
  BY <1>1
<1>5. PICK e \in Q : e.name = a.name
                     /\ \A d \in Q : d.name = a.name => Order[e.provider] <= Order[d.provider]
  <2>1. \E x \in U : \A y \in U : x <= y
    <3> HIDE DEF U
    <3> QED
      BY <1>4, LeastNatural, Zenon
  <2> QED
    BY <2>1
<1>6. \A d \in Q : Precedes(e, d)
  <2> SUFFICES ASSUME NEW d \in Q PROVE Precedes(e, d)
    OBVIOUS
  <2>1. CASE d.name = a.name
    BY <1>5, <2>1 DEF Precedes
  <2>2. CASE d.name # a.name
    <3>1. Order[e.name] # Order[d.name]
      BY <1>1, <1>5, <2>2, RegistryNames
    <3>2. Order[e.name] <= Order[d.name] /\ Order[e.name] \in Nat /\ Order[d.name] \in Nat
      BY <1>1, <1>3, <1>5
    <3> QED
      BY <3>1, <3>2 DEF Precedes
  <2> QED
    BY <2>1, <2>2
<1>7. \E x \in Plugins(I) : /\ Normal[x.name] = n
                            /\ \A d \in Plugins(I) : Normal[d.name] = n => Precedes(x, d)
  BY <1>5, <1>6 DEF Q
<1> QED
  BY <1>7, Zenon DEF FirstOf

\* What is listed has a name that is listed once.
LEMMA ListedOnce ==
    ASSUME NEW I, Installation(I), NEW c \in List(I), NEW d \in List(I), c.name = d.name
    PROVE  c = d
<1>1. Builtins \cap PluginNames(I) = {}
  BY DEF PluginNames, Plugins
<1>2. \A n \in Builtins : Builtin(n).name = n
  BY DEF Builtin
<1>3. \A n \in PluginNames(I) : Plugin(n, FirstOf(I, n)).name = n
  BY DEF Plugin
<1>4. \A x \in List(I) : \/ x.name \in Builtins /\ x = Builtin(x.name)
                         \/ x.name \in PluginNames(I) /\ x = Plugin(x.name, FirstOf(I, x.name))
  BY <1>2, <1>3, ListIs
<1> QED
  BY <1>1, <1>4

LEMMA EntryIs ==
    ASSUME NEW I, Installation(I), NEW c \in List(I)
    PROVE  Entry(I, c.name) = c
BY ListedOnce DEF Entry

\* Records of different fields differ.
LEMMA NotInstalled ==
    ASSUME NEW I, Installation(I), NEW n
    PROVE  Builtin(n) \notin I
<1> SUFFICES ASSUME Builtin(n) \in I PROVE FALSE
  OBVIOUS
<1>1. PICK e \in I : e = Builtin(n)
  OBVIOUS
<1>2. e = [name |-> e.name, provider |-> e.provider, manifest |-> e.manifest]
  BY DEF Installation
<1>3. "kind" \notin DOMAIN e
  BY <1>2
<1>4. "kind" \in DOMAIN e
  BY <1>1 DEF Builtin
<1> QED
  BY <1>3, <1>4

\* What a name resolves to.
LEMMA Resolved ==
    ASSUME NEW I, Installation(I), NEW name \in DOMAIN Normal
    PROVE  /\ ~Valid(name) => Resolve(I, name) = NotFound
           /\ Valid(name) /\ Normal[name] \in Builtins => Resolve(I, name) = Builtin(Normal[name])
           /\ Valid(name) /\ Normal[name] \notin Builtins =>
                  \/ Resolve(I, name) = NotFound /\ Matches(I, Normal[name]) = {}
                  \/ /\ Resolve(I, name) \in I
                     /\ Matches(I, Normal[name]) = {Resolve(I, name)}
                  \/ Resolve(I, name) = Conflict
<1> DEFINE n == Normal[name]
           M == Matches(I, n)
<1>1. IsFiniteSet(M)
  <2>1. M \in SUBSET I
    BY DEF Matches
  <2>2. IsFiniteSet(I)
    BY DEF Installation
  <2> HIDE DEF M
  <2> QED
    BY <2>1, <2>2, FS_Subset
<1>2. Cardinality(M) = 0 <=> M = {}
  BY <1>1, FS_EmptySet
<1>3. Cardinality(M) = 1 <=> \E x : M = {x}
  <2> HIDE DEF M
  <2> QED
    BY <1>1, FS_Singleton
<1>4. M \subseteq I
  BY DEF Matches
<1> HIDE DEF M
<1>5. CASE ~Valid(name)
  BY <1>5 DEF Resolve
<1>6. CASE Valid(name) /\ n \in Builtins
  BY <1>6 DEF Resolve
<1>7. CASE Valid(name) /\ n \notin Builtins
  <2>1. Resolve(I, name) = CASE Cardinality(M) = 0 -> NotFound
                             [] Cardinality(M) = 1 -> CHOOSE e \in M : TRUE
                             [] OTHER -> Conflict
    BY <1>7, Zenon DEF Resolve, M
  <2>2. CASE Cardinality(M) = 0
    <3>1. Resolve(I, name) = NotFound /\ M = {}
      BY <1>2, <2>1, <2>2
    <3> QED
      BY <1>7, <3>1 DEF M
  <2>3. CASE Cardinality(M) = 1
    <3>1. PICK x : M = {x}
      BY <1>3, <2>3
    <3>2. Resolve(I, name) = x
      BY <2>1, <2>3, <3>1
    <3> QED
      BY <1>4, <1>7, <3>1, <3>2 DEF M
  <2>4. CASE Cardinality(M) # 0 /\ Cardinality(M) # 1
    <3>1. Resolve(I, name) = Conflict
      BY <2>1, <2>4
    <3> QED
      BY <1>7, <3>1
  <2> QED
    BY <2>2, <2>3, <2>4
<1> QED
  BY <1>5, <1>6, <1>7

\* What is described is what is loaded, or the same error.
LEMMA Described ==
    ASSUME NEW I, Installation(I), NEW name \in DOMAIN Normal
    PROVE  \/ /\ Resolve(I, name) \in {NotFound, Conflict}
              /\ Info(I, name) = Resolve(I, name)
           \/ /\ Valid(name) /\ Normal[name] \in Builtins
              /\ Info(I, name) = Builtin(Normal[name])
           \/ /\ Valid(name) /\ Normal[name] \notin Builtins /\ Resolve(I, name) \in I
              /\ Matches(I, Normal[name]) = {Resolve(I, name)}
              /\ Info(I, name) = Plugin(Normal[name], Resolve(I, name))
<1>1. NotFound \notin I /\ Conflict \notin I /\ Builtin(Normal[name]) \notin I
  BY NotInstalled DEF Installation
<1>2. CASE ~Valid(name)
  <2>1. Resolve(I, name) = NotFound
    BY <1>2, Resolved
  <2> QED
    BY <1>1, <2>1 DEF Info
<1>3. CASE Valid(name) /\ Normal[name] \in Builtins
  <2>1. Resolve(I, name) = Builtin(Normal[name])
    BY <1>3, Resolved
  <2> QED
    BY <1>1, <1>3, <2>1 DEF Info
<1>4. CASE Valid(name) /\ Normal[name] \notin Builtins
  <2>1. \/ Resolve(I, name) \in {NotFound, Conflict}
        \/ Resolve(I, name) \in I /\ Matches(I, Normal[name]) = {Resolve(I, name)}
    BY <1>4, Resolved
  <2> QED
    BY <1>1, <1>4, <2>1 DEF Info
<1> QED
  BY <1>2, <1>3, <1>4

\* Where every package writes a name in normal form, what is described under it
\* is what is listed, unless packages compete.
LEMMA DescribedAsListed ==
    ASSUME NEW I, Installation(I), NEW n \in Listed(I), Spelled(I, n)
    PROVE  Info(I, n) \in {Entry(I, n), Conflict}
<1>1. PICK c \in List(I) : c.name = n
  BY DEF Listed
<1>2. Entry(I, n) = c
  BY <1>1, EntryIs
<1>3. CASE \E b \in Builtins : c = Builtin(b)
  <2>1. n \in Builtins /\ c = Builtin(n)
    BY <1>1, <1>3 DEF Builtin
  <2>2. n \in DOMAIN Normal /\ Normal[n] = n /\ Valid(n)
    BY <2>1, RegistryNames DEF Valid
  <2>3. Resolve(I, n) = Builtin(n)
    BY <2>1, <2>2, Resolved
  <2>4. Info(I, n) = Builtin(n)
    BY <2>3, NotInstalled DEF Info
  <2> QED
    BY <1>2, <2>1, <2>4
<1>4. CASE \E m \in PluginNames(I) : c = Plugin(m, FirstOf(I, m))
  <2>1. n \in PluginNames(I) /\ c = Plugin(n, FirstOf(I, n))
    BY <1>1, <1>4 DEF Plugin
  <2> DEFINE e == FirstOf(I, n)
  <2>2. e \in Plugins(I) /\ Normal[e.name] = n
    BY <2>1, FirstExists
  <2> HIDE DEF e
  <2>3. e \in I /\ e.name = n /\ Valid(n) /\ n \notin Builtins /\ n \in DOMAIN Normal /\ Normal[n] = n
    BY <2>2, RegistryNames DEF Plugins, Installation, Spelled, Valid
  <2>4. e \in Matches(I, n)
    BY <2>3 DEF Matches
  <2>5. \/ Resolve(I, n) = NotFound /\ Matches(I, n) = {}
        \/ Resolve(I, n) \in I /\ Matches(I, n) = {Resolve(I, n)}
        \/ Resolve(I, n) = Conflict
    BY <2>3, Resolved
  <2>6. Resolve(I, n) = e \/ Resolve(I, n) = Conflict
    BY <2>4, <2>5
  <2>7. Conflict \notin I
    BY DEF Installation
  <2>8. Info(I, n) = Plugin(n, e) \/ Info(I, n) = Conflict
    BY <2>3, <2>6, <2>7 DEF Info
  <2> QED
    BY <1>2, <2>1, <2>8 DEF e
<1> QED
  BY <1>3, <1>4, ListIs

\* A listed name is in normal form.
LEMMA ListedNormal ==
    ASSUME NEW I, Installation(I), NEW n \in Listed(I)
    PROVE  n \in DOMAIN Normal /\ Normal[n] = n /\ Valid(n)
<1>1. PICK c \in List(I) : c.name = n
  BY DEF Listed
<1>2. n \in Builtins \/ n \in PluginNames(I)
  BY <1>1, ListIs DEF Builtin, Plugin
<1> QED
  BY <1>2, RegistryNames DEF PluginNames, Plugins, Installation, Valid

\* No lookup finds a name that no package spells in normal form.
LEMMA MisspelledUnfound ==
    ASSUME NEW I, Installation(I), NEW n \in DOMAIN Normal, Normal[n] = n, Valid(n),
           Misspelled(I, n)
    PROVE  Info(I, n) = NotFound
<1>1. n \notin Builtins /\ Matches(I, n) = {}
  BY DEF Misspelled, Matches
<1>2. Cardinality(Matches(I, n)) = 0
  BY <1>1, FS_EmptySet
<1>3. Resolve(I, n) = NotFound
  BY <1>1, <1>2 DEF Resolve
<1> QED
  BY <1>3 DEF Info, Installation

\* An error is nothing that is described.
LEMMA ErrorsApart ==
    /\ ~Provided(NotFound) /\ ~Provided(Conflict)
    /\ \A n \in DOMAIN Normal, p \in DOMAIN Order :
           Provided([name |-> n, kind |-> "builtin", provider |-> p])
           /\ Provided([name |-> n, kind |-> "plugin", provider |-> p])
    /\ \A n \in DOMAIN Normal, b \in BOOLEAN : Provided([name |-> n, ok |-> b])
BY RegistryErrors DEF Provided

\* What a lookup finds is listed.
LEMMA FoundIsListed ==
    ASSUME NEW I, Installation(I), NEW name \in DOMAIN Normal, Provided(Info(I, name))
    PROVE  Normal[name] \in Listed(I)
<1> DEFINE n == Normal[name]
<1>1. CASE n \in Builtins
  <2>1. Builtin(n) \in List(I) /\ Builtin(n).name = n
    BY <1>1, ListIs DEF Builtin
  <2> QED
    BY <2>1 DEF Listed
<1>2. CASE n \notin Builtins
  <2>1. Valid(name) /\ Resolve(I, name) \in I /\ Matches(I, n) = {Resolve(I, name)}
    BY <1>2, Described, ErrorsApart
  <2> DEFINE e == Resolve(I, name)
  <2>2. e \in I /\ e.name = n /\ Normal[n] = n
    BY <2>1, RegistryNames DEF Matches
  <2>3. e \in Plugins(I) /\ Normal[e.name] = n
    BY <1>2, <2>1, <2>2 DEF Plugins, Valid
  <2>4. n \in PluginNames(I)
    BY <2>3 DEF PluginNames
  <2>5. Plugin(n, FirstOf(I, n)) \in List(I) /\ Plugin(n, FirstOf(I, n)).name = n
    BY <2>4, ListIs DEF Plugin
  <2> QED
    BY <2>5 DEF Listed
<1> QED
  BY <1>1, <1>2

\* What verify calls usable is loaded from the provider that is described.
LEMMA VerifiedAsDescribed ==
    ASSUME NEW I, Installation(I), NEW name \in DOMAIN Normal, Verified(I, name)
    PROVE  Provided(Info(I, name)) /\ Load(I, name).provider = Info(I, name).provider
<1> DEFINE info == Info(I, name)
           v == Verify(I, name, TRUE)
<1>1. Provided(info)
  <2>1. CASE ~Provided(info)
    <3>1. v = info
      BY <2>1 DEF Verify, Provided
    <3> QED
      BY <2>1, <3>1 DEF Verified
  <2> QED
    BY <2>1
<1>2. \/ info = Builtin(Normal[name]) /\ Valid(name) /\ Normal[name] \in Builtins
      \/ Resolve(I, name) \in I /\ info = Plugin(Normal[name], Resolve(I, name))
  BY <1>1, Described, ErrorsApart
<1>3. CASE info = Builtin(Normal[name]) /\ Valid(name) /\ Normal[name] \in Builtins
  <2>1. Load(I, name) = info
    BY <1>3, Resolved DEF Load
  <2> QED
    BY <1>1, <2>1
<1>4. CASE Resolve(I, name) \in I /\ info = Plugin(Normal[name], Resolve(I, name))
  <2>1. info.provider = Resolve(I, name).provider
    BY <1>4 DEF Plugin
  <2> QED
    BY <1>1, <2>1 DEF Load
<1> QED
  BY <1>2, <1>3, <1>4

\* Finitely many capabilities are listed.
LEMMA ListIsFinite ==
    ASSUME NEW I, Installation(I)
    PROVE  IsFiniteSet(List(I))
<1> DEFINE L1 == {Builtin(n) : n \in Builtins}
           L2 == {Plugin(n, FirstOf(I, n)) : n \in PluginNames(I)}
           f1 == [n \in Builtins |-> Builtin(n)]
           f2 == [e \in Plugins(I) |-> Plugin(Normal[e.name], FirstOf(I, Normal[e.name]))]
<1>1. f1 \in Surjection(Builtins, L1) /\ IsFiniteSet(Builtins)
  BY RegistryNames DEF Surjection
<1>2. f2 \in Surjection(Plugins(I), L2)
  BY DEF Surjection, PluginNames
<1>3. IsFiniteSet(Plugins(I))
  <2>1. Plugins(I) \in SUBSET I /\ IsFiniteSet(I)
    BY DEF Plugins, Installation
  <2> QED
    BY <2>1, FS_Subset
<1> HIDE DEF L1, L2, f1, f2
<1>4. IsFiniteSet(L1) /\ IsFiniteSet(L2)
  BY <1>1, <1>2, <1>3, FS_Surjection
<1>5. IsFiniteSet(L1 \cup L2)
  BY <1>4, FS_Union
<1> QED
  BY <1>5, ListIs DEF L1, L2

LEMMA ListingIsConsistent ==
    ASSUME NEW I, Installation(I)
    PROVE  ListingAgrees(I)
<1>1. Cardinality(List(I)) = Cardinality(Listed(I))
  <2> DEFINE g == [c \in List(I) |-> c.name]
  <2>1. g \in Bijection(List(I), Listed(I))
    BY ListedOnce DEF Bijection, Injection, Surjection, IsInjective, Listed
  <2>2. ExistsBijection(List(I), Listed(I))
    BY <2>1 DEF ExistsBijection
  <2> QED
    BY <2>2, ListIsFinite, FS_Bijection
<1>2. ASSUME NEW n \in Builtins PROVE Entry(I, n) = Info(I, n)
  <2>1. Builtin(n) \in List(I) /\ Builtin(n).name = n
    BY ListIs DEF Builtin
  <2>2. Entry(I, n) = Builtin(n)
    BY <2>1, EntryIs
  <2>3. n \in DOMAIN Normal /\ Normal[n] = n /\ Valid(n)
    BY RegistryNames DEF Valid
  <2>4. Resolve(I, n) = Builtin(n)
    BY <2>3, Resolved
  <2> QED
    BY <2>2, <2>4, NotInstalled DEF Info
<1>3. ASSUME NEW n \in Listed(I), Misspelled(I, n) PROVE Info(I, n) = NotFound
  BY <1>3, ListedNormal, MisspelledUnfound
<1> QED
  BY <1>1, <1>2, <1>3, FoundIsListed, DescribedAsListed DEF ListingAgrees

LEMMA LockfileIsReproducible ==
    ASSUME NEW I, NEW L, Installation(I), Installation(L), NEW Q
    PROVE  LockIsReproducible(I, L, Q)
<1> DEFINE lock == Lock(I, Q)
<1> SUFFICES ASSUME Q \subseteq Listed(I)
             PROVE  /\ SyncOk(lock, I)
                    /\ SyncOk(lock, L) =>
                           \A n \in Q :
                               /\ Spelled(L, n) =>
                                      Info(L, n) = Conflict \/ Info(L, n).provider = lock[n]
                               /\ Verified(L, n) =>
                                      Load(L, n).provider = lock[n] \/ SpelledTwice(L, n)
  BY Zenon DEF LockIsReproducible, LockFails
<1>1. DOMAIN lock = Q /\ \A n \in Q : lock[n] = Entry(I, n).provider
  BY DEF Lock
<1> HIDE DEF lock
<1>2. SyncOk(lock, I)
  BY <1>1 DEF SyncOk, Sync
<1>3. ASSUME SyncOk(lock, L), NEW n \in Q
      PROVE  /\ Spelled(L, n) => Info(L, n) = Conflict \/ Info(L, n).provider = lock[n]
             /\ Verified(L, n) => Load(L, n).provider = lock[n] \/ SpelledTwice(L, n)
  <2>1. n \in Listed(L) /\ lock[n] = Entry(L, n).provider
    <3>1. Sync(lock, L).missing = {} /\ Sync(lock, L).changed = {}
      BY <1>3 DEF SyncOk
    <3>2. DOMAIN lock \ Listed(L) = {}
      BY <3>1 DEF Sync
    <3>3. {m \in DOMAIN lock \cap Listed(L) : lock[m] # Entry(L, m).provider} = {}
      BY <3>1 DEF Sync
    <3> QED
      BY <1>1, <3>2, <3>3
  <2>2. Spelled(L, n) => Info(L, n) \in {Entry(L, n), Conflict}
    BY <2>1, DescribedAsListed
  <2>3. n \in DOMAIN Normal /\ Normal[n] = n /\ Valid(n)
    BY <2>1, ListedNormal
  <2>4. ASSUME Verified(L, n), ~SpelledTwice(L, n) PROVE Load(L, n).provider = lock[n]
    <3>1. Provided(Info(L, n)) /\ Load(L, n).provider = Info(L, n).provider
      BY <2>3, <2>4, VerifiedAsDescribed
    <3>2. ~Misspelled(L, n)
      BY <2>3, <3>1, MisspelledUnfound, ErrorsApart
    <3>3. Info(L, n) = Entry(L, n)
      BY <2>2, <2>4, <3>1, <3>2, ErrorsApart DEF SpelledTwice
    <3> QED
      BY <2>1, <3>1, <3>3
  <2> QED
    BY <2>1, <2>2, <2>4
<1> QED
  BY <1>2, <1>3

\* Whatever is installed, bundled and asked for: a capability that a lookup
\* finds is listed, once; of a name that every package spells in normal form,
\* what is listed, described and locked is one provider, or the lookup reports
\* that several compete; a name that none spells so is never found; and a
\* provider that is loaded and verified is the one that was locked, unless the
\* name is registered in both ways.
THEOREM RegistryStands == Spec => []RegistryConsistent
<1>1. TaskInv => RegistryConsistent
  <2> SUFFICES ASSUME TaskInv, Done("registry")
               PROVE  /\ ListingAgrees(task.installed)
                      /\ LockIsReproducible(task.installed, task.later, task.requested)
    BY DEF RegistryConsistent
  <2>1. Installation(task.installed) /\ Installation(task.later)
    BY RegistryArguments, Zenon DEF TaskInv, Done
  <2> QED
    BY <2>1, ListingIsConsistent, LockfileIsReproducible
<1> QED
  BY <1>1, TaskKept, PTL
-----------------------------------------------------------------------------
(* The searches.                                                           *)

\* The ranges of a search, and what is found in one by a round, where g finds it
\* in the range that the round leaves.
Spans(values) == (1 .. Len(values) + 1) \X (1 .. Len(values) + 1)
Halve(values, target, g, r) ==
    IF r[1] >= r[2] THEN 0
    ELSE LET mid == Middle(r[1], r[2]) IN
         CASE Key(values[mid]) < target -> g[<<mid + 1, r[2]>>]
           [] Key(values[mid]) > target -> g[<<r[1], mid>>]
           [] OTHER -> mid
Halvings(values, target, g) == g = [r \in Spans(values) |-> Halve(values, target, g, r)]

\* A round looks at an item of its range, and leaves less of it.
LEMMA MiddleInside ==
    ASSUME NEW lo \in Nat, NEW hi \in Nat, lo < hi
    PROVE  Middle(lo, hi) \in Nat /\ lo <= Middle(lo, hi) /\ Middle(lo, hi) < hi
<1>1. (hi - lo) \div 2 \in Nat /\ (hi - lo) \div 2 < hi - lo
  OBVIOUS
<1> QED
  BY <1>1 DEF Middle

\* What a round finds depends only on shorter ranges.
LEMMA RoundShorter ==
    ASSUME NEW values \in Seq(Int \X Nat), NEW target \in Int, NEW g, NEW h, NEW r \in Spans(values),
           \A s \in Spans(values) : s[2] - s[1] < r[2] - r[1] => g[s] = h[s]
    PROVE  Halve(values, target, g, r) = Halve(values, target, h, r)
<1>1. PICK lo \in 1 .. Len(values) + 1, hi \in 1 .. Len(values) + 1 : r = <<lo, hi>>
  BY DEF Spans
<1>2. CASE lo >= hi
  BY <1>1, <1>2 DEF Halve
<1>3. CASE lo < hi
  <2>1. PICK mid \in Nat : mid = Middle(lo, hi) /\ lo <= mid /\ mid < hi
    BY <1>3, MiddleInside
  <2>2. <<mid + 1, hi>> \in Spans(values) /\ <<lo, mid>> \in Spans(values)
    <3>1. Len(values) \in Nat
      OBVIOUS
    <3>2. mid + 1 \in 1 .. Len(values) + 1 /\ mid \in 1 .. Len(values) + 1
      BY <2>1, <3>1
    <3> QED
      BY <3>2 DEF Spans
  <2>3. g[<<mid + 1, hi>>] = h[<<mid + 1, hi>>] /\ g[<<lo, mid>>] = h[<<lo, mid>>]
    BY <1>1, <2>1, <2>2, SMTT(30)
  <2>4. \A k : Halve(values, target, k, r) =
                   CASE Key(values[mid]) < target -> k[<<mid + 1, hi>>]
                     [] Key(values[mid]) > target -> k[<<lo, mid>>]
                     [] OTHER -> mid
    BY <1>1, <1>3, <2>1 DEF Halve
  <2> QED
    BY <2>3, <2>4
<1> QED
  BY <1>1, <1>2, <1>3

\* The recursion of the search ends, so that it defines a function.
LEMMA RoundsExist ==
    ASSUME NEW values \in Seq(Int \X Nat), NEW target \in Int
    PROVE  \E g : Halvings(values, target, g)
<1> DEFINE R == Spans(values)
           Upto(n) == \E g : /\ g = [r \in R |-> g[r]]
                             /\ \A r \in R : r[2] - r[1] < n => g[r] = Halve(values, target, g, r)
           T == {n \in Nat : Upto(n)}
<1>1. 0 \in T
  <2>1. \A r \in R : r[2] - r[1] < 0 => 0 = Halve(values, target, [x \in R |-> 0], r)
    BY DEF Halve, Spans
  <2>2. Upto(0)
    <3> DEFINE g == [x \in R |-> 0]
    <3>1. g = [r \in R |-> g[r]] /\ \A r \in R : g[r] = 0
      OBVIOUS
    <3>2. \A r \in R : r[2] - r[1] < 0 => g[r] = Halve(values, target, g, r)
      BY <2>1, <3>1
    <3> HIDE DEF g, R
    <3> QED
      BY <3>1, <3>2, Zenon
  <2> QED
    BY <2>2
<1>2. ASSUME NEW n \in T PROVE n + 1 \in T
  <2>1. PICK g : /\ g = [r \in R |-> g[r]]
                 /\ \A r \in R : r[2] - r[1] < n => g[r] = Halve(values, target, g, r)
    OBVIOUS
  <2> DEFINE h == [r \in R |-> IF r[2] - r[1] < n THEN g[r] ELSE Halve(values, target, g, r)]
  <2>2. h = [r \in R |-> h[r]] /\ \A r \in R : h[r] = IF r[2] - r[1] < n THEN g[r] ELSE Halve(values, target, g, r)
    OBVIOUS
  <2> HIDE DEF h
  <2>3. \A r \in R : r[1] \in Nat /\ r[2] \in Nat
    BY DEF Spans
  <2> HIDE DEF R
  <2>4. ASSUME NEW r \in R, r[2] - r[1] < n + 1
        PROVE  h[r] = Halve(values, target, h, r)
    <3>1. \A s \in R : s[2] - s[1] < r[2] - r[1] => g[s] = h[s]
      BY <2>2, <2>3, <2>4
    <3>2. Halve(values, target, g, r) = Halve(values, target, h, r)
      BY <3>1, RoundShorter DEF R
    <3>3. h[r] = Halve(values, target, g, r)
      BY <2>1, <2>2
    <3> QED
      BY <3>2, <3>3
  <2>5. Upto(n + 1)
    BY <2>2, <2>4
  <2> HIDE DEF Upto
  <2> QED
    BY <2>5
<1>3. T = Nat
  <2> HIDE DEF T
  <2>1. T \in SUBSET Nat
    BY DEF T
  <2> QED
    BY <1>1, <1>2, <2>1, Induction
<1>4. Upto(Len(values) + 1)
  <2>1. Len(values) + 1 \in Nat
    OBVIOUS
  <2> HIDE DEF Upto
  <2>2. \A n \in Nat : Upto(n)
    BY <1>3
  <2> QED
    BY <2>1, <2>2
<1>5. PICK g : /\ g = [r \in R |-> g[r]]
               /\ \A r \in R : r[2] - r[1] < Len(values) + 1 => g[r] = Halve(values, target, g, r)
  BY <1>4
<1>6. \A r \in R : r[2] - r[1] < Len(values) + 1
  BY DEF Spans
<1>7. \A r \in R : g[r] = Halve(values, target, g, r)
  BY <1>5, <1>6
<1> HIDE DEF R
<1>8. g = [r \in R |-> Halve(values, target, g, r)]
  BY <1>5, <1>7
<1> QED
  BY <1>8 DEF Halvings, R

LEMMA BinaryRounds ==
    ASSUME NEW values \in Seq(Int \X Nat), NEW target \in Int
    PROVE  \E g : /\ \A r \in Spans(values) : g[r] = Halve(values, target, g, r)
                  /\ \A lo, hi : Binary(values, target, lo, hi) = g[<<lo, hi>>]
<1> DEFINE G == CHOOSE g : Halvings(values, target, g)
<1>1. \E g : Halvings(values, target, g)
  BY RoundsExist
<1>2. Halvings(values, target, G)
  BY <1>1, Zenon
<1>3. \A lo, hi : Binary(values, target, lo, hi) = G[<<lo, hi>>]
  BY Zenon DEF Binary, Halvings, Halve, Spans
<1> HIDE DEF G
<1>4. \A r \in Spans(values) : G[r] = Halve(values, target, G, r)
  <2> DEFINE R == Spans(values)
             e(r) == Halve(values, target, G, r)
  <2>1. G = [r \in R |-> e(r)]
    BY <1>2 DEF Halvings
  <2> HIDE DEF R, e
  <2>2. \A r \in R : G[r] = e(r)
    BY <2>1
  <2> QED
    BY <2>2 DEF R, e
<1> QED
  BY <1>3, <1>4

\* Ascending items ascend over any distance.
LEMMA AscendingItems ==
    ASSUME NEW items \in Seq(Int \X Nat), Ascending(items),
           NEW p \in 1 .. Len(items), NEW q \in 1 .. Len(items), p <= q
    PROVE  Key(items[p]) <= Key(items[q])
<1>1. \A i \in 1 .. Len(items) : Key(items[i]) \in Int
  BY DEF Key
<1> DEFINE T == {n \in Nat : p + n <= Len(items) => Key(items[p]) <= Key(items[p + n])}
<1>2. 0 \in T
  BY <1>1
<1>3. ASSUME NEW n \in T PROVE n + 1 \in T
  <2>1. CASE p + (n + 1) <= Len(items)
    <3>1. p + n \in 1 .. Len(items) - 1 /\ p + (n + 1) = (p + n) + 1
      BY <2>1
    <3>2. Key(items[p + n]) <= Key(items[(p + n) + 1])
      BY <3>1 DEF Ascending
    <3>3. Key(items[p + n]) \in Int /\ Key(items[(p + n) + 1]) \in Int /\ Key(items[p]) \in Int
      BY <1>1, <3>1
    <3>4. Key(items[p]) <= Key(items[p + n])
      BY <3>1
    <3> QED
      BY <3>1, <3>2, <3>3, <3>4
  <2> QED
    BY <2>1
<1>4. T = Nat
  <2> HIDE DEF T
  <2>1. T \in SUBSET Nat
    BY DEF T
  <2> QED
    BY <1>2, <1>3, <2>1, Induction
<1>5. q - p \in Nat /\ p + (q - p) = q
  OBVIOUS
<1>6. q - p \in T
  BY <1>4, <1>5
<1> QED
  BY <1>5, <1>6

\* What is found is in the range and has the key; and where nothing is found no
\* item of the range has it.
FoundIn(items, target, lo, hi, found) ==
    IF found = 0 THEN \A p \in lo .. hi - 1 : Key(items[p]) # target
    ELSE found \in lo .. hi - 1 /\ Key(items[found]) = target

LEMMA KeysAreIntegers ==
    ASSUME NEW items \in Seq(Int \X Nat), NEW p \in 1 .. Len(items)
    PROVE  Key(items[p]) \in Int
<1>1. items[p] \in Int \X Nat
  OBVIOUS
<1> QED
  BY <1>1 DEF Key

LEMMA MiddleIndex ==
    ASSUME NEW n \in Nat, NEW a \in 1 .. n + 1, NEW b \in 1 .. n + 1, NEW mid \in Nat,
           a <= mid, mid < b
    PROVE  /\ mid \in 1 .. n /\ mid + 1 \in 1 .. n + 1 /\ mid \in 1 .. n + 1
           /\ mid # 0 /\ mid \in a .. b - 1
OBVIOUS

LEMMA RoundFinds ==
    ASSUME NEW items \in Seq(Int \X Nat), NEW target \in Int, Ascending(items), NEW g,
           NEW a \in 1 .. Len(items) + 1, NEW b \in 1 .. Len(items) + 1, a < b,
           g[<<a, b>>] = Halve(items, target, g, <<a, b>>),
           \A c, d \in 1 .. Len(items) + 1 :
               d - c < b - a => FoundIn(items, target, c, d, g[<<c, d>>])
    PROVE  FoundIn(items, target, a, b, g[<<a, b>>])
<1>1. PICK mid \in Nat : mid = Middle(a, b) /\ a <= mid /\ mid < b
  BY MiddleInside
<1>2. Len(items) \in Nat /\ mid \in 1 .. Len(items) /\ mid + 1 \in 1 .. Len(items) + 1
      /\ mid \in 1 .. Len(items) + 1 /\ mid # 0 /\ mid \in a .. b - 1
  <2>1. Len(items) \in Nat
    OBVIOUS
  <2> QED
    BY <1>1, <2>1, MiddleIndex, Zenon
<1>3. \A p \in 1 .. Len(items) : Key(items[p]) \in Int
  BY KeysAreIntegers, Zenon
<1>4. /\ Key(items[mid]) < target => g[<<a, b>>] = g[<<mid + 1, b>>]
      /\ Key(items[mid]) > target => g[<<a, b>>] = g[<<a, mid>>]
      /\ ~(Key(items[mid]) < target) /\ ~(Key(items[mid]) > target) => g[<<a, b>>] = mid
  <2>1. Key(items[mid]) \in Int
    BY <1>2, <1>3
  <2>2. g[<<a, b>>] = CASE Key(items[mid]) < target -> g[<<mid + 1, b>>]
                        [] Key(items[mid]) > target -> g[<<a, mid>>]
                        [] OTHER -> mid
    BY <1>1 DEF Halve
  <2> QED
    BY <2>1, <2>2
<1>5. \A p, q \in 1 .. Len(items) : p <= q => Key(items[p]) <= Key(items[q])
  BY AscendingItems
<1>6. /\ FoundIn(items, target, mid + 1, b, g[<<mid + 1, b>>])
      /\ FoundIn(items, target, a, mid, g[<<a, mid>>])
  BY <1>1, <1>2
<1>7. PICK key \in Int : key = Key(items[mid])
  BY <1>2, <1>3
<1>8. CASE key < target
  <2>1. g[<<a, b>>] = g[<<mid + 1, b>>]
    BY <1>4, <1>7, <1>8
  <2>2. ASSUME NEW p \in a .. mid PROVE Key(items[p]) # target
    <3>1. p \in 1 .. Len(items) /\ p <= mid
      BY <1>2
    <3>2. Key(items[p]) <= key /\ Key(items[p]) \in Int
      BY <1>2, <1>3, <1>5, <1>7, <3>1
    <3> QED
      BY <1>8, <3>2
  <2>3. \A p \in a .. b - 1 : p \in a .. mid \/ p \in mid + 1 .. b - 1
    BY <1>2
  <2>4. \A p \in mid + 1 .. b - 1 : p \in a .. b - 1
    BY <1>1
  <2> QED
    BY <1>6, <2>1, <2>2, <2>3, <2>4 DEF FoundIn
<1>9. CASE key > target
  <2>1. g[<<a, b>>] = g[<<a, mid>>]
    BY <1>4, <1>7, <1>9
  <2>2. ASSUME NEW p \in mid .. b - 1 PROVE Key(items[p]) # target
    <3>1. p \in 1 .. Len(items) /\ mid <= p
      BY <1>2
    <3>2. key <= Key(items[p]) /\ Key(items[p]) \in Int
      BY <1>2, <1>3, <1>5, <1>7, <3>1
    <3> QED
      BY <1>9, <3>2
  <2>3. \A p \in a .. b - 1 : p \in a .. mid - 1 \/ p \in mid .. b - 1
    BY <1>2
  <2>4. \A p \in a .. mid - 1 : p \in a .. b - 1
    BY <1>1
  <2> QED
    BY <1>6, <2>1, <2>2, <2>3, <2>4 DEF FoundIn
<1>10. CASE key = target
  <2>1. g[<<a, b>>] = mid
    BY <1>4, <1>7, <1>10
  <2> QED
    BY <1>2, <1>7, <1>10, <2>1 DEF FoundIn
<1> QED
  BY <1>7, <1>8, <1>9, <1>10

LEMMA BinaryFinds ==
    ASSUME NEW items \in Seq(Int \X Nat), NEW target \in Int, Ascending(items),
           NEW lo \in 1 .. Len(items) + 1, NEW hi \in 1 .. Len(items) + 1
    PROVE  FoundIn(items, target, lo, hi, Binary(items, target, lo, hi))
<1>1. PICK g : /\ \A r \in Spans(items) : g[r] = Halve(items, target, g, r)
               /\ \A a, b : Binary(items, target, a, b) = g[<<a, b>>]
  BY BinaryRounds
<1> DEFINE P == 1 .. Len(items) + 1
           Finds(a, b) == FoundIn(items, target, a, b, g[<<a, b>>])
           T == {n \in Nat : \A a, b \in P : b - a < n => Finds(a, b)}
<1>2. \A a, b \in P : g[<<a, b>>] = Halve(items, target, g, <<a, b>>)
  BY <1>1 DEF Spans
<1>3. \A a, b \in P : a >= b => Finds(a, b)
  <2> TAKE a, b \in P
  <2> HAVE a >= b
  <2>1. g[<<a, b>>] = 0
    BY <1>2 DEF Halve
  <2>2. a .. b - 1 = {}
    OBVIOUS
  <2> QED
    BY <2>1, <2>2 DEF FoundIn
<1>4. \A a, b \in P : a < b /\ (\A c, d \in P : d - c < b - a => Finds(c, d)) => Finds(a, b)
  BY <1>2, RoundFinds
<1>5. P \subseteq Nat
  OBVIOUS
<1> HIDE DEF P, Finds
<1>6. 0 \in T
  BY <1>3, <1>5
<1>7. ASSUME NEW n \in T PROVE n + 1 \in T
  <2>1. n \in Nat /\ \A a, b \in P : b - a < n => Finds(a, b)
    OBVIOUS
  <2> HIDE DEF T
  <2>2. \A a, b \in P : b - a < n + 1 => Finds(a, b)
    <3> TAKE a, b \in P
    <3> HAVE b - a < n + 1
    <3>1. CASE a >= b
      BY <1>3, <3>1
    <3>2. CASE a < b
      <4>1. \A c, d \in P : d - c < b - a => Finds(c, d)
        BY <1>5, <2>1
      <4> QED
        BY <1>4, <3>2, <4>1
    <3> QED
      BY <1>5, <3>1, <3>2
  <2> QED
    BY <2>1, <2>2 DEF T
<1>8. T = Nat
  <2>1. T \in SUBSET Nat
    OBVIOUS
  <2> HIDE DEF T
  <2> QED
    BY <1>6, <1>7, <2>1, Induction
<1>9. Len(items) + 1 \in T
  <2>1. Len(items) + 1 \in Nat
    OBVIOUS
  <2> HIDE DEF T
  <2> QED
    BY <1>8, <2>1
<1>10. lo \in P /\ hi \in P /\ hi - lo < Len(items) + 1
  BY DEF P
<1>11. Finds(lo, hi)
  BY <1>9, <1>10
<1> QED
  BY <1>1, <1>11 DEF Finds

LEMMA LinearFinds ==
    ASSUME NEW items \in Seq(Int \X Nat), NEW target \in Int
    PROVE  LET first == Linear(items, target) IN
           IF first = 0 THEN \A p \in DOMAIN items : Key(items[p]) # target
           ELSE Key(items[first]) = target /\ \A p \in 1 .. first - 1 : Key(items[p]) # target
<1> DEFINE at == {p \in DOMAIN items : Key(items[p]) = target}
<1>1. CASE at = {}
  BY <1>1 DEF Linear
<1>2. CASE at # {}
  <2>1. at \in SUBSET Nat
    OBVIOUS
  <2>2. PICK x \in at : \A y \in at : x <= y
    BY <1>2, <2>1, LeastNatural
  <2>3. Linear(items, target) \in at /\ \A y \in at : Linear(items, target) <= y
    <3>1. Linear(items, target) = Min(at)
      BY <1>2 DEF Linear
    <3> HIDE DEF at
    <3>2. \E m \in at : \A y \in at : m <= y
      BY <2>2
    <3> QED
      BY <3>1, <3>2, Zenon DEF Min
  <2>4. PICK first \in at : first = Linear(items, target) /\ \A y \in at : first <= y
    BY <2>3
  <2>7. first \in 1 .. Len(items) /\ Len(items) \in Nat
    BY <2>4
  <2>5. first # 0 /\ Key(items[first]) = target
    BY <2>4
  <2>6. ASSUME NEW p \in 1 .. first - 1 PROVE Key(items[p]) # target
    <3> HIDE DEF at
    <3>1. p \in 1 .. Len(items) /\ ~ (first <= p)
      BY <2>7
    <3>2. p \notin at
      BY <2>4, <3>1
    <3> QED
      BY <3>1, <3>2 DEF at
  <2> QED
    BY <2>4, <2>5, <2>6
<1> QED
  BY <1>1, <1>2

LEMMA SearchesFind ==
    ASSUME NEW items \in Seq(Int \X Nat), NEW target \in Int
    PROVE  FoundRight(items, target)
<1>1. ASSUME Ascending(items), NEW lo \in 1 .. Len(items) + 1, NEW hi \in lo .. Len(items) + 1
      PROVE  FoundIn(items, target, lo, hi, Binary(items, target, lo, hi))
  BY <1>1, BinaryFinds
<1> QED
  BY <1>1, LinearFinds DEF FoundRight, FoundIn

\* Whatever the items, the target and the range: the linear search finds the
\* first item of the key or there is none, and the binary search of sorted items
\* one in its range or there is none.
THEOREM SearchesStand == Spec => []LookupsRight
<1>1. TaskInv => LookupsRight
  <2> SUFFICES ASSUME TaskInv, Done("search")
               PROVE  FoundRight(task.items, task.target)
    BY DEF LookupsRight
  <2>1. task.items \in Seq(Int \X Nat) /\ task.target \in Int
    BY SearchArguments, Zenon DEF TaskInv, Done
  <2> QED
    BY <2>1, SearchesFind
<1> QED
  BY <1>1, TaskKept, PTL
-----------------------------------------------------------------------------
(* Merge sort.  The places of the array hold items of the sequence that    *)
(* was sorted: a round is followed by the positions they had there.  Every *)
(* round leaves runs twice as long, each ordered by key and then position; *)
(* the last leaves one.  As many positions come before that of a place as  *)
(* there are places before it, so what is left is the stable sort.         *)

\* The smaller of two numbers.
LEMMA MinOfTwo ==
    ASSUME NEW a \in Int, NEW b \in Int
    PROVE  Min({a, b}) = IF a <= b THEN a ELSE b
<1> DEFINE m == IF a <= b THEN a ELSE b
           S == {a, b}
<1>1. m \in S /\ \A y \in S : m <= y
  OBVIOUS
<1>2. \A x \in S : (\A y \in S : x <= y) => x = m
  OBVIOUS
<1> HIDE DEF S, m
<1>3. Min(S) = m
  BY <1>1, <1>2, Zenon DEF Min
<1> QED
  BY <1>3 DEF S, m

\* The cursors of a merge when out[write] is written: l of the left run, and
\* whether the item comes from there.
Takes(data, middle, end, reverse, write, l) ==
    TakesLeft(data, l, middle, middle + write - l, end, reverse)
Source(data, middle, end, reverse, write, l) ==
    IF Takes(data, middle, end, reverse, write, l) THEN l ELSE middle + write - l
NextLeft(data, middle, end, reverse, write, l) ==
    l + IF Takes(data, middle, end, reverse, write, l) THEN 1 ELSE 0

\* The recursion of MergePair, as an equation.
Cursors(left, data, start, middle, end, reverse) ==
    left = [write \in start .. end |->
               IF write = start THEN start
               ELSE NextLeft(data, middle, end, reverse, write - 1, left[write - 1])]

\* The recursion of the cursor ends.
LEMMA CursorsExist ==
    ASSUME NEW data, NEW start \in Nat, NEW middle \in Nat, NEW end \in Nat, NEW reverse
    PROVE  \E left : Cursors(left, data, start, middle, end, reverse)
<1> DEFINE next(k, l) == NextLeft(data, middle, end, reverse, start + k, l)
           step == [k \in Nat |-> [l \in Int |-> next(k, l)]]
<1>1. step \in [Nat -> [Int -> Int]]
  BY DEF NextLeft
<1>2. start \in Int
  OBVIOUS
<1> HIDE DEF step
<1>3. PICK f \in [Nat -> Int] : Follows(f, start, step)
  BY <1>1, <1>2, Recursion, Zenon
<1> DEFINE left == [write \in start .. end |-> f[write - start]]
<1>4. ASSUME NEW write \in start .. end
      PROVE  left[write] = IF write = start THEN start
                           ELSE NextLeft(data, middle, end, reverse, write - 1, left[write - 1])
  <2>1. CASE write = start
    <3>1. write - start = 0
      BY <2>1
    <3> QED
      BY <1>3, <2>1, <3>1 DEF Follows
  <2>2. CASE write # start
    <3>1. PICK k \in Nat : k = write - start - 1
      BY <2>2
    <3>2. write - start = k + 1 /\ (write - 1) - start = k /\ write - 1 \in start .. end /\ start + k = write - 1
      BY <2>2, <3>1
    <3>3. left[write] = f[k + 1] /\ left[write - 1] = f[k]
      BY <3>2
    <3>4. f[k + 1] = step[k][f[k]] /\ f[k] \in Int
      BY <1>3 DEF Follows
    <3>5. f[k + 1] = next(k, f[k])
      BY <3>4 DEF step
    <3> QED
      BY <2>2, <3>2, <3>3, <3>5
  <2> QED
    BY <2>1, <2>2
<1>5. left = [write \in start .. end |-> left[write]]
  OBVIOUS
<1> HIDE DEF left
<1>6. Cursors(left, data, start, middle, end, reverse)
  BY <1>4, <1>5, Zenon DEF Cursors
<1> QED
  BY <1>6

\* A cursor of the left run that takes every step.
Advances(left, data, start, middle, end, reverse) ==
    /\ left[start] = start
    /\ \A write \in start .. end - 1 :
           left[write + 1] = NextLeft(data, middle, end, reverse, write, left[write])
\* What is written as that cursor goes on.
Written(left, data, start, middle, end, reverse) ==
    [write \in start .. end - 1 |-> data[1 + Source(data, middle, end, reverse, write, left[write])]]

\* What a merge writes, by the positions it comes from.
LEMMA PairFollowsCursors ==
    ASSUME NEW data, NEW start \in Nat, NEW middle \in Nat, NEW end \in Nat, NEW reverse, start <= end
    PROVE  \E left : /\ Advances(left, data, start, middle, end, reverse)
                     /\ MergePair(data, start, middle, end, reverse) =
                            Written(left, data, start, middle, end, reverse)
<1> DEFINE left == CHOOSE f : Cursors(f, data, start, middle, end, reverse)
<1>1. \E f : Cursors(f, data, start, middle, end, reverse)
  BY CursorsExist
<1>2. Cursors(left, data, start, middle, end, reverse)
  BY <1>1, Zenon
<1>3. MergePair(data, start, middle, end, reverse) = Written(left, data, start, middle, end, reverse)
  BY Zenon DEF MergePair, Written, Source, Cursors, NextLeft, Takes
<1> HIDE DEF left
<1> DEFINE value(write) == IF write = start THEN start
                           ELSE NextLeft(data, middle, end, reverse, write - 1, left[write - 1])
<1>4. left = [write \in start .. end |-> value(write)]
  BY <1>2 DEF Cursors
<1> HIDE DEF value
<1>5. \A write \in start .. end : left[write] = value(write)
  BY <1>4
<1>6. left[start] = start
  <2>1. start \in start .. end
    OBVIOUS
  <2> QED
    BY <1>5, <2>1 DEF value
<1>7. ASSUME NEW write \in start .. end - 1
      PROVE  left[write + 1] = NextLeft(data, middle, end, reverse, write, left[write])
  <2>1. write + 1 \in start .. end /\ write + 1 # start /\ (write + 1) - 1 = write
    OBVIOUS
  <2> QED
    BY <1>5, <2>1 DEF value
<1>8. Advances(left, data, start, middle, end, reverse)
  BY <1>6, <1>7 DEF Advances
<1> QED
  BY <1>3, <1>8, Zenon

\* The cursors stay in their runs.
LEMMA CursorsInRuns ==
    ASSUME NEW data, NEW start \in Nat, NEW middle \in Nat, NEW end \in Nat, NEW reverse, NEW left,
           start <= middle, middle <= end, Advances(left, data, start, middle, end, reverse)
    PROVE  \A write \in start .. end : left[write] \in start .. middle /\ middle + write - left[write] \in middle .. end
<1> DEFINE InRuns(write) == left[write] \in start .. middle /\ middle + write - left[write] \in middle .. end
           T == {k \in Nat : start + k <= end => InRuns(start + k)}
<1>1. 0 \in T
  <2>1. start + 0 = start
    OBVIOUS
  <2>2. InRuns(start)
    BY DEF Advances
  <2> QED
    BY <2>1, <2>2
<1>2. ASSUME NEW k \in T PROVE k + 1 \in T
  <2> SUFFICES ASSUME start + (k + 1) <= end PROVE InRuns(start + (k + 1))
    OBVIOUS
  <2>1. PICK w \in Nat : w = start + k /\ w + 1 = start + (k + 1) /\ w \in start .. end - 1
    OBVIOUS
  <2>2. InRuns(w)
    BY <2>1
  <2>3. PICK l \in Nat : l = left[w] /\ l \in start .. middle /\ middle + w - l \in middle .. end
    BY <2>2
  <2>4. left[w + 1] = NextLeft(data, middle, end, reverse, w, l)
    BY <2>1, <2>3, Zenon DEF Advances
  <2>5. CASE Takes(data, middle, end, reverse, w, l)
    <3>1. left[w + 1] = l + 1 /\ l < middle
      BY <2>4, <2>5 DEF NextLeft, Takes, TakesLeft
    <3> QED
      BY <2>1, <2>3, <3>1
  <2>6. CASE ~Takes(data, middle, end, reverse, w, l)
    <3>1. left[w + 1] = l
      BY <2>3, <2>4, <2>6 DEF NextLeft
    <3>2. middle + w - l < end
      <4>1. CASE l < middle
        BY <2>6, <4>1 DEF Takes, TakesLeft
      <4>2. CASE l = middle
        BY <2>1, <4>2
      <4>3. l < middle \/ l = middle
        BY <2>3
      <4> QED
        BY <4>1, <4>2, <4>3
    <3> QED
      BY <2>1, <2>3, <3>1, <3>2
  <2> QED
    BY <2>5, <2>6
<1>3. T = Nat
  <2> HIDE DEF T
  <2>1. T \in SUBSET Nat
    BY DEF T
  <2> QED
    BY <1>1, <1>2, <2>1, Induction
<1> TAKE write \in start .. end
<1>4. write - start \in Nat /\ start + (write - start) = write
  OBVIOUS
<1>5. write - start \in T
  BY <1>3, <1>4
<1> QED
  BY <1>4, <1>5

\* The next item comes from the left, or from the right: that happens when the
\* left run is empty or its first item comes after.
FromLeft(data, middle, end, reverse, write, l, r) ==
    /\ Source(data, middle, end, reverse, write, l) = l
    /\ NextLeft(data, middle, end, reverse, write, l) = l + 1 /\ l < middle
    /\ r < end => ~RightPrecedes(data[l + 1], data[r + 1], reverse)
FromRight(data, middle, end, reverse, write, l, r) ==
    /\ Source(data, middle, end, reverse, write, l) = r
    /\ NextLeft(data, middle, end, reverse, write, l) = l /\ r < end
    /\ l < middle => RightPrecedes(data[l + 1], data[r + 1], reverse)

\* It comes from one of them, and there is an item to take.
LEMMA SourceInside ==
    ASSUME NEW data, NEW start \in Nat, NEW middle \in Nat, NEW end \in Nat, NEW reverse,
           NEW write \in start .. end - 1, NEW l \in start .. middle, NEW r \in middle .. end,
           r = middle + write - l
    PROVE  \/ FromLeft(data, middle, end, reverse, write, l, r)
           \/ FromRight(data, middle, end, reverse, write, l, r)
<1>1. CASE Takes(data, middle, end, reverse, write, l)
  BY <1>1 DEF Takes, TakesLeft, Source, NextLeft, FromLeft
<1>2. CASE ~Takes(data, middle, end, reverse, write, l)
  <2>1. r \in Nat /\ r <= end /\ l \in Nat
    OBVIOUS
  <2>2. r < end
    BY <1>2, <2>1 DEF Takes, TakesLeft
  <2>3. l < middle => RightPrecedes(data[l + 1], data[r + 1], reverse)
    BY <1>2, <2>1, Zenon DEF Takes, TakesLeft
  <2>4. /\ Source(data, middle, end, reverse, write, l) = r
        /\ NextLeft(data, middle, end, reverse, write, l) = l
    BY <1>2, <2>1 DEF Source, NextLeft
  <2> QED
    BY <2>1, <2>2, <2>3, <2>4, Zenon DEF FromRight
<1> QED
  BY <1>1, <1>2

\* The step that takes an item from the left, and from the right.
LeftStep(left, right, src, data, middle, end, reverse, w) ==
    /\ src[w] = left[w] /\ left[w + 1] = left[w] + 1 /\ right[w + 1] = right[w]
    /\ left[w] < middle
    /\ right[w] < end => ~RightPrecedes(data[left[w] + 1], data[right[w] + 1], reverse)
RightStep(left, right, src, data, middle, end, reverse, w) ==
    /\ src[w] = right[w] /\ left[w + 1] = left[w] /\ right[w + 1] = right[w] + 1
    /\ right[w] < end
    /\ left[w] < middle => RightPrecedes(data[left[w] + 1], data[right[w] + 1], reverse)

\* Every step of a merge is one or the other, from the first place to the last.
LEMMA PairSteps ==
    ASSUME NEW data, NEW start \in Nat, NEW middle \in Nat, NEW end \in Nat, NEW reverse,
           start <= middle, middle <= end
    PROVE  \E left \in [start .. end -> start .. middle], right \in [start .. end -> middle .. end],
              src \in [start .. end - 1 -> start .. end - 1] :
               /\ MergePair(data, start, middle, end, reverse) =
                      [write \in start .. end - 1 |-> data[1 + src[write]]]
               /\ \A w \in start .. end - 1 :
                      \/ LeftStep(left, right, src, data, middle, end, reverse, w)
                      \/ RightStep(left, right, src, data, middle, end, reverse, w)
<1>1. PICK g : /\ Advances(g, data, start, middle, end, reverse)
               /\ MergePair(data, start, middle, end, reverse) = Written(g, data, start, middle, end, reverse)
  <2>1. start <= end
    OBVIOUS
  <2> QED
    BY <2>1, PairFollowsCursors
<1>2. \A w \in start .. end : g[w] \in start .. middle /\ middle + w - g[w] \in middle .. end
  BY <1>1, CursorsInRuns, Zenon
<1> DEFINE left == [w \in start .. end |-> g[w]]
           right == [w \in start .. end |-> middle + w - g[w]]
           src == [w \in start .. end - 1 |-> Source(data, middle, end, reverse, w, g[w])]
<1>3. /\ left \in [start .. end -> start .. middle]
      /\ right \in [start .. end -> middle .. end]
  BY <1>2
<1>4. ASSUME NEW w \in start .. end - 1
      PROVE  /\ src[w] \in start .. end - 1
             /\ \/ LeftStep(left, right, src, data, middle, end, reverse, w)
                \/ RightStep(left, right, src, data, middle, end, reverse, w)
  <2>1. w \in start .. end /\ w + 1 \in start .. end
    OBVIOUS
  <2>2. PICK l \in start .. middle : l = g[w] /\ middle + w - l \in middle .. end
    BY <1>2, <2>1
  <2>3. PICK r \in middle .. end : r = middle + w - l
    BY <2>2
  <2>4. g[w + 1] = NextLeft(data, middle, end, reverse, w, l)
    BY <1>1, <2>2, Zenon DEF Advances
  <2>5. src[w] = Source(data, middle, end, reverse, w, l)
    BY <2>2, Zenon
  <2>6. left[w] = l /\ right[w] = r /\ left[w + 1] = g[w + 1] /\ right[w + 1] = middle + (w + 1) - g[w + 1]
    BY <2>1, <2>2, <2>3
  <2>7. \/ FromLeft(data, middle, end, reverse, w, l, r)
        \/ FromRight(data, middle, end, reverse, w, l, r)
    BY <2>3, SourceInside, Zenon
  <2> HIDE DEF left, right, src
  <2>8. CASE FromLeft(data, middle, end, reverse, w, l, r)
    <3>1. src[w] = l /\ g[w + 1] = l + 1 /\ l < middle
      BY <2>4, <2>5, <2>8, Zenon DEF FromLeft
    <3>2. right[w + 1] = r
      BY <2>3, <2>6, <3>1
    <3>3. r < end => ~RightPrecedes(data[l + 1], data[r + 1], reverse)
      BY <2>8, Zenon DEF FromLeft
    <3>4. LeftStep(left, right, src, data, middle, end, reverse, w)
      BY <2>6, <3>1, <3>2, <3>3, Zenon DEF LeftStep
    <3>5. src[w] \in start .. end - 1
      BY <3>1
    <3> QED
      BY <3>4, <3>5
  <2>9. CASE FromRight(data, middle, end, reverse, w, l, r)
    <3>1. src[w] = r /\ g[w + 1] = l /\ r < end
      BY <2>4, <2>5, <2>9, Zenon DEF FromRight
    <3>2. right[w + 1] = r + 1
      BY <2>3, <2>6, <3>1
    <3>3. l < middle => RightPrecedes(data[l + 1], data[r + 1], reverse)
      BY <2>9, Zenon DEF FromRight
    <3>4. RightStep(left, right, src, data, middle, end, reverse, w)
      BY <2>6, <3>1, <3>2, <3>3, Zenon DEF RightStep
    <3>5. src[w] \in start .. end - 1
      BY <3>1
    <3> QED
      BY <3>4, <3>5
  <2> QED
    BY <2>7, <2>8, <2>9
<1>5. src \in [start .. end - 1 -> start .. end - 1]
  <2>1. src = [w \in start .. end - 1 |-> src[w]]
    OBVIOUS
  <2> HIDE DEF src, left, right
  <2> QED
    BY <1>4, <2>1
<1>6. MergePair(data, start, middle, end, reverse) = [write \in start .. end - 1 |-> data[1 + src[write]]]
  <2>1. Written(g, data, start, middle, end, reverse) = [write \in start .. end - 1 |-> data[1 + src[write]]]
    BY Zenon DEF Written
  <2> QED
    BY <1>1, <2>1
<1> HIDE DEF left, right, src
<1> QED
  BY <1>3, <1>4, <1>5, <1>6

\* The n places of data hold the items of the positions that c names.
Arranges(items, c, data, n) ==
    /\ n \in Nat /\ c \in [1 .. n -> 1 .. n]
    /\ data = [p \in 1 .. n |-> items[c[p]]]
    /\ \A q \in 1 .. n : Key(items[q]) \in Int

\* From start to end, c keeps its places and is ordered.
RunAt(items, c, start, end, reverse) ==
    /\ \A p \in start + 1 .. end : c[p] \in start + 1 .. end
    /\ \A p \in start + 1 .. end - 1 : Ahead(items, c[p], c[p + 1], reverse)

\* Which of two items is taken, by the positions they have had.
LEMMA TakenIsAhead ==
    ASSUME NEW items, NEW a \in Nat, NEW b \in Nat, NEW reverse \in BOOLEAN,
           Key(items[a]) \in Int, Key(items[b]) \in Int
    PROVE  /\ RightPrecedes(items[a], items[b], reverse) => Ahead(items, b, a, reverse)
           /\ ~RightPrecedes(items[a], items[b], reverse) /\ a < b => Ahead(items, a, b, reverse)
<1> DEFINE x == Key(items[a])
           y == Key(items[b])
<1>1. x \in Int /\ y \in Int
  OBVIOUS
<1>2. /\ Ahead(items, a, b, reverse) <=> (IF reverse THEN x > y ELSE x < y) \/ (x = y /\ a < b)
      /\ Ahead(items, b, a, reverse) <=> (IF reverse THEN y > x ELSE y < x) \/ (y = x /\ b < a)
      /\ RightPrecedes(items[a], items[b], reverse) <=> (IF reverse THEN x < y ELSE y < x)
  BY DEF Ahead, Before, RightPrecedes
<1> HIDE DEF x, y
<1> QED
  BY <1>1, <1>2

\* The cursors of two runs that are not empty stand at places of the array.
LEMMA BothInside ==
    ASSUME NEW n \in Nat, NEW start \in Nat, NEW middle \in Nat, NEW end \in Nat,
           middle <= end, end <= n,
           NEW l \in start .. middle, l < middle, NEW r \in middle .. end, r < end
    PROVE  /\ l + 1 \in start + 1 .. middle /\ r + 1 \in middle + 1 .. end
           /\ l + 1 \in 1 .. n /\ r + 1 \in 1 .. n
OBVIOUS

\* What is written from start to end is written at places of the array.
LEMMA PlaceInside ==
    ASSUME NEW n \in Nat, NEW start \in Nat, NEW end \in Nat, end <= n, NEW q \in start .. end - 1
    PROVE  1 + q \in 1 .. n
OBVIOUS

\* What the merge of a pair of runs makes of the places.
Merges(items, c, pair, start, end, reverse, src) ==
    /\ src \in [start .. end - 1 -> start .. end - 1]
    /\ pair = [write \in start .. end - 1 |-> items[c[1 + src[write]]]]
    /\ \A write \in start .. end - 2 : Ahead(items, c[1 + src[write]], c[1 + src[write + 1]], reverse)

\* The pair is one run.
RunJoined(items, c, pair, start, end, reverse) ==
    \E src : Merges(items, c, pair, start, end, reverse, src)

\* Two runs become one.
LEMMA PairMerges ==
    ASSUME NEW n, NEW items, NEW c, NEW data, Arranges(items, c, data, n), NEW reverse \in BOOLEAN,
           NEW start \in Nat, NEW middle \in Nat, NEW end \in Nat,
           start <= middle, middle <= end, end <= n,
           RunAt(items, c, start, middle, reverse), RunAt(items, c, middle, end, reverse)
    PROVE  RunJoined(items, c, MergePair(data, start, middle, end, reverse), start, end, reverse)
<1>0. /\ n \in Nat /\ c \in [1 .. n -> 1 .. n]
      /\ \A q \in 1 .. n : data[q] = items[c[q]] /\ Key(items[q]) \in Int
  BY DEF Arranges
<1>1. PICK left \in [start .. end -> start .. middle], right \in [start .. end -> middle .. end],
           src \in [start .. end - 1 -> start .. end - 1] :
               /\ MergePair(data, start, middle, end, reverse) =
                      [write \in start .. end - 1 |-> data[1 + src[write]]]
               /\ \A w \in start .. end - 1 :
                      \/ LeftStep(left, right, src, data, middle, end, reverse, w)
                      \/ RightStep(left, right, src, data, middle, end, reverse, w)
  BY PairSteps, Zenon
<1>2. \A q \in 1 .. n : data[q] = items[c[q]] /\ c[q] \in 1 .. n /\ Key(items[c[q]]) \in Int
  BY <1>0
<1>3. MergePair(data, start, middle, end, reverse) = [write \in start .. end - 1 |-> items[c[1 + src[write]]]]
  <2>1. ASSUME NEW w \in start .. end - 1
        PROVE  data[1 + src[w]] = items[c[1 + src[w]]]
    <3>1. src[w] \in start .. end - 1
      OBVIOUS
    <3>2. 1 + src[w] \in 1 .. n
      BY <1>0, <3>1, PlaceInside, Zenon
    <3> QED
      BY <1>2, <3>2
  <2> QED
    BY <1>1, <2>1
<1>4. /\ \A p \in start + 1 .. middle : c[p] \in start + 1 .. middle
      /\ \A p \in start + 1 .. middle - 1 : Ahead(items, c[p], c[p + 1], reverse)
      /\ \A p \in middle + 1 .. end : c[p] \in middle + 1 .. end
      /\ \A p \in middle + 1 .. end - 1 : Ahead(items, c[p], c[p + 1], reverse)
  BY Zenon DEF RunAt
<1>5. ASSUME NEW w \in start .. end - 2
      PROVE  Ahead(items, c[1 + src[w]], c[1 + src[w + 1]], reverse)
  <2> DEFINE LS(v) == LeftStep(left, right, src, data, middle, end, reverse, v)
             RS(v) == RightStep(left, right, src, data, middle, end, reverse, v)
  <2>1. w \in start .. end - 1 /\ w + 1 \in start .. end - 1 /\ w \in start .. end
    OBVIOUS
  <2>2. PICK l \in start .. middle, r \in middle .. end : l = left[w] /\ r = right[w]
    BY <2>1
  <2>3. /\ LS(w) \/ RS(w)
        /\ LS(w + 1) \/ RS(w + 1)
    BY <1>1, <2>1, Zenon
  <2>4. l \in Nat /\ r \in Nat /\ 1 + l = l + 1 /\ 1 + r = r + 1
    OBVIOUS
  <2>5. CASE LS(w) /\ LS(w + 1)
    <3>1. src[w] = l /\ left[w + 1] = l + 1
      BY <2>2, <2>5, Zenon DEF LeftStep
    <3>2. src[w + 1] = l + 1 /\ l + 1 < middle
      BY <2>5, <3>1, Zenon DEF LeftStep
    <3>3. l + 1 \in start + 1 .. middle - 1
      BY <2>4, <3>2
    <3>4. Ahead(items, c[l + 1], c[(l + 1) + 1], reverse)
      BY <1>4, <3>3
    <3>5. 1 + (l + 1) = (l + 1) + 1
      BY <2>4
    <3> QED
      BY <2>4, <3>1, <3>2, <3>4, <3>5, Zenon
  <2>6. CASE RS(w) /\ RS(w + 1)
    <3>1. src[w] = r /\ right[w + 1] = r + 1
      BY <2>2, <2>6, Zenon DEF RightStep
    <3>2. src[w + 1] = r + 1 /\ r + 1 < end
      BY <2>6, <3>1, Zenon DEF RightStep
    <3>3. r + 1 \in middle + 1 .. end - 1
      BY <2>4, <3>2
    <3>4. Ahead(items, c[r + 1], c[(r + 1) + 1], reverse)
      BY <1>4, <3>3
    <3>5. 1 + (r + 1) = (r + 1) + 1
      BY <2>4
    <3> QED
      BY <2>4, <3>1, <3>2, <3>4, <3>5, Zenon
  <2>7. ASSUME l < middle, r < end
        PROVE  /\ l + 1 \in start + 1 .. middle /\ r + 1 \in middle + 1 .. end
               /\ l + 1 \in 1 .. n /\ r + 1 \in 1 .. n
    BY <1>0, <2>7, BothInside, Zenon
  <2>8. CASE LS(w) /\ RS(w + 1)
    <3>1. /\ src[w] = l /\ right[w + 1] = r /\ l < middle
          /\ r < end => ~RightPrecedes(data[l + 1], data[r + 1], reverse)
      BY <2>2, <2>8, Zenon DEF LeftStep
    <3>2. src[w + 1] = r /\ r < end
      BY <2>8, <3>1, Zenon DEF RightStep
    <3>3. /\ l + 1 \in start + 1 .. middle /\ r + 1 \in middle + 1 .. end
          /\ l + 1 \in 1 .. n /\ r + 1 \in 1 .. n
      BY <2>7, <3>1, <3>2
    <3>4. PICK a \in 1 .. n, b \in 1 .. n : a = c[l + 1] /\ b = c[r + 1]
      BY <1>2, <3>3
    <3>9. a \in Nat /\ b \in Nat
      OBVIOUS
    <3>5. ~RightPrecedes(items[a], items[b], reverse)
      BY <1>2, <3>1, <3>2, <3>3, <3>4, Zenon
    <3>6. a < b
      <4>1. a \in start + 1 .. middle /\ b \in middle + 1 .. end
        BY <1>4, <3>3, <3>4, Zenon
      <4> QED
        BY <4>1
    <3>7. Key(items[a]) \in Int /\ Key(items[b]) \in Int
      BY <1>2, <3>3, <3>4, Zenon
    <3>8. Ahead(items, a, b, reverse)
      BY <3>5, <3>6, <3>7, <3>9, TakenIsAhead, Zenon
    <3> QED
      BY <2>4, <3>1, <3>2, <3>4, <3>8, Zenon
  <2>9. CASE RS(w) /\ LS(w + 1)
    <3>1. /\ src[w] = r /\ left[w + 1] = l /\ r < end
          /\ l < middle => RightPrecedes(data[l + 1], data[r + 1], reverse)
      BY <2>2, <2>9, Zenon DEF RightStep
    <3>2. src[w + 1] = l /\ l < middle
      BY <2>9, <3>1, Zenon DEF LeftStep
    <3>3. l + 1 \in 1 .. n /\ r + 1 \in 1 .. n
      BY <2>7, <3>1, <3>2
    <3>4. PICK a \in 1 .. n, b \in 1 .. n : a = c[l + 1] /\ b = c[r + 1]
      BY <1>2, <3>3
    <3>9. a \in Nat /\ b \in Nat
      OBVIOUS
    <3>5. RightPrecedes(items[a], items[b], reverse)
      BY <1>2, <3>1, <3>2, <3>3, <3>4, Zenon
    <3>6. Key(items[a]) \in Int /\ Key(items[b]) \in Int
      BY <1>2, <3>3, <3>4, Zenon
    <3>7. Ahead(items, b, a, reverse)
      BY <3>5, <3>6, <3>9, TakenIsAhead, Zenon
    <3> QED
      BY <2>4, <3>1, <3>2, <3>4, <3>7, Zenon
  <2> QED
    BY <2>3, <2>5, <2>6, <2>8, <2>9, Zenon
<1>6. src \in [start .. end - 1 -> start .. end - 1]
  OBVIOUS
<1> QED
  BY <1>3, <1>5, <1>6, Zenon DEF Merges, RunJoined

\* Where pairs of runs of w items start.
LEMMA PairArithmetic ==
    ASSUME NEW w \in Nat \ {0}, NEW i \in Nat
    PROVE  /\ i * (2 * w) \in Nat /\ (2 * i) * w = i * (2 * w)
           /\ (2 * i + 1) * w = i * (2 * w) + w
<1>1. PICK x \in Nat : x = i * w
  BY SMTT(30)
<1>2. i * (2 * w) = 2 * x
  BY <1>1, SMTT(30)
<1>3. (2 * i) * w = 2 * x
  BY <1>1, SMTT(30)
<1>4. (2 * i + 1) * w = (2 * i) * w + w
  BY SMTT(30)
<1> QED
  BY <1>1, <1>2, <1>3, <1>4

\* Products keep the order.
LEMMA TimesGrows ==
    ASSUME NEW a \in Nat, NEW b \in Nat, NEW m \in Nat, a < b
    PROVE  a * m + m <= b * m /\ a * m \in Nat /\ b * m \in Nat
<1>1. PICK d \in Nat : b = a + 1 + d
  <2>1. b - a - 1 \in Nat /\ b = a + 1 + (b - a - 1)
    OBVIOUS
  <2> QED
    BY <2>1
<1>2. a * m \in Nat /\ d * m \in Nat /\ b * m \in Nat
  BY SMTT(30)
<1>3. b * m = (a * m + m) + d * m
  BY <1>1, SMTT(30)
<1> QED
  BY <1>2, <1>3

\* The pair of runs a place belongs to.
LEMMA PairOfPlace ==
    ASSUME NEW n \in Nat, NEW W \in Nat \ {0}, NEW p \in 1 .. n
    PROVE  /\ (p - 1) \div W \in 0 .. (n - 1) \div W
           /\ ((p - 1) \div W) * W \in 0 .. p - 1
           /\ p - 1 < ((p - 1) \div W) * W + W
<1>1. PICK x \in Nat, y \in Nat : x = p - 1 /\ y = n - 1 /\ x <= y
  OBVIOUS
<1>2. PICK i \in Nat, r \in 0 .. W - 1 : i = x \div W /\ x = W * i + r
  <2>1. x \div W \in Nat /\ x % W \in 0 .. W - 1 /\ x = W * (x \div W) + (x % W)
    BY Division
  <2> QED
    BY <2>1, Zenon
<1>3. PICK q \in Nat, s \in 0 .. W - 1 : q = y \div W /\ y = W * q + s
  <2>1. y \div W \in Nat /\ y % W \in 0 .. W - 1 /\ y = W * (y \div W) + (y % W)
    BY Division
  <2> QED
    BY <2>1, Zenon
<1>4. i * W \in Nat /\ q * W \in Nat /\ W * i = i * W /\ W * q = q * W
  BY SMTT(30)
<1>5. i <= q
  <2> SUFFICES ASSUME q < i PROVE FALSE
    OBVIOUS
  <2>1. q * W + W <= i * W
    BY TimesGrows
  <2> QED
    BY <1>1, <1>2, <1>3, <1>4, <2>1
<1>6. i * W \in 0 .. x /\ x < i * W + W
  BY <1>2, <1>4
<1> QED
  BY <1>1, <1>2, <1>3, <1>5, <1>6

\* A place belongs to no other pair.
LEMMA PairIsUnique ==
    ASSUME NEW W \in Nat \ {0}, NEW j \in Nat, NEW x \in Nat, j * W <= x, x < j * W + W
    PROVE  x \div W = j
<1>1. PICK i \in Nat, r \in 0 .. W - 1 : i = x \div W /\ x = W * i + r
  <2>1. x \div W \in Nat /\ x % W \in 0 .. W - 1 /\ x = W * (x \div W) + (x % W)
    BY Division
  <2> QED
    BY <2>1, Zenon
<1>2. j * W \in Nat /\ i * W = W * i
  BY SMTT(30)
<1>3. PICK s \in 0 .. W - 1 : x = j * W + s
  <2>1. x - j * W \in 0 .. W - 1 /\ x = j * W + (x - j * W)
    BY <1>2
  <2> QED
    BY <2>1
<1>4. j * W + s = i * W + r
  BY <1>1, <1>2, <1>3
<1> QED
  BY <1>1, <1>4, UniqueDivision

\* A bound that is cut off at the end of the items.
AtMost(x, n) == IF x <= n THEN x ELSE n

\* Runs of w items each, the last of them maybe short.
Runs(items, c, n, w, reverse) ==
    \A j \in Nat : RunAt(items, c, AtMost(j * w, n), AtMost(j * w + w, n), reverse)

\* From start to end, the places hold the items they held between them.
Keeps(c, start, end) == \A q \in start + 1 .. end : c[q] \in start + 1 .. end

\* A round makes one run of every pair that has items.
LEMMA PairOfRound ==
    ASSUME NEW n, NEW items, NEW c, NEW data, Arranges(items, c, data, n), NEW reverse \in BOOLEAN,
           NEW w \in Nat \ {0}, Runs(items, c, n, w, reverse),
           NEW i \in Nat, i * (2 * w) < n
    PROVE  \E start, middle, end \in Nat :
               /\ start = i * (2 * w) /\ middle = AtMost(start + w, n) /\ end = AtMost(start + 2 * w, n)
               /\ start < end /\ end <= n
               /\ Keeps(c, start, end)
               /\ RunJoined(items, c, MergePair(data, start, middle, end, reverse), start, end, reverse)
<1>0. n \in Nat
  BY DEF Arranges
<1>7. PICK start \in Nat : start = i * (2 * w)
  BY PairArithmetic
<1>8. PICK middle \in Nat : middle = AtMost(start + w, n)
  BY <1>0 DEF AtMost
<1>9. PICK end \in Nat : end = AtMost(start + 2 * w, n)
  BY <1>0 DEF AtMost
<1>1. start < end /\ end <= n /\ start <= middle /\ middle <= end
  BY <1>0, <1>7, <1>8, <1>9 DEF AtMost
<1>2. RunAt(items, c, start, middle, reverse)
  <2>1. 2 * i \in Nat /\ (2 * i) * w = start
    BY <1>7, PairArithmetic
  <2>2. RunAt(items, c, AtMost((2 * i) * w, n), AtMost((2 * i) * w + w, n), reverse)
    BY <2>1, Zenon DEF Runs
  <2>3. AtMost(start, n) = start
    BY <1>0, <1>1 DEF AtMost
  <2> QED
    BY <1>8, <2>1, <2>2, <2>3, Zenon
<1>3. RunAt(items, c, middle, end, reverse)
  <2>1. 2 * i + 1 \in Nat /\ (2 * i + 1) * w = start + w
    BY <1>7, PairArithmetic
  <2>2. RunAt(items, c, AtMost((2 * i + 1) * w, n), AtMost((2 * i + 1) * w + w, n), reverse)
    BY <2>1, Zenon DEF Runs
  <2>3. (start + w) + w = start + 2 * w
    OBVIOUS
  <2> QED
    BY <1>8, <1>9, <2>1, <2>2, <2>3, Zenon
<1>4. ASSUME NEW q \in start + 1 .. end
      PROVE  c[q] \in start + 1 .. end
  <2>1. CASE q <= middle
    <3>1. q \in start + 1 .. middle
      BY <1>1, <2>1
    <3>2. c[q] \in start + 1 .. middle
      BY <1>2, <3>1, Zenon DEF RunAt
    <3> QED
      BY <1>1, <3>2
  <2>2. CASE q > middle
    <3>1. q \in middle + 1 .. end
      BY <1>1, <2>2
    <3>2. c[q] \in middle + 1 .. end
      BY <1>3, <3>1, Zenon DEF RunAt
    <3> QED
      BY <1>1, <3>2
  <2> QED
    BY <1>1, <2>1, <2>2
<1>5. RunJoined(items, c, MergePair(data, start, middle, end, reverse), start, end, reverse)
  BY <1>1, <1>2, <1>3, PairMerges, Zenon
<1>6. Keeps(c, start, end)
  BY <1>4, Zenon DEF Keeps
<1> QED
  BY <1>1, <1>5, <1>6, <1>7, <1>8, <1>9, Zenon

\* Every item of a round is one of the pair of runs its place belongs to.
ByPairs(round, data, n, w, reverse) ==
    /\ round = [p \in 1 .. n |-> round[p]]
    /\ \A p \in 1 .. n, i, start, middle, end \in Nat :
           /\ i = (p - 1) \div (2 * w) /\ start = i * (2 * w)
           /\ middle = AtMost(start + w, n) /\ end = AtMost(start + 2 * w, n)
           => round[p] = MergePair(data, start, middle, end, reverse)[p - 1]

\* A round is made of its pairs: at every place, the minima are the bounds.
LEMMA RoundByPairs ==
    ASSUME NEW data, Len(data) \in Nat, NEW w \in Nat \ {0}, NEW reverse
    PROVE  ByPairs(MergeRound(data, w, reverse), data, Len(data), w, reverse)
<1> DEFINE n == Len(data)
           pair(i) == MergePair(data, i * (2 * w), Min({i * (2 * w) + w, n}), Min({i * (2 * w) + 2 * w, n}), reverse)
           pairs == [i \in 0 .. (n - 1) \div (2 * w) |-> pair(i)]
<1>1. MergeRound(data, w, reverse) = [p \in 1 .. n |-> pairs[(p - 1) \div (2 * w)][p - 1]]
  BY Zenon DEF MergeRound
<1>4. n \in Nat
  OBVIOUS
<1> HIDE DEF pairs, n
<1>2. MergeRound(data, w, reverse) = [p \in 1 .. n |-> MergeRound(data, w, reverse)[p]]
  BY <1>1
<1>3. ASSUME NEW p \in 1 .. n, NEW i \in Nat, NEW start \in Nat, NEW middle \in Nat, NEW end \in Nat,
             i = (p - 1) \div (2 * w), start = i * (2 * w),
             middle = AtMost(start + w, n), end = AtMost(start + 2 * w, n)
      PROVE  MergeRound(data, w, reverse)[p] = MergePair(data, start, middle, end, reverse)[p - 1]
  <2>1. 2 * w \in Nat \ {0}
    OBVIOUS
  <2>2. i \in 0 .. (n - 1) \div (2 * w)
    BY <1>3, <1>4, <2>1, PairOfPlace
  <2>3. pairs[i] = pair(i)
    BY <2>2 DEF pairs
  <2>4. Min({start + w, n}) = middle /\ Min({start + 2 * w, n}) = end
    <3>1. start + w \in Int /\ start + 2 * w \in Int /\ n \in Int
      BY <1>4
    <3>2. /\ Min({start + w, n}) = IF start + w <= n THEN start + w ELSE n
          /\ Min({start + 2 * w, n}) = IF start + 2 * w <= n THEN start + 2 * w ELSE n
      BY <3>1, MinOfTwo, Zenon
    <3> QED
      BY <1>3, <3>2, Zenon DEF AtMost
  <2>5. pair(i) = MergePair(data, start, middle, end, reverse)
    BY <1>3, <2>4, Zenon
  <2>6. MergeRound(data, w, reverse)[p] = pairs[(p - 1) \div (2 * w)][p - 1]
    BY <1>1
  <2> QED
    BY <1>3, <2>3, <2>5, <2>6, Zenon
<1>5. ByPairs(MergeRound(data, w, reverse), data, n, w, reverse)
  BY <1>2, <1>3 DEF ByPairs
<1> QED
  BY <1>5 DEF n

\* One round: runs of w become runs of twice as many.
LEMMA RoundMerges ==
    ASSUME NEW n, NEW items, NEW c, NEW data, Arranges(items, c, data, n), NEW reverse \in BOOLEAN,
           NEW w \in Nat \ {0}, Runs(items, c, n, w, reverse)
    PROVE  \E d : /\ Arranges(items, d, MergeRound(data, w, reverse), n)
                  /\ Runs(items, d, n, 2 * w, reverse)
<1>0. /\ n \in Nat /\ c \in [1 .. n -> 1 .. n] /\ data = [p \in 1 .. n |-> items[c[p]]]
      /\ \A q \in 1 .. n : Key(items[q]) \in Int
  BY DEF Arranges
<1> DEFINE W == 2 * w
           Whole(i, start, middle, end) ==
               start = i * W /\ middle = AtMost(start + w, n) /\ end = AtMost(start + W, n)
           Sorts(f, start, middle, end) ==
               Merges(items, c, MergePair(data, start, middle, end, reverse), start, end, reverse, f)
           src == [i \in Nat |-> CHOOSE f : Sorts(f, i * W, AtMost(i * W + w, n), AtMost(i * W + W, n))]
           d == [p \in 1 .. n |-> c[1 + src[(p - 1) \div W][p - 1]]]
<1>1. ASSUME NEW i \in Nat, i * W < n
      PROVE  \E start, middle, end \in Nat :
                 /\ Whole(i, start, middle, end) /\ start < end /\ end <= n
                 /\ Keeps(c, start, end)
                 /\ Sorts(src[i], start, middle, end)
  <2>1. PICK start \in Nat, middle \in Nat, end \in Nat :
               /\ start = i * (2 * w) /\ middle = AtMost(start + w, n) /\ end = AtMost(start + 2 * w, n)
               /\ start < end /\ end <= n
               /\ Keeps(c, start, end)
               /\ RunJoined(items, c, MergePair(data, start, middle, end, reverse), start, end, reverse)
    BY <1>1, PairOfRound
  <2>2. src[i] = CHOOSE f : Sorts(f, start, middle, end)
    BY <2>1, Zenon
  <2>3. \E f : Sorts(f, start, middle, end)
    BY <2>1, Zenon DEF RunJoined
  <2>4. Sorts(src[i], start, middle, end)
    BY <2>2, <2>3, Zenon
  <2> HIDE DEF src
  <2> QED
    BY <2>1, <2>4, Zenon
<1>2. W \in Nat \ {0}
  OBVIOUS
<1> HIDE DEF src
<1>3. ASSUME NEW p \in 1 .. n
      PROVE  \E i, start, middle, end \in Nat :
                 /\ i = (p - 1) \div W /\ i * W < n /\ p - 1 \in start .. end - 1
                 /\ Whole(i, start, middle, end) /\ start < end /\ end <= n
                 /\ Keeps(c, start, end)
                 /\ Sorts(src[i], start, middle, end)
  <2>1. PICK i \in Nat : i = (p - 1) \div W /\ i * W \in 0 .. p - 1 /\ p - 1 < i * W + W
    <3>1. /\ (p - 1) \div W \in 0 .. (n - 1) \div W
          /\ ((p - 1) \div W) * W \in 0 .. p - 1
          /\ p - 1 < ((p - 1) \div W) * W + W
      BY <1>0, <1>2, PairOfPlace, Zenon
    <3>2. \A x, y : x \in 0 .. y => x \in Nat
      OBVIOUS
    <3> HIDE DEF W
    <3> QED
      BY <3>1, <3>2, Zenon
  <2>2. i * W < n
    BY <1>0, <2>1
  <2>3. PICK start \in Nat, middle \in Nat, end \in Nat :
                 /\ Whole(i, start, middle, end) /\ start < end /\ end <= n
                 /\ Keeps(c, start, end)
                 /\ Sorts(src[i], start, middle, end)
    BY <1>1, <2>2, Zenon
  <2>4. p - 1 \in start .. end - 1
    <3>1. start = i * W /\ end = AtMost(start + W, n)
      BY <2>3, Zenon
    <3> HIDE DEF W
    <3>2. start <= p - 1 /\ p - 1 < start + W
      BY <2>1, <3>1
    <3> QED
      BY <1>0, <1>2, <3>1, <3>2 DEF AtMost
  <2> QED
    BY <2>1, <2>2, <2>3, <2>4, Zenon
<1>4. ASSUME NEW p \in 1 .. n, NEW i \in Nat, NEW start \in Nat, NEW middle \in Nat, NEW end \in Nat,
             i = (p - 1) \div W, p - 1 \in start .. end - 1, end <= n,
             Keeps(c, start, end),
             Sorts(src[i], start, middle, end)
      PROVE  /\ d[p] = c[1 + src[i][p - 1]] /\ d[p] \in start + 1 .. end /\ d[p] \in 1 .. n
             /\ MergePair(data, start, middle, end, reverse)[p - 1] = items[d[p]]
  <2>1. d[p] = c[1 + src[i][p - 1]]
    BY <1>4
  <2>2. PICK s \in start .. end - 1 : s = src[i][p - 1]
    BY <1>4 DEF Merges
  <2>3. 1 + s \in start + 1 .. end
    BY <1>4
  <2>4. d[p] \in start + 1 .. end
    BY <1>4, <2>1, <2>2, <2>3, Zenon DEF Keeps
  <2>5. d[p] \in 1 .. n
    BY <1>0, <1>4, <2>4, SMTT(30)
  <2>6. MergePair(data, start, middle, end, reverse) = [write \in start .. end - 1 |-> items[c[1 + src[i][write]]]]
    BY <1>4, Zenon DEF Merges
  <2>7. MergePair(data, start, middle, end, reverse)[p - 1] = items[c[1 + src[i][p - 1]]]
    BY <1>4, <2>6
  <2> QED
    BY <2>1, <2>4, <2>5, <2>7, Zenon
<1>8. ByPairs(MergeRound(data, w, reverse), data, n, w, reverse)
  <2>1. Len(data) = n
    BY <1>0
  <2>2. ByPairs(MergeRound(data, w, reverse), data, Len(data), w, reverse)
    BY <1>0, <2>1, RoundByPairs
  <2> QED
    BY <2>1, <2>2, Zenon
<1>5. \A p \in 1 .. n : d[p] \in 1 .. n /\ MergeRound(data, w, reverse)[p] = items[d[p]]
  <2> TAKE p \in 1 .. n
  <2>1. PICK i \in Nat, start \in Nat, middle \in Nat, end \in Nat :
                 /\ i = (p - 1) \div W /\ i * W < n /\ p - 1 \in start .. end - 1
                 /\ Whole(i, start, middle, end) /\ start < end /\ end <= n
                 /\ Keeps(c, start, end)
                 /\ Sorts(src[i], start, middle, end)
    BY <1>3, Zenon
  <2> HIDE DEF d
  <2>2. d[p] \in 1 .. n /\ MergePair(data, start, middle, end, reverse)[p - 1] = items[d[p]]
    <3>1. i = (p - 1) \div W /\ p - 1 \in start .. end - 1 /\ end <= n
      BY <2>1, Zenon
    <3>2. Keeps(c, start, end) /\ Sorts(src[i], start, middle, end)
      BY <2>1, Zenon
    <3> HIDE DEF Sorts, W
    <3> QED
      BY <1>4, <3>1, <3>2
  <2>4. MergeRound(data, w, reverse)[p] = MergePair(data, start, middle, end, reverse)[p - 1]
    <3>1. /\ i = (p - 1) \div (2 * w) /\ start = i * (2 * w)
          /\ middle = AtMost(start + w, n) /\ end = AtMost(start + 2 * w, n)
      BY <2>1
    <3> QED
      BY <1>8, <3>1 DEF ByPairs
  <2> QED
    BY <2>2, <2>4, Zenon
<1>6. Arranges(items, d, MergeRound(data, w, reverse), n)
  <2>2. MergeRound(data, w, reverse) = [p \in 1 .. n |-> MergeRound(data, w, reverse)[p]]
    BY <1>8, Zenon DEF ByPairs
  <2>3. d = [p \in 1 .. n |-> d[p]]
    BY Zenon
  <2> HIDE DEF d
  <2>4. d \in [1 .. n -> 1 .. n]
    BY <1>5, <2>3
  <2>5. MergeRound(data, w, reverse) = [p \in 1 .. n |-> items[d[p]]]
    BY <1>5, <2>2
  <2> QED
    BY <1>0, <2>4, <2>5 DEF Arranges
<1>7. Runs(items, d, n, W, reverse)
  <2> SUFFICES ASSUME NEW j \in Nat
               PROVE  RunAt(items, d, AtMost(j * W, n), AtMost(j * W + W, n), reverse)
    BY Zenon DEF Runs
  <2>1. j * W \in Nat
    BY SMTT(30)
  <2>2. CASE j * W < n
    <3>1. PICK start \in Nat, middle \in Nat, end \in Nat :
                 /\ Whole(j, start, middle, end) /\ start < end /\ end <= n
                 /\ Keeps(c, start, end)
                 /\ Sorts(src[j], start, middle, end)
      BY <1>1, <2>2, Zenon
    <3>2. AtMost(j * W, n) = start /\ AtMost(j * W + W, n) = end /\ end <= start + W
      BY <1>0, <2>1, <2>2, <3>1 DEF AtMost
    <3> HIDE DEF W, d
    <3>3. ASSUME NEW p \in start + 1 .. end
          PROVE  p \in 1 .. n /\ p - 1 \in start .. end - 1 /\ (p - 1) \div W = j
      <4>3. start < end /\ end <= n
        BY <3>1, Zenon
      <4>1. p \in 1 .. n /\ p - 1 \in start .. end - 1 /\ p - 1 \in Nat
        BY <1>0, <4>3
      <4>2. j * W <= p - 1 /\ p - 1 < j * W + W
        BY <1>2, <2>1, <3>1, <3>2, <4>1
      <4> QED
        BY <1>2, <4>1, <4>2, PairIsUnique
    <3>4. ASSUME NEW p \in start + 1 .. end
          PROVE  d[p] = c[1 + src[j][p - 1]] /\ d[p] \in start + 1 .. end
      BY <1>4, <3>1, <3>3, Zenon
    <3>5. ASSUME NEW p \in start + 1 .. end - 1
          PROVE  Ahead(items, d[p], d[p + 1], reverse)
      <4>1. p \in start + 1 .. end /\ p + 1 \in start + 1 .. end
        BY <3>1
      <4>2. PICK v \in start .. end - 2 : v = p - 1 /\ v + 1 = p /\ (p + 1) - 1 = v + 1
        BY <3>1
      <4>3. d[p] = c[1 + src[j][v]] /\ d[p + 1] = c[1 + src[j][v + 1]]
        BY <3>4, <4>1, <4>2, Zenon
      <4>4. Ahead(items, c[1 + src[j][v]], c[1 + src[j][v + 1]], reverse)
        BY <3>1, Zenon DEF Merges
      <4> QED
        BY <4>3, <4>4, Zenon
    <3> QED
      BY <3>2, <3>4, <3>5, Zenon DEF RunAt
  <2>3. CASE ~(j * W < n)
    <3>1. AtMost(j * W, n) = n /\ AtMost(j * W + W, n) = n
      BY <1>0, <1>2, <2>1, <2>3 DEF AtMost
    <3>2. n + 1 .. n = {} /\ n + 1 .. n - 1 = {}
      BY <1>0
    <3>3. RunAt(items, d, n, n, reverse)
      BY <3>2, Zenon DEF RunAt
    <3> QED
      BY <3>1, <3>3, Zenon
  <2> QED
    BY <2>2, <2>3
<1> HIDE DEF d
<1> QED
  BY <1>6, <1>7

\* The loop of the rounds.
LoopBody(items, reverse, run, k) ==
    CASE k = 0 -> [data |-> items, width |-> 1]
      [] k > 0 /\ run[k - 1].width >= Len(items) -> run[k - 1]
      [] OTHER -> [data  |-> MergeRound(run[k - 1].data, run[k - 1].width, reverse),
                   width |-> 2 * run[k - 1].width]
Loops(items, reverse, run) == run = [k \in Nat |-> LoopBody(items, reverse, run, k)]

\* What follows r: the same when a run has all the items.
NextRound(items, reverse, r) ==
    IF r.width >= Len(items) THEN r
    ELSE [data |-> MergeRound(r.data, r.width, reverse), width |-> 2 * r.width]

\* What the loop can be at: the items in runs of width.
States(items, reverse) ==
    {r \in [data : [1 .. Len(items) -> Int \X Nat], width : Nat \ {0}] :
        \E c : Arranges(items, c, r.data, Len(items)) /\ Runs(items, c, Len(items), r.width, reverse)}

\* At the start every item is a run.
LEMMA LoopStarts ==
    ASSUME NEW items \in Seq(Int \X Nat), NEW reverse \in BOOLEAN
    PROVE  [data |-> items, width |-> 1] \in States(items, reverse)
<1> DEFINE n == Len(items)
           c == [p \in 1 .. n |-> p]
           r == [data |-> items, width |-> 1]
<1>1. n \in Nat /\ items \in [1 .. n -> Int \X Nat]
  OBVIOUS
<1>2. Arranges(items, c, items, n)
  <2>1. c \in [1 .. n -> 1 .. n]
    OBVIOUS
  <2>2. items = [p \in 1 .. n |-> items[c[p]]]
    BY <1>1
  <2>3. \A q \in 1 .. n : Key(items[q]) \in Int
    BY <1>1 DEF Key
  <2> HIDE DEF c, n
  <2> QED
    BY <1>1, <2>1, <2>2, <2>3, Zenon DEF Arranges
<1>3. Runs(items, c, n, 1, reverse)
  <2> SUFFICES ASSUME NEW j \in Nat
               PROVE  RunAt(items, c, AtMost(j * 1, n), AtMost(j * 1 + 1, n), reverse)
    BY Zenon DEF Runs
  <2>1. PICK s \in Nat, e \in Nat : s = AtMost(j * 1, n) /\ e = AtMost(j * 1 + 1, n) /\ s <= e /\ e <= s + 1 /\ e <= n
    <3>1. j * 1 = j
      OBVIOUS
    <3> HIDE DEF n
    <3> QED
      BY <1>1, <3>1 DEF AtMost
  <2> HIDE DEF n
  <2>2. \A p \in s + 1 .. e : c[p] \in s + 1 .. e
    BY <1>1, <2>1
  <2>3. s + 1 .. e - 1 = {}
    BY <2>1
  <2>4. RunAt(items, c, s, e, reverse)
    BY <2>2, <2>3, Zenon DEF RunAt
  <2> QED
    BY <2>1, <2>4, Zenon
<1>4. r \in [data : [1 .. n -> Int \X Nat], width : Nat \ {0}] /\ r.data = items /\ r.width = 1
  BY <1>1
<1> HIDE DEF c, r, n
<1>5. \E d : Arranges(items, d, r.data, n) /\ Runs(items, d, n, r.width, reverse)
  BY <1>2, <1>3, <1>4, Zenon
<1> QED
  BY <1>4, <1>5, Zenon DEF States, n, r

\* A round leads from one of those to another.
LEMMA LoopGoesOn ==
    ASSUME NEW items \in Seq(Int \X Nat), NEW reverse \in BOOLEAN, NEW r \in States(items, reverse)
    PROVE  NextRound(items, reverse, r) \in States(items, reverse)
<1>1. CASE r.width >= Len(items)
  BY <1>1, Zenon DEF NextRound
<1>2. CASE ~(r.width >= Len(items))
  <2> DEFINE n == Len(items)
             x == [data |-> MergeRound(r.data, r.width, reverse), width |-> 2 * r.width]
  <2>1. PICK w \in Nat \ {0} : w = r.width
    BY DEF States
  <2>2. PICK c : Arranges(items, c, r.data, n) /\ Runs(items, c, n, w, reverse)
    BY <2>1, Zenon DEF States
  <2>3. PICK d : Arranges(items, d, MergeRound(r.data, w, reverse), n) /\ Runs(items, d, n, 2 * w, reverse)
    BY <2>2, RoundMerges, Zenon
  <2>4. MergeRound(r.data, w, reverse) \in [1 .. n -> Int \X Nat]
    <3>1. /\ d \in [1 .. n -> 1 .. n]
          /\ MergeRound(r.data, w, reverse) = [p \in 1 .. n |-> items[d[p]]]
      BY <2>3, Zenon DEF Arranges
    <3>2. \A p \in 1 .. n : items[p] \in Int \X Nat
      OBVIOUS
    <3> HIDE DEF n
    <3>3. \A p \in 1 .. n : items[d[p]] \in Int \X Nat
      BY <3>1, <3>2
    <3> QED
      BY <3>1, <3>3
  <2>5. x.data = MergeRound(r.data, w, reverse) /\ x.width = 2 * w
    BY <2>1
  <2>6. x \in [data : [1 .. n -> Int \X Nat], width : Nat \ {0}]
    <3>1. 2 * w \in Nat \ {0}
      OBVIOUS
    <3>2. x = [data |-> MergeRound(r.data, w, reverse), width |-> 2 * w]
      BY <2>1, Zenon
    <3> HIDE DEF x, n
    <3> QED
      BY <2>4, <3>1, <3>2
  <2>7. NextRound(items, reverse, r) = x
    BY <1>2, Zenon DEF NextRound
  <2> HIDE DEF x, n
  <2>8. \E c2 : Arranges(items, c2, x.data, n) /\ Runs(items, c2, n, x.width, reverse)
    BY <2>3, <2>5, Zenon
  <2>9. x \in States(items, reverse)
    BY <2>6, <2>8, Zenon DEF States, n
  <2> QED
    BY <2>7, <2>9, Zenon
<1> QED
  BY <1>1, <1>2

\* The loop starts with the items.
LEMMA LoopFirst ==
    ASSUME NEW items, NEW reverse, NEW run
    PROVE  LoopBody(items, reverse, run, 0) = [data |-> items, width |-> 1]
<1> DEFINE first == [data |-> items, width |-> 1]
           A == run[0 - 1]
           B == [data |-> MergeRound(run[0 - 1].data, run[0 - 1].width, reverse), width |-> 2 * run[0 - 1].width]
           P == run[0 - 1].width >= Len(items)
<1>1. LoopBody(items, reverse, run, 0) = CASE 0 = 0 -> first [] 0 > 0 /\ P -> A [] OTHER -> B
  BY Zenon DEF LoopBody
<1>2. ~(0 > 0)
  OBVIOUS
<1> HIDE DEF first, A, B, P
<1>3. LoopBody(items, reverse, run, 0) = first
  BY <1>1, <1>2
<1> QED
  BY <1>3 DEF first

\* There is a function of the loop.
LEMMA LoopExists ==
    ASSUME NEW items \in Seq(Int \X Nat), NEW reverse \in BOOLEAN
    PROVE  \E run : Loops(items, reverse, run)
<1> DEFINE S == States(items, reverse)
           first == [data |-> items, width |-> 1]
           step == [k \in Nat |-> [r \in S |-> NextRound(items, reverse, r)]]
<1>1. first \in S
  BY LoopStarts
<1>2. step \in [Nat -> [S -> S]]
  BY LoopGoesOn, Zenon
<1> HIDE DEF S, step
<1>3. PICK f \in [Nat -> S] : Follows(f, first, step)
  BY <1>1, <1>2, Recursion, Zenon
<1>4. ASSUME NEW k \in Nat PROVE f[k] = LoopBody(items, reverse, f, k)
  <2>1. CASE k = 0
    BY <1>3, <2>1, LoopFirst, Zenon DEF Follows
  <2>2. CASE k # 0
    <3>1. PICK m \in Nat : k = m + 1 /\ m = k - 1 /\ k > 0
      <4>1. k - 1 \in Nat /\ k = (k - 1) + 1 /\ k > 0
        BY <2>2
      <4> QED
        BY <4>1
    <3>2. f[k] = step[m][f[m]] /\ f[m] \in S
      BY <1>3, <3>1, Zenon DEF Follows
    <3>3. f[k] = NextRound(items, reverse, f[m])
      BY <3>2, Zenon DEF step
    <3>4. LoopBody(items, reverse, f, k) = NextRound(items, reverse, f[m])
      <4>1. CASE f[m].width >= Len(items)
        BY <2>2, <3>1, <4>1 DEF LoopBody, NextRound
      <4>2. CASE ~(f[m].width >= Len(items))
        BY <2>2, <3>1, <4>2 DEF LoopBody, NextRound
      <4> QED
        BY <4>1, <4>2
    <3> QED
      BY <3>3, <3>4, Zenon
  <2> QED
    BY <2>1, <2>2
<1>5. f = [k \in Nat |-> f[k]]
  BY <1>3, Zenon
<1>6. Loops(items, reverse, f)
  BY <1>4, <1>5, Zenon DEF Loops
<1> QED
  BY <1>6, Zenon

\* The rounds of a merge sort, and how they go on.
LEMMA LoopRuns ==
    ASSUME NEW items \in Seq(Int \X Nat), NEW reverse \in BOOLEAN
    PROVE  \E run : /\ MergeSort(items, reverse) = run[Len(items)].data
                    /\ run[0] = [data |-> items, width |-> 1]
                    /\ \A k \in Nat : run[k + 1] = NextRound(items, reverse, run[k])
<1> DEFINE run == CHOOSE f : Loops(items, reverse, f)
<1>1. Loops(items, reverse, run)
  BY LoopExists, Zenon
<1>2. MergeSort(items, reverse) = run[Len(items)].data
  BY Zenon DEF MergeSort, Loops, LoopBody
<1> HIDE DEF run
<1> DEFINE body(k) == LoopBody(items, reverse, run, k)
<1>3. run = [k \in Nat |-> body(k)]
  BY <1>1 DEF Loops
<1> HIDE DEF body
<1>4. \A k \in Nat : run[k] = body(k)
  BY <1>3
<1>5. run[0] = [data |-> items, width |-> 1]
  BY <1>4, LoopFirst DEF body
<1>6. ASSUME NEW m \in Nat PROVE run[m + 1] = NextRound(items, reverse, run[m])
  <2>1. PICK k \in Nat : k = m + 1 /\ m = k - 1 /\ k > 0 /\ k # 0
    OBVIOUS
  <2>2. run[k] = body(k)
    BY <1>4
  <2>3. body(k) = NextRound(items, reverse, run[m])
    <3>1. CASE run[m].width >= Len(items)
      BY <2>1, <3>1 DEF LoopBody, NextRound, body
    <3>2. CASE ~(run[m].width >= Len(items))
      BY <2>1, <3>2 DEF LoopBody, NextRound, body
    <3> QED
      BY <3>1, <3>2
  <2> QED
    BY <2>1, <2>2, <2>3
<1> QED
  BY <1>2, <1>5, <1>6

\* The last round leaves one run.
LEMMA SortEndsInOneRun ==
    ASSUME NEW items \in Seq(Int \X Nat), NEW reverse \in BOOLEAN
    PROVE  \E c : /\ Arranges(items, c, MergeSort(items, reverse), Len(items))
                  /\ \A p \in 1 .. Len(items) - 1 : Ahead(items, c[p], c[p + 1], reverse)
<1> DEFINE n == Len(items)
<1>1. PICK run : /\ MergeSort(items, reverse) = run[n].data
                 /\ run[0] = [data |-> items, width |-> 1]
                 /\ \A k \in Nat : run[k + 1] = NextRound(items, reverse, run[k])
  BY LoopRuns
<1>2. n \in Nat
  OBVIOUS
<1> DEFINE Good(k) == run[k] \in States(items, reverse) /\ (run[k].width >= n \/ run[k].width > k)
           T == {k \in Nat : Good(k)}
<1>3. 0 \in T
  <2>1. run[0] \in States(items, reverse)
    BY <1>1, LoopStarts, Zenon
  <2>2. run[0].width = 1
    BY <1>1
  <2> QED
    BY <2>1, <2>2
<1>4. ASSUME NEW k \in T PROVE k + 1 \in T
  <2>1. k \in Nat /\ Good(k) /\ run[k + 1] = NextRound(items, reverse, run[k])
    BY <1>1
  <2>2. run[k + 1] \in States(items, reverse)
    BY <2>1, LoopGoesOn, Zenon
  <2>3. PICK w \in Nat \ {0} : w = run[k].width
    BY <2>1 DEF States
  <2> HIDE DEF n
  <2>4. CASE w >= n
    <3>1. run[k + 1] = run[k]
      BY <2>1, <2>3, <2>4, Zenon DEF NextRound, n
    <3> QED
      BY <2>1, <2>2, <2>3, <2>4, <3>1
  <2>5. CASE ~(w >= n)
    <3>1. w > k
      BY <2>1, <2>3, <2>5
    <3>2. run[k + 1].width = 2 * w
      BY <2>1, <2>3, <2>5 DEF NextRound, n
    <3>3. run[k + 1].width > k + 1
      BY <2>1, <3>1, <3>2
    <3> QED
      BY <2>1, <2>2, <3>3
  <2> QED
    BY <2>4, <2>5
<1>5. T = Nat
  <2> HIDE DEF T
  <2>1. T \in SUBSET Nat
    BY DEF T
  <2> QED
    BY <1>3, <1>4, <2>1, Induction
<1>6. Good(n)
  <2>1. n \in T
    BY <1>2, <1>5, Zenon
  <2> QED
    BY <2>1
<1>7. PICK w \in Nat \ {0} : w = run[n].width
  BY <1>6 DEF States
<1>8. w >= n
  BY <1>2, <1>6, <1>7
<1>9. PICK c : Arranges(items, c, run[n].data, n) /\ Runs(items, c, n, w, reverse)
  BY <1>6, <1>7, Zenon DEF States
<1>10. RunAt(items, c, 0, n, reverse)
  <2>1. RunAt(items, c, AtMost(0 * w, n), AtMost(0 * w + w, n), reverse)
    BY <1>9, Zenon DEF Runs
  <2>2. AtMost(0 * w, n) = 0 /\ AtMost(0 * w + w, n) = n
    <3>1. 0 * w = 0 /\ 0 + w = w
      OBVIOUS
    <3> HIDE DEF n
    <3> QED
      BY <1>2, <1>8, <3>1 DEF AtMost
  <2> QED
    BY <2>1, <2>2, Zenon
<1>11. \A p \in 1 .. n - 1 : Ahead(items, c[p], c[p + 1], reverse)
  <2>1. 0 + 1 = 1
    OBVIOUS
  <2> QED
    BY <1>10, <2>1, Zenon DEF RunAt
<1> QED
  BY <1>1, <1>9, <1>11, Zenon

\* Positions are ahead of one another in one way, and of themselves in none.
LEMMA AheadIsOrder ==
    ASSUME NEW items, NEW reverse \in BOOLEAN, NEW a \in Nat, NEW b \in Nat, NEW m \in Nat,
           Key(items[a]) \in Int, Key(items[b]) \in Int, Key(items[m]) \in Int
    PROVE  /\ ~Ahead(items, a, a, reverse)
           /\ Ahead(items, a, b, reverse) => ~Ahead(items, b, a, reverse)
           /\ Ahead(items, a, b, reverse) /\ Ahead(items, b, m, reverse) => Ahead(items, a, m, reverse)
<1>1. PICK x \in Int, y \in Int, z \in Int : x = Key(items[a]) /\ y = Key(items[b]) /\ z = Key(items[m])
  OBVIOUS
<1> DEFINE Is(u, i, v, j) == (IF reverse THEN u > v ELSE u < v) \/ (u = v /\ i < j)
<1>2. /\ Ahead(items, a, a, reverse) <=> Is(x, a, x, a)
      /\ Ahead(items, a, b, reverse) <=> Is(x, a, y, b)
      /\ Ahead(items, b, a, reverse) <=> Is(y, b, x, a)
      /\ Ahead(items, b, m, reverse) <=> Is(y, b, z, m)
      /\ Ahead(items, a, m, reverse) <=> Is(x, a, z, m)
  BY <1>1, Zenon DEF Ahead, Before
<1>3. /\ ~Is(x, a, x, a)
      /\ Is(x, a, y, b) => ~Is(y, b, x, a)
      /\ Is(x, a, y, b) /\ Is(y, b, z, m) => Is(x, a, z, m)
  OBVIOUS
<1> HIDE DEF Is
<1> QED
  BY <1>2, <1>3, Zenon

\* Places that are ahead of their neighbours are ahead over any distance.
LEMMA AheadOverDistance ==
    ASSUME NEW n \in Nat, NEW items, NEW reverse \in BOOLEAN, \A q \in 1 .. n : Key(items[q]) \in Int,
           NEW c \in [1 .. n -> 1 .. n], \A p \in 1 .. n - 1 : Ahead(items, c[p], c[p + 1], reverse),
           NEW p \in 1 .. n, NEW q \in 1 .. n, p < q
    PROVE  Ahead(items, c[p], c[q], reverse)
<1> DEFINE T == {k \in Nat : (p + 1) + k <= n => Ahead(items, c[p], c[(p + 1) + k], reverse)}
<1>1. 0 \in T
  <2>1. p \in 1 .. n - 1 /\ (p + 1) + 0 = p + 1
    OBVIOUS
  <2>2. Ahead(items, c[p], c[p + 1], reverse)
    BY <2>1
  <2> QED
    BY <2>1, <2>2
<1>2. ASSUME NEW k \in T PROVE k + 1 \in T
  <2> SUFFICES ASSUME (p + 1) + (k + 1) <= n PROVE Ahead(items, c[p], c[(p + 1) + (k + 1)], reverse)
    OBVIOUS
  <2>1. PICK s \in 1 .. n - 1 : s = (p + 1) + k /\ s + 1 = (p + 1) + (k + 1) /\ s + 1 \in 1 .. n /\ s \in 1 .. n
    <3>1. (p + 1) + k \in 1 .. n - 1 /\ ((p + 1) + k) + 1 = (p + 1) + (k + 1)
      OBVIOUS
    <3>2. \A s \in 1 .. n - 1 : s + 1 \in 1 .. n /\ s \in 1 .. n
      OBVIOUS
    <3> QED
      BY <3>1, <3>2, Zenon
  <2>2. Ahead(items, c[p], c[s], reverse)
    <3>1. (p + 1) + k <= n
      BY <2>1
    <3> QED
      BY <2>1, <3>1
  <2>3. Ahead(items, c[s], c[s + 1], reverse)
    BY <2>1
  <2>4. PICK x \in 1 .. n, y \in 1 .. n, z \in 1 .. n : x = c[p] /\ y = c[s] /\ z = c[s + 1]
    BY <2>1
  <2>5. x \in Nat /\ y \in Nat /\ z \in Nat
    OBVIOUS
  <2>6. Ahead(items, x, y, reverse) /\ Ahead(items, y, z, reverse)
    BY <2>2, <2>3, <2>4, Zenon
  <2>7. Ahead(items, x, z, reverse)
    BY <2>5, <2>6, AheadIsOrder, Zenon
  <2> QED
    BY <2>1, <2>4, <2>7, Zenon
<1>3. T = Nat
  <2> HIDE DEF T
  <2>1. T \in SUBSET Nat
    BY DEF T
  <2> QED
    BY <1>1, <1>2, <2>1, Induction
<1>4. PICK k \in Nat : q = (p + 1) + k
  <2>1. q - p - 1 \in Nat /\ q = (p + 1) + (q - p - 1)
    OBVIOUS
  <2> QED
    BY <2>1
<1>5. k \in T
  BY <1>3, Zenon
<1>6. (p + 1) + k <= n
  BY <1>4
<1>7. Ahead(items, c[p], c[(p + 1) + k], reverse)
  BY <1>5, <1>6
<1> QED
  BY <1>4, <1>7, Zenon

\* The positions of items, every one ahead of those at later places.
AllAhead(items, c, n, reverse) ==
    /\ n \in Nat /\ c \in [1 .. n -> 1 .. n]
    /\ \A q \in 1 .. n : Key(items[q]) \in Int
    /\ \A p, q \in 1 .. n : p < q => Ahead(items, c[p], c[q], reverse)

\* So the positions are all different, and each is at some place.
LEMMA AheadMeetsAll ==
    ASSUME NEW n, NEW items, NEW reverse \in BOOLEAN, NEW c, AllAhead(items, c, n, reverse)
    PROVE  /\ \A p, q \in 1 .. n : c[p] = c[q] => p = q
           /\ \A b \in 1 .. n : \E p \in 1 .. n : c[p] = b
<1>0. /\ n \in Nat /\ c \in [1 .. n -> 1 .. n]
      /\ \A q \in 1 .. n : Key(items[q]) \in Int
      /\ \A p, q \in 1 .. n : p < q => Ahead(items, c[p], c[q], reverse)
  BY DEF AllAhead
<1>1. \A p \in 1 .. n : c[p] \in Nat /\ Key(items[c[p]]) \in Int
  BY <1>0
<1>2. \A p, q \in 1 .. n : c[p] = c[q] => ~(p < q)
  BY <1>0, <1>1, AheadIsOrder, Zenon
<1>3. \A p, q \in 1 .. n : c[p] = c[q] => p = q
  BY <1>0, <1>2
<1>4. IsFiniteSet(1 .. n)
  <2>1. 1 \in Int /\ n \in Int
    BY <1>0
  <2> QED
    BY <2>1, FS_Interval, Zenon
<1>5. c \in Injection(1 .. n, 1 .. n)
  BY <1>0, <1>3, Zenon DEF Injection, IsInjective
<1>6. c \in Surjection(1 .. n, 1 .. n)
  BY <1>4, <1>5, FS_Injection, Zenon
<1>7. \A b \in 1 .. n : \E p \in 1 .. n : c[p] = b
  BY <1>6, Zenon DEF Surjection
<1> QED
  BY <1>3, <1>7

\* As many positions are ahead of that of a place as there are places before it.
LEMMA PlaceIsRank ==
    ASSUME NEW n, NEW items, NEW reverse \in BOOLEAN, NEW c, AllAhead(items, c, n, reverse),
           NEW m \in 1 .. n
    PROVE  Cardinality({q \in 1 .. n : Ahead(items, q, c[m], reverse)}) = m - 1
<1> DEFINE Q == {q \in 1 .. n : Ahead(items, q, c[m], reverse)}
           S == 1 .. m - 1
           f == [k \in S |-> c[k]]
<1>0. /\ n \in Nat /\ c \in [1 .. n -> 1 .. n]
      /\ \A q \in 1 .. n : Key(items[q]) \in Int
      /\ \A p, q \in 1 .. n : p < q => Ahead(items, c[p], c[q], reverse)
  BY DEF AllAhead
<1>1. /\ \A p, q \in 1 .. n : c[p] = c[q] => p = q
      /\ \A b \in 1 .. n : \E p \in 1 .. n : c[p] = b
  BY AheadMeetsAll
<1>2. \A k \in S : k \in 1 .. n /\ k < m
  BY <1>0
<1>3. \A p \in 1 .. n : c[p] \in 1 .. n /\ c[p] \in Nat /\ Key(items[c[p]]) \in Int
  BY <1>0
<1>4. \A k \in S : c[k] \in Q
  BY <1>0, <1>2, <1>3, Zenon
<1>5. ASSUME NEW b \in Q PROVE \E k \in S : c[k] = b
  <2>1. PICK p \in 1 .. n : c[p] = b
    BY <1>1, Zenon
  <2>2. Ahead(items, c[p], c[m], reverse)
    BY <2>1, Zenon
  <2>3. ~(m < p) /\ m # p
    <3>1. ~Ahead(items, c[m], c[p], reverse) /\ c[m] # c[p]
      <4>1. /\ c[p] \in Nat /\ c[m] \in Nat
            /\ Key(items[c[p]]) \in Int /\ Key(items[c[m]]) \in Int
        BY <1>3
      <4>2. ~Ahead(items, c[m], c[p], reverse) /\ ~Ahead(items, c[p], c[p], reverse)
        BY <2>2, <4>1, AheadIsOrder, Zenon
      <4> QED
        BY <2>2, <4>2, Zenon
    <3> QED
      BY <1>0, <3>1, Zenon
  <2>4. p \in S
    BY <1>0, <2>3
  <2> QED
    BY <2>1, <2>4, Zenon
<1>6. IsFiniteSet(S) /\ Cardinality(S) = m - 1
  <2>1. 1 \in Int /\ m - 1 \in Int
    BY <1>0
  <2>2. /\ IsFiniteSet(S)
        /\ Cardinality(S) = IF 1 > m - 1 THEN 0 ELSE (m - 1) - 1 + 1
    BY <2>1, FS_Interval, Zenon
  <2>3. (IF 1 > m - 1 THEN 0 ELSE (m - 1) - 1 + 1) = m - 1
    BY <1>0
  <2> QED
    BY <2>2, <2>3
<1>7. f \in Bijection(S, Q)
  <2>1. \A k \in S : f[k] = c[k]
    OBVIOUS
  <2>2. f \in [S -> Q]
    BY <1>4, Zenon
  <2> HIDE DEF f, S, Q
  <2>3. f \in Injection(S, Q)
    BY <1>1, <1>2, <2>1, <2>2, Zenon DEF Injection, IsInjective
  <2>4. f \in Surjection(S, Q)
    BY <1>5, <2>1, <2>2, Zenon DEF Surjection
  <2> QED
    BY <2>3, <2>4 DEF Bijection
<1> HIDE DEF f, S, Q
<1>8. ExistsBijection(S, Q)
  BY <1>7, Zenon DEF ExistsBijection
<1>9. Cardinality(Q) = Cardinality(S)
  BY <1>6, <1>8, FS_Bijection, Zenon
<1> QED
  BY <1>6, <1>9, Zenon DEF Q

\* Positions in which every later one follows every earlier one list the
\* stable sort: the rank of a position is the place it has.
LEMMA AllAheadIsStable ==
    ASSUME NEW items, NEW reverse \in BOOLEAN, NEW c, NEW n,
           AllAhead(items, c, n, reverse), DOMAIN items = 1 .. n
    PROVE  [p \in 1 .. n |-> items[c[p]]] = StableSort(items, reverse)
<1>2. n \in Nat /\ \A m \in 1 .. n : c[m] \in 1 .. n
  BY DEF AllAhead
<1>5. /\ \A p, q \in 1 .. n : c[p] = c[q] => p = q
      /\ \A b \in 1 .. n : \E p \in 1 .. n : c[p] = b
  BY AheadMeetsAll
<1> DEFINE D == DOMAIN items
           rank(p) == 1 + Cardinality({q \in D : Ahead(items, q, p, reverse)})
           at(r) == CHOOSE p \in D : rank(p) = r
<1>9. D = 1 .. n
  OBVIOUS
<1>4. \A m \in 1 .. n : rank(c[m]) = m
  <2> TAKE m \in 1 .. n
  <2>1. Cardinality({q \in 1 .. n : Ahead(items, q, c[m], reverse)}) = m - 1
    BY PlaceIsRank
  <2>2. 1 + (m - 1) = m
    OBVIOUS
  <2> QED
    BY <1>9, <2>1, <2>2, Zenon
<1>6. StableSort(items, reverse) = [r \in D |-> items[at(r)]]
  BY Zenon DEF StableSort
<1> HIDE DEF rank, D
<1>7. ASSUME NEW r \in 1 .. n PROVE at(r) = c[r]
  <2>1. c[r] \in 1 .. n /\ rank(c[r]) = r
    BY <1>2, <1>4
  <2>2. ASSUME NEW p \in 1 .. n, rank(p) = r PROVE p = c[r]
    <3>1. PICK m \in 1 .. n : c[m] = p
      BY <1>5, Zenon
    <3>2. m = r
      BY <1>4, <2>2, <3>1, Zenon
    <3> QED
      BY <3>1, <3>2, Zenon
  <2>3. at(r) \in 1 .. n /\ rank(at(r)) = r
    BY <1>9, <2>1, Zenon
  <2> HIDE DEF at
  <2> QED
    BY <2>2, <2>3, Zenon
<1> HIDE DEF at
<1> QED
  BY <1>6, <1>7, <1>9

\* What is arranged in that order is the stable sort.
LEMMA ArrangedIsStable ==
    ASSUME NEW items \in Seq(Int \X Nat), NEW reverse \in BOOLEAN, NEW c, NEW data,
           Arranges(items, c, data, Len(items)),
           \A p \in 1 .. Len(items) - 1 : Ahead(items, c[p], c[p + 1], reverse)
    PROVE  data = StableSort(items, reverse)
<1>1. PICK n \in Nat : n = Len(items) /\ DOMAIN items = 1 .. n
  OBVIOUS
<1>2. /\ c \in [1 .. n -> 1 .. n] /\ data = [p \in 1 .. n |-> items[c[p]]]
      /\ \A q \in 1 .. n : Key(items[q]) \in Int
      /\ \A p \in 1 .. n - 1 : Ahead(items, c[p], c[p + 1], reverse)
  BY <1>1, Zenon DEF Arranges
<1>3. \A p, q \in 1 .. n : p < q => Ahead(items, c[p], c[q], reverse)
  BY <1>2, AheadOverDistance
<1>4. AllAhead(items, c, n, reverse)
  BY <1>2, <1>3, Zenon DEF AllAhead
<1>5. [p \in 1 .. n |-> items[c[p]]] = StableSort(items, reverse)
  BY <1>1, <1>4, AllAheadIsStable, SMTT(30)
<1> QED
  BY <1>2, <1>5, Zenon

\* The merge sort is the stable sort, whatever the items and the direction.
LEMMA MergeSortIsStable ==
    ASSUME NEW items \in Seq(Int \X Nat), NEW reverse \in BOOLEAN
    PROVE  MergeSort(items, reverse) = StableSort(items, reverse)
<1>1. PICK c : /\ Arranges(items, c, MergeSort(items, reverse), Len(items))
               /\ \A p \in 1 .. Len(items) - 1 : Ahead(items, c[p], c[p + 1], reverse)
  BY SortEndsInOneRun, Zenon
<1> QED
  BY <1>1, ArrangedIsStable

\* Whatever the items and the direction: sort.merge orders them by key, and
\* items of one key keep their order, in both directions.
THEOREM SortsStand == Spec => []MergeStable
<1>1. TaskInv => MergeStable
  <2> SUFFICES ASSUME TaskInv, Done("sort")
               PROVE  MergeSort(task.items, task.reverse) = StableSort(task.items, task.reverse)
    BY DEF MergeStable
  <2>1. task.items \in Seq(Int \X Nat) /\ task.reverse \in BOOLEAN
    BY SortArguments, Zenon DEF TaskInv, Done
  <2> QED
    BY <2>1, MergeSortIsStable
<1> QED
  BY <1>1, TaskKept, PTL
-----------------------------------------------------------------------------
(* Protocol 2.                                                             *)

\* Whatever the value and the wire, and whatever the limit of values: a value is
\* written exactly when all of it is writable and no deeper than allowed, what
\* is written is read back as the same value exactly when the limit admits it,
\* and any wire that is accepted is the one the writer makes of what was read.
THEOREM ProtocolStands == Spec => []ProtocolCanonical
<1>1. TaskInv => ProtocolCanonical
  <2> SUFFICES ASSUME TaskInv
               PROVE  ProtocolCanonical
    OBVIOUS
  <2>1. ASSUME Done("value") PROVE ReadsBack(task.value, task.max)
    <3>1. IsValue(task.value) /\ task.max \in Nat
      BY <2>1, ProtocolArguments, Zenon DEF TaskInv, Done
    <3> QED
      BY <3>1, ValueReadsBack
  <2>2. ASSUME Done("wire") PROVE OneForm(task.data, task.max)
    <3>1. task.data \in Seq(Nat) /\ task.max \in Nat
      BY <2>2, ProtocolArguments, Zenon DEF TaskInv, Done
    <3> QED
      BY <3>1, WireHasOneForm
  <2> QED
    BY <2>1, <2>2 DEF ProtocolCanonical
<1> QED
  BY <1>1, TaskKept, PTL
=============================================================================
