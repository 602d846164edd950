------------------------------ MODULE KrpLayout ------------------------------
(***************************************************************************)
(* The keyed reversible permutation of UBIN Secure (krp.py): a six-round   *)
(* Feistel network over the smallest even-width power of two that holds    *)
(* the block indices, walked until it lands on an index, and the           *)
(* permutation of complete blocks it induces on a buffer or a file.        *)
(*                                                                         *)
(* The HMAC of a round is a parameter: f[r][x] is the round value for      *)
(* round r and right half x, under one key and one context.  Indices count *)
(* from 0 as in the code, buffers are sequences of bytes.                  *)
(***************************************************************************)
EXTENDS ResumeFormat, Integers

Rounds    == 6
WalkLimit == 128

\* 1 << n.
Shift[n \in Nat] == IF n = 0 THEN 1 ELSE 2 * Shift[n - 1]

\* Exclusive or of two naturals, bit by bit.
Xor[a \in Nat] ==
    [b \in Nat |-> IF a = 0 THEN b
                   ELSE IF b = 0 THEN a
                   ELSE 2 * Xor[a \div 2][b \div 2] + ((a + b) % 2)]

\* Bits of one half: (count - 1).bit_length(), rounded up to an even width of
\* two at least, and halved.
HalfBits(count) ==
    CHOOSE h \in 1 .. count :
        /\ count <= Shift[h] * Shift[h]
        /\ \A k \in 1 .. h - 1 : count > Shift[k] * Shift[k]

\* What one half holds, and what the rounds ask of their values.
Half(half) == 0 .. Shift[half] - 1
RoundValues(f, half) == \A r \in 0 .. Rounds - 1, x \in Half(half) : f[r][x] \in Nat

\* What the network of two such halves maps to itself.
Indices(half) == 0 .. Shift[half] * Shift[half] - 1

\* Mutant: the left half is overwritten instead of combined.
HalvesWithoutXor(index, f, half) ==
    LET pair[r \in 0 .. Rounds] ==
            IF r = 0 THEN <<index \div Shift[half], index % Shift[half]>>
            ELSE LET last == pair[r - 1]
                 IN  <<last[2], f[r - 1][last[2]] % Shift[half]>>
    IN  pair
\* The left and the right half after each round.
Halves(index, f, half) ==
    LET pair[r \in 0 .. Rounds] ==
            IF r = 0 THEN <<index \div Shift[half], index % Shift[half]>>
            ELSE LET last == pair[r - 1]
                 IN  <<last[2], Xor[last[1]][f[r - 1][last[2]] % Shift[half]]>>
    IN  pair

FeistelOnce(index, f, half) ==
    LET last == Halves(index, f, half)[Rounds] IN last[1] * Shift[half] + last[2]

\* Where a walk of at most n steps from v stops: at the first value below
\* count, or at -1 (UbinPermutationError) when the limit comes first.
Walks(count, f) ==
    LET half == HalfBits(count)
        walk[n \in 0 .. WalkLimit] ==
            [v \in Indices(half) |->
                IF n = 0 THEN 0 - 1
                ELSE LET w == FeistelOnce(v, f, half)
                     IN  IF w < count THEN w ELSE walk[n - 1][w]]
    IN  walk

\* The target of a block.
PermutedIndex(index, count, f) ==
    IF count <= 1 THEN index ELSE Walks(count, f)[WalkLimit][index]

\* The targets of all blocks of a buffer of `count` blocks.
Layout(count, f) == [i \in 0 .. count - 1 |-> PermutedIndex(i, count, f)]

\* No walk has met the limit.
Found(target, count) == \A i \in 0 .. count - 1 : target[i] # 0 - 1
-----------------------------------------------------------------------------
(* Buffers.  `target` is the layout of the complete blocks.                *)

Blocks(raw, bs) == Len(raw) \div bs
BlockOf(p, bs)  == (p - 1) \div bs
WithinBlock(p, bs) == (p - 1) % bs
BytePos(b, o, bs)  == b * bs + o + 1

\* permute_blocks: block i moves to target[i]; a short tail stays in place.
\* A position no block moves to keeps the zero of the fresh buffer.
PermuteBlocks(raw, bs, target) ==
    LET n == Blocks(raw, bs)
        From(b) == {i \in 0 .. n - 1 : target[i] = b}
        Latest(S) == CHOOSE i \in S : \A j \in S : j <= i
    IN  IF n <= 1 THEN raw
        ELSE [p \in 1 .. Len(raw) |->
                LET b == BlockOf(p, bs) IN
                IF b >= n THEN raw[p]
                ELSE IF From(b) = {} THEN 0
                ELSE raw[BytePos(Latest(From(b)), WithinBlock(p, bs), bs)]]

\* restore_blocks: block i is read back from target[i].
RestoreBlocks(raw, bs, target) ==
    LET n == Blocks(raw, bs)
    IN  IF n <= 1 THEN raw
        ELSE [p \in 1 .. Len(raw) |->
                IF BlockOf(p, bs) >= n THEN raw[p]
                ELSE raw[BytePos(target[BlockOf(p, bs)], WithinBlock(p, bs), bs)]]
-----------------------------------------------------------------------------
(* Files.  The output is cut to the size of the source (all holes), blocks *)
(* are copied one by one with positioned reads and writes, then the tail.  *)

\* The output after each block: the next one is read as block from[i] of the
\* source and written as block to[i], and the file keeps its size.
Copied(source, bs, from, to) ==
    LET out[n \in 0 .. Blocks(source, bs)] ==
            IF n = 0 THEN [p \in 1 .. Len(source) |-> 0]
            ELSE LET block == ReadAt(source, from[n - 1] * bs, bs)
                 IN  TruncateTo(WriteAt(out[n - 1], to[n - 1] * bs, block, 0), Len(source))
    IN  out

CopyBlocks(source, bs, from, to) ==
    LET n == Blocks(source, bs)
    IN  WriteAt(Copied(source, bs, from, to)[n], n * bs,
                ReadAt(source, n * bs, Len(source) - n * bs), 0)

InOrder(n) == [i \in 0 .. n - 1 |-> i]

PermuteFile(source, bs, target) ==
    CopyBlocks(source, bs, InOrder(Blocks(source, bs)), target)
RestoreFile(source, bs, target) ==
    CopyBlocks(source, bs, target, InOrder(Blocks(source, bs)))
=============================================================================
