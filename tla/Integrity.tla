----------------------------- MODULE Integrity -----------------------------
(***************************************************************************)
(* Merkle tree, Reed-Solomon code and IntegritySystem,                     *)
(* rust-core/src/omega/integrity.rs.  A hash is a term: a leaf, or the     *)
(* pair that was hashed.  The code is RS(255, 223) over GF(256); the field *)
(* and the redundancy are parameters.  A codeword is a function on         *)
(* 0..N-1, a polynomial a function on its exponents.                       *)
(***************************************************************************)
EXTENDS Naturals, Sequences, FiniteSets, Functions, BinaryField

CONSTANTS
    PrimPoly,       \* GF_PRIM_POLY; 0x11D in the code
    Parity,         \* RS_PARITY; 32 in the code
    Messages,       \* the data a stripe may hold
    Leaves,         \* digests of blocks
    MaxBlocks,      \* bound: blocks of a system
    Places,         \* bound: the positions that may be erased
    Noise           \* bound: what may stand at an erased position

N == Size - 1
K == N - Parity

-----------------------------------------------------------------------------
(* Gf256, by tables *)

Exp[i \in 0..(N - 1)] ==
    IF i = 0 THEN 1
    ELSE LET x == 2 * Exp[i - 1] IN
         IF x > N THEN (x - Size) ++ (PrimPoly - Size) ELSE x

Log == [x \in 1..N |-> CHOOSE i \in 0..(N - 1) : Exp[i] = x]

\* pow(2, i)
Alpha(i) == Exp[i % N]

Mul(x, y) == IF x = 0 \/ y = 0 THEN 0 ELSE Alpha(Log[x] + Log[y])
a ** b == Mul(a, b)
Inv(x) == Alpha(N - Log[x])

\* What it means for the polynomial to be primitive: the powers of 2 are all
\* symbols but 0, and multiplying them is linear.
ASSUME PrimitiveAssumption ==
    /\ Exp \in [0..(N - 1) -> Symbols \ {0}]
    /\ \A x \in 1..N : \E i \in 0..(N - 1) : Exp[i] = x
    /\ \A i, j \in 0..(N - 1) : Exp[i] = Exp[j] => i = j
    /\ \A a, b, c \in Symbols : a ** (b ++ c) = (a ** b) ++ (a ** c)

ASSUME IntegrityAssumption ==
    /\ Parity \in 1..(N - 1)
    /\ Messages \subseteq [0..(K - 1) -> Symbols]
    /\ Places \subseteq 0..(N - 1) /\ Noise \subseteq Symbols

-----------------------------------------------------------------------------
(* RsCodec *)

\* The product of (x + Alpha(k)) for k in 1..i.
Generator[i \in 0..Parity] ==
    IF i = 0 THEN [j \in 0..Parity |-> IF j = 0 THEN 1 ELSE 0]
    ELSE LET g == Generator[i - 1] IN
         [j \in 0..Parity |-> (g[j] ** Alpha(i)) ++ (IF j = 0 THEN 0 ELSE g[j - 1])]

\* Long division by the generator, from the exponent K-1 down.  The data
\* stands at the exponents 0..K-1: it is not multiplied by x^Parity first.
Divided(data) ==
    LET g == Generator[Parity]
        D[i \in 0..K] ==
            IF i = K THEN [m \in 0..(N - 1) |-> IF m < K THEN data[m] ELSE 0]
            ELSE LET w == D[i + 1] IN
                 [m \in 0..(N - 1) |->
                     IF m \in i..(i + Parity) THEN w[m] ++ (g[m - i] ** w[i + Parity]) ELSE w[m]]
    IN D[0]

\* encode_parity returns what the division leaves from the exponent K on.
EncodeParity(data) == LET w == Divided(data) IN [m \in K..(N - 1) |-> w[m]]

Encode(data) ==
    LET p == EncodeParity(data) IN [m \in 0..(N - 1) |-> IF m < K THEN data[m] ELSE p[m]]

\* The j-th syndrome over the positions of S.
Syndrome(word, j, S) ==
    SumTo([m \in 1..N |-> IF m - 1 \in S THEN word[m - 1] ** Alpha(j * (m - 1)) ELSE 0], N)

\* decode_with_erasures without erasures only checks.
IsCodeword(word) == \A j \in 1..Parity : Syndrome(word, j, 0..(N - 1)) = 0

\* The linear system of brute_force_erasure_decode: a row for each syndrome, a
\* column for each erasure, and a last column for what the received symbols add
\* up to.
System(word, erased) ==
    LET received == (0..(N - 1)) \ Range(erased)
        e == Len(erased)
    IN [j \in 1..Parity |-> [k \in 1..(e + 1) |->
           IF k > e THEN Syndrome(word, j, received) ELSE Alpha(j * erased[k])]]

Pivots(m, c) == {r \in c..Parity : m[r][c] # 0}

Swapped(m, r, s) == [q \in 1..Parity |-> m[IF q = r THEN s ELSE IF q = s THEN r ELSE q]]

\* One column of the Gaussian elimination.
Eliminated(m, c) ==
    LET pivot == CHOOSE r \in Pivots(m, c) : \A q \in Pivots(m, c) : r <= q
        s == Swapped(m, c, pivot)
        unit == [k \in DOMAIN s[c] |-> s[c][k] ** Inv(s[c][c])]
    IN [r \in 1..Parity |-> [k \in DOMAIN unit |->
           IF r = c THEN unit[k] ELSE s[r][k] ++ (s[r][c] ** unit[k])]]

-----------------------------------------------------------------------------
(* MerkleTree *)

\* One level up; an odd node is paired with itself.
Up(level) ==
    [i \in 1..((Len(level) + 1) \div 2) |->
        <<level[2 * i - 1], IF 2 * i <= Len(level) THEN level[2 * i] ELSE level[2 * i - 1]>>]

\* levels[h]
LevelAt(leaves, h) ==
    LET L[g \in 0..h] == IF g = 0 THEN leaves ELSE Up(L[g - 1]) IN L[h]

\* The levels end with the first that has no two nodes.
Height(leaves) ==
    CHOOSE h \in 0..Len(leaves) :
        /\ Len(LevelAt(leaves, h)) <= 1
        /\ \A g \in 0..(h - 1) : Len(LevelAt(leaves, g)) > 1

Root(leaves) == LevelAt(leaves, Height(leaves))[1]

\* Where leaf i stands, or the node above it, after h halvings.
Ancestor(i, h) == Loop(i, [m \in 1..h |-> [idx \in Nat |-> idx \div 2]], h)

Sibling(level, idx) ==
    IF idx % 2 = 1 THEN level[idx]
    ELSE IF idx + 1 < Len(level) THEN level[idx + 2] ELSE level[idx + 1]

\* The siblings of leaf i (from 0) on the way up.
Proof(leaves, i) ==
    [h \in 1..Height(leaves) |-> Sibling(LevelAt(leaves, h - 1), Ancestor(i, h - 1))]

\* Mutant of Climb: the sibling is always taken to be on the right.
ClimbRight(leaf, i, proof) ==
    LET C[h \in 0..Len(proof)] == IF h = 0 THEN leaf ELSE <<C[h - 1], proof[h]>>
    IN C[Len(proof)]

Climb(leaf, i, proof) ==
    LET C[h \in 0..Len(proof)] ==
            IF h = 0 THEN leaf
            ELSE IF Ancestor(i, h - 1) % 2 = 0 THEN <<C[h - 1], proof[h]>>
            ELSE <<proof[h], C[h - 1]>>
    IN C[Len(proof)]

VerifyProof(root, leaf, i, proof) == Climb(leaf, i, proof) = root

-----------------------------------------------------------------------------
(* A system under construction, and a call of decode_with_erasures *)

VARIABLES
    blocks,         \* the digests a tree will be built from
    stripe,         \* the codeword of the system built last, <<>> before that
    decoding,       \* the codeword sent, the word it has become, its erasures
    aug,            \* the augmented matrix of the decoder, <<>> when none runs
    col             \* the columns eliminated so far

repairVars == <<blocks, stripe, decoding, aug, col>>

NotDecoding == [sent |-> <<>>, word |-> <<>>, erased |-> <<>>]

RepairInit == blocks = <<>> /\ stripe = <<>> /\ decoding = NotDecoding /\ aug = <<>> /\ col = 0

AddBlock(leaf) ==
    /\ decoding = NotDecoding
    /\ Len(blocks) < MaxBlocks
    /\ blocks' = Append(blocks, leaf)
    /\ UNCHANGED <<stripe, decoding, aug, col>>

\* IntegritySystem::build: the bytes of the root are the data of a stripe.
Build(data) ==
    /\ blocks # <<>>
    /\ stripe' = Encode(data)
    /\ blocks' = <<>>
    /\ UNCHANGED <<decoding, aug, col>>

\* The messages with their parity as the parity equations define it.
Codewords ==
    {w \in {[m \in 0..(N - 1) |-> IF m < K THEN data[m] ELSE p[m]] :
                data \in Messages, p \in [K..(N - 1) -> Symbols]} : IsCodeword(w)}

\* decode_with_erasures on a codeword in which something else stands at the
\* erased positions.
Decode(sent, erased, x) ==
    /\ decoding = NotDecoding /\ blocks = <<>>
    /\ LET word == [i \in 0..(N - 1) |-> IF i \in Range(erased) THEN x ELSE sent[i]] IN
       /\ decoding' = [sent |-> sent, word |-> word, erased |-> erased]
       /\ aug' = System(word, erased)
    /\ UNCHANGED <<blocks, stripe, col>>

\* A position named twice leaves a column without a pivot: an error.
EliminateColumn ==
    /\ decoding # NotDecoding
    /\ col < Len(decoding.erased)
    /\ Pivots(aug, col + 1) # {}
    /\ aug' = Eliminated(aug, col + 1)
    /\ col' = col + 1
    /\ UNCHANGED <<blocks, stripe, decoding>>

\* The lists of positions that may be erased.
Erasures == UNION {[1..e -> Places] : e \in 1..Parity}

RepairNext ==
    \/ \E leaf \in Leaves : AddBlock(leaf)
    \/ \E data \in Messages : Build(data)
    \/ \E sent \in Codewords, erased \in Erasures, x \in Noise : Decode(sent, erased, x)
    \/ EliminateColumn

RepairSpec == RepairInit /\ [][RepairNext]_repairVars

-----------------------------------------------------------------------------
\* What the decoder writes back when it has come to its end.
Decoded ==
    [i \in 0..(N - 1) |->
        IF i \in Range(decoding.erased)
        THEN aug[CHOOSE k \in DOMAIN decoding.erased : decoding.erased[k] = i][Len(decoding.erased) + 1]
        ELSE decoding.word[i]]

\* A codeword is repaired wherever it was damaged, for as many erasures as
\* there are parity symbols; the decoder gives up only when a position is
\* named twice ("We have 32 parity-check equations and `e` unknowns. For
\* `e <= 32` we can solve", integrity.rs).
ErasuresRepaired ==
    decoding # NotDecoding =>
        /\ col = Len(decoding.erased) => Decoded = decoding.sent
        /\ IsInjective(decoding.erased) =>
               col = Len(decoding.erased) \/ Pivots(aug, col + 1) # {}

\* The proof of a block shows that block to be at its place, and no other
\* block, whatever the shape of the tree (merkle_bad_proof_rejected).
ProofsLocate ==
    blocks # <<>> =>
        \A i \in 0..(Len(blocks) - 1), leaf \in Leaves :
            VerifyProof(Root(blocks), leaf, i, Proof(blocks, i)) <=> leaf = blocks[i + 1]

\* A system verifies when nothing touched it ("The parity is
\* `(data * x^PARITY) mod g(x)`", integrity.rs).
FreshVerifies == stripe # <<>> => IsCodeword(stripe)

\* Damage that is named is repaired, and damage to a block is located.
DamageIsHandled == ErasuresRepaired /\ ProofsLocate

=============================================================================
