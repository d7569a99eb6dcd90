--------------------------- MODULE ErasureCoding ---------------------------
(***************************************************************************)
(* The erasure coding of rust-core/src/erasure_coding.rs: encode, decode   *)
(* and the sealing of shards, over GF(2^Width).  A shard is sealed with    *)
(* the configuration, its index and the length of the whole; it keeps the  *)
(* index and the length beside the ciphertext, and the configuration and   *)
(* the length stand once more in the set, which nothing seals.             *)
(***************************************************************************)
EXTENDS Naturals, Sequences, FiniteSets, SequencesExt

CONSTANTS
    Width,          \* GF(2^Width); 8 in the code
    Prim,           \* the primitive polynomial; 0x11D in the code
    Configs,        \* the configurations in use: k, m and shard_size
    Plaintexts,     \* sequences of symbols
    Labels,         \* bound: the indices a shard may be filed under
    MaxSets,        \* bound: plaintexts encoded
    MaxDamages      \* bound: shards lost or relabelled

ASSUME PiecesAssumption ==
    /\ Configs \subseteq [k : Nat, m : Nat, size : Nat]
    /\ Plaintexts \subseteq Seq(Nat)
    /\ Labels \subseteq Nat

Order == 2 ^ Width - 1

VARIABLES
    sets,           \* what encode returned, with the plaintext
    pool,           \* the shards that the nodes hold
    damages

piecesVars == <<sets, pool, damages>>

-----------------------------------------------------------------------------
(* Gf, by tables *)

\* a ^ b
Xor[a, b \in 0..(2 * Order + 1)] ==
    IF a = 0 THEN b ELSE 2 * Xor[a \div 2, b \div 2] + ((a + b) % 2)

Exp[i \in 0..(Order - 1)] ==
    IF i = 0 THEN 1
    ELSE LET x == 2 * Exp[i - 1] IN IF x > Order THEN Xor[x, Prim] ELSE x

Log == [x \in 1..Order |-> CHOOSE i \in 0..(Order - 1) : Exp[i] = x]

\* pow(2, n)
Power(n) == Exp[n % Order]
Mul(a, b) == IF a = 0 \/ b = 0 THEN 0 ELSE Power(Log[a] + Log[b])

-----------------------------------------------------------------------------
(* ShardConfig, encode *)

ConfigOK(cfg) == cfg.k > 0 /\ cfg.m > 0 /\ cfg.k + cfg.m <= Order /\ cfg.size > 0

\* The data shards: the plaintext, padded with zeros and cut.
DataShards(plain, cfg) ==
    [j \in 0..(cfg.k - 1) |-> [i \in 1..cfg.size |->
        LET at == j * cfg.size + i IN IF at <= Len(plain) THEN plain[at] ELSE 0]]

\* A symbol of a parity shard.
ParitySum(data, cfg, j, i) ==
    FoldFunctionOnSet(LAMBDA a, b : Xor[a, b], 0,
        [d \in 0..(cfg.k - 1) |-> Mul(Power((j - cfg.k) * d), data[d][i])], 0..(cfg.k - 1))

\* rs_encode_shards: the data as it is, and m sums.
EncodedShards(data, cfg) ==
    [j \in 0..(cfg.k + cfg.m - 1) |->
        IF j < cfg.k THEN data[j] ELSE [i \in 1..cfg.size |-> ParitySum(data, cfg, j, i)]]

\* What is authenticated along with a shard.
Aad(cfg, index, len) == <<cfg, index, len>>

SealShard(cfg, index, piece, len) ==
    [index |-> index, len |-> len, piece |-> piece, aad |-> Aad(cfg, index, len)]

\* Mutant of OpensShard: the place of the shard is not authenticated.
OpensShardAnywhere(cfg, shard) == shard.aad[1] = cfg /\ shard.aad[3] = shard.len

OpensShard(cfg, shard) == shard.aad = Aad(cfg, shard.index, shard.len)

EncodeOK(plain, cfg) == ConfigOK(cfg) /\ Len(plain) <= cfg.k * cfg.size

Encode(plain, cfg) ==
    LET all == EncodedShards(DataShards(plain, cfg), cfg) IN
    [config |-> cfg, len |-> Len(plain),
     shards |-> {SealShard(cfg, j, all[j], Len(plain)) : j \in DOMAIN all}]

-----------------------------------------------------------------------------
(* decode *)

\* The first of the places of S with the lowest index.
Lowest(available, S) ==
    CHOOSE i \in S : \A j \in S :
        \/ available[i].index < available[j].index
        \/ available[i].index = available[j].index /\ i <= j

\* The k shards of lowest index are used, and only they are opened.
Chosen(available, cfg) ==
    LET Rest[p \in 0..cfg.k] ==
            IF p = 0 THEN DOMAIN available ELSE Rest[p - 1] \ {Lowest(available, Rest[p - 1])}
    IN [p \in 1..cfg.k |-> available[Lowest(available, Rest[p - 1])]]

\* rs_decode_shards.  The matrix has a row of powers of 2^index for each shard:
\* it is regular when no index occurs twice.
MatrixRegular(shards) ==
    \A i, j \in DOMAIN shards : shards[i].index = shards[j].index => i = j

DecodeOK(set, available) ==
    /\ Len(available) >= set.config.k
    /\ \A i \in DOMAIN available : available[i].index < set.config.k + set.config.m
    /\ LET chosen == Chosen(available, set.config) IN
       /\ \A i \in DOMAIN chosen : OpensShard(set.config, chosen[i])
       /\ MatrixRegular(chosen)

\* The matrix that was inverted is not applied: the shards chosen stand for the
\* data, cut at the length in the set.
Decode(set, available) ==
    LET chosen == Chosen(available, set.config)
        width == set.config.size
    IN [i \in {j \in 1..(set.config.k * width) : j <= set.len} |->
           chosen[(i - 1) \div width + 1].piece[((i - 1) % width) + 1]]

-----------------------------------------------------------------------------
PiecesInit == sets = <<>> /\ pool = {} /\ damages = 0

EncodeSet(plain, cfg) ==
    /\ Len(sets) < MaxSets /\ EncodeOK(plain, cfg)
    /\ LET set == Encode(plain, cfg) IN
       /\ sets' = Append(sets, [plain |-> plain, set |-> set])
       /\ pool' = pool \cup set.shards
    /\ UNCHANGED damages

Damage(shard, instead) ==
    /\ damages < MaxDamages
    /\ damages' = damages + 1
    /\ pool' = (pool \ {shard}) \cup instead
    /\ UNCHANGED sets

LoseShard(shard) == Damage(shard, {})

\* A shard is filed as another one: its index or its length changed.
Relabel(shard, index, len) == Damage(shard, {[shard EXCEPT !.index = index, !.len = len]})

PiecesNext ==
    \/ \E plain \in Plaintexts, cfg \in Configs : EncodeSet(plain, cfg)
    \/ \E shard \in pool :
           \/ LoseShard(shard)
           \/ \E index \in Labels, len \in {Len(p) : p \in Plaintexts} : Relabel(shard, index, len)

PiecesSpec == PiecesInit /\ [][PiecesNext]_piecesVars

-----------------------------------------------------------------------------
Available(n) == [1..n -> pool]
DataOnly(cfg, chosen) == \A i \in DOMAIN chosen : chosen[i].index < cfg.k

\* Decoding from data shards, in whatever order and with whatever others among
\* them, lost, relabelled or of another plaintext, yields an error, or in every
\* place what stands there in a plaintext encoded with the same configuration;
\* and the plaintext itself when the shards are of its set.
PiecesInPlace ==
    \A s \in DOMAIN sets : LET set == sets[s].set IN
        \A n \in {set.config.k, set.config.k + 1} : \A available \in Available(n) :
            LET chosen == Chosen(available, set.config)
                result == Decode(set, available)
            IN DecodeOK(set, available) /\ DataOnly(set.config, chosen) =>
                 /\ \A i \in DOMAIN result : \E t \in DOMAIN sets :
                        /\ sets[t].set.config = set.config
                        /\ result[i] = IF i <= Len(sets[t].plain) THEN sets[t].plain[i] ELSE 0
                 /\ (\A i \in DOMAIN chosen : chosen[i] \in set.shards) => result = sets[s].plain

\* Any k shards of a set give its plaintext ("The full data is recoverable from
\* any `k` of `n` shards", erasure_coding.rs).
AnyKOfN ==
    \A s \in DOMAIN sets : LET set == sets[s].set IN
        \A available \in [1..set.config.k -> set.shards \cap pool] :
            DecodeOK(set, available) => Decode(set, available) = sets[s].plain

=============================================================================
