------------------------------- MODULE Shamir -------------------------------
(***************************************************************************)
(* Shamir's secret sharing, rust-core/src/fde/shamir.rs, with the commands *)
(* that write and read share files (fde init --anti-forensic, split-key    *)
(* and recover-key of rust-core/src/main.rs), and the second               *)
(* implementation, rust-core/src/defense/shamir_recovery.rs.  A secret is  *)
(* one symbol, since every byte has a polynomial of its own.               *)
(***************************************************************************)
EXTENDS Naturals, Sequences, FiniteSets, SequencesExt, BinaryField

CONSTANTS
    Poly,           \* the irreducible polynomial; 0x11B in the code
    Secrets,        \* master keys
    Draws,          \* bound: what the random coefficients may be
    MaxShares,      \* bound: shares of a split
    MaxSplits       \* bound: splits into the directory

-----------------------------------------------------------------------------
(* The field *)

Twice(a) == IF 2 * a >= Size THEN (2 * a - Size) ++ (Poly - Size) ELSE 2 * a

\* gf_mul, with i bits of b left
MulBits[i \in 0..Bits, a \in Symbols, b \in Symbols] ==
    IF i = 0 THEN 0
    ELSE (IF b % 2 = 1 THEN a ELSE 0) ++ MulBits[i - 1, Twice(a), b \div 2]

a ** b == MulBits[Bits, a, b]

\* gf_inv: a ^ (2^Bits - 2), by squaring and multiplying
Climb(a) == Loop(a, [m \in 1..(Bits - 2) |-> [r \in Symbols |-> (r ** r) ** a]], Bits - 2)

\* Mutant of Inv: the last squaring is missing.
InvUnsquared == [a \in Symbols |-> Climb(a)]

Inv == [a \in Symbols |-> Climb(a) ** Climb(a)]

\* a ^ n
GfPower(a, n) == Loop(1, [m \in 1..n |-> [acc \in Symbols |-> acc ** a]], n)

\* What it means for the polynomial to be irreducible: the multiplication is that
\* of a field, in which Fermat's little theorem holds.
ASSUME FieldAssumption ==
    /\ \A a, b \in Symbols : a ** b \in Symbols /\ a ** b = b ** a
    /\ \A a, b, c \in Symbols : (a ** b) ** c = a ** (b ** c)
    /\ \A a, b, c \in Symbols : a ** (b ++ c) = (a ** b) ++ (a ** c)
    /\ \A a \in Symbols : 1 ** a = a
    /\ \A a \in Symbols \ {0} : GfPower(a, Size - 1) = 1

ASSUME ShareAssumption ==
    Secrets \subseteq Symbols /\ Draws \subseteq Symbols /\ MaxShares \in 1..(Size - 1)

-----------------------------------------------------------------------------
(* split_secret and combine_shares; a share is [index, y] *)

\* Horner's rule, from the highest coefficient down.
EvalPoly(coeffs, x) ==
    Loop(0, [m \in 1..Len(coeffs) |-> [acc \in Symbols |-> (acc ** x) ++ coeffs[Len(coeffs) + 1 - m]]],
         Len(coeffs))

ThresholdOK(k, n) == k \in 2..(Size - 1) /\ k <= n

SplitSecret(secret, draws, n) ==
    [i \in 1..n |-> [index |-> i, y |-> EvalPoly(<<secret>> \o draws, i)]]

\* The product of the first n values of f without the i-th.
ProductBut(f, n, i) ==
    Loop(1, [m \in 1..n |-> [acc \in Symbols |-> IF m = i THEN acc ELSE acc ** f[m]]], n)

Basis(shares, i) ==
    LET n == Len(shares)
        num == ProductBut([j \in 1..n |-> shares[j].index], n, i)
        den == ProductBut([j \in 1..n |-> shares[j].index ++ shares[i].index], n, i)
    IN num ** Inv[den]

Interpolated(shares) ==
    SumTo([i \in DOMAIN shares |-> Basis(shares, i) ** shares[i].y], Len(shares))

CombineOK(shares) ==
    /\ shares # <<>>
    /\ \A i \in DOMAIN shares : shares[i].index # 0
    /\ \A i, j \in DOMAIN shares : shares[i].index = shares[j].index => i = j

\* reconstruct of the second implementation: the first k shares, and every
\* quotient inverted by itself.  Two shares of one index stop it by an assertion.
Reconstruct(shares, k) ==
    LET Factor(i, j) == shares[j].index ** Inv[shares[j].index ++ shares[i].index]
    IN SumTo([i \in 1..k |->
           shares[i].y ** ProductBut([j \in 1..k |-> Factor(i, j)], k, i)], k)

-----------------------------------------------------------------------------
(* The commands and the directory of the share files *)

NoShare == [index |-> 0, y |-> 0, split |-> 0]
Torn == [index |-> 0, y |-> 1, split |-> 0]
NoKey == Size

VARIABLES
    splits,         \* the splits begun
    dir,            \* the share files
    pending,           \* the shares that the split under way has yet to write
    used,           \* the shares that recover-key was last given
    key             \* and the key it wrote

splitVars == <<splits, dir, pending, used, key>>

ShareInit ==
    /\ splits = <<>> /\ pending = <<>>
    /\ dir = [i \in 1..MaxShares |-> NoShare]
    /\ used = <<>> /\ key = NoKey

\* split-key
Split(secret, draws, n) ==
    /\ pending = <<>> /\ Len(splits) < MaxSplits
    /\ LET k == Len(draws) + 1
           shares == SplitSecret(secret, draws, n)
       IN /\ ThresholdOK(k, n)
          /\ splits' = Append(splits, [secret |-> secret, k |-> k, n |-> n, shares |-> shares])
          /\ pending' = shares
    /\ UNCHANGED <<dir, used, key>>

\* fde init --anti-forensic checks the threshold itself, when the device has been
\* formatted already.
InitSplit(secret, draws, n) ==
    /\ Len(draws) + 1 \in 2..n
    /\ Split(secret, draws, n)

WriteShare ==
    /\ pending # <<>>
    /\ LET share == Head(pending) IN
       dir' = [dir EXCEPT ![share.index] =
                   [index |-> share.index, y |-> share.y, split |-> Len(splits)]]
    /\ pending' = Tail(pending)
    /\ UNCHANGED <<splits, used, key>>

\* The command stops: on a file that it has cut short, or between two.
StopSplit ==
    /\ pending # <<>>
    /\ pending' = <<>>
    /\ dir' \in {dir, [dir EXCEPT ![Head(pending).index] = Torn]}
    /\ UNCHANGED <<splits, used, key>>

\* recover-key with a list of files; Share::from_bytes refuses index 0, and a
\* file cut short has not the length of a share.
RecoverKey(paths) ==
    LET shares == [i \in DOMAIN paths |-> dir[paths[i]]] IN
    /\ pending = <<>>
    /\ \A i \in DOMAIN shares : shares[i] \notin {NoShare, Torn}
    /\ CombineOK(shares)
    /\ used' = shares
    /\ key' = Interpolated(shares)
    /\ UNCHANGED <<splits, dir, pending>>

Paths == UNION {[1..m -> 1..MaxShares] : m \in 1..MaxShares}

ShareNext ==
    \/ \E secret \in Secrets, k \in 2..MaxShares, n \in 2..MaxShares :
           \E draws \in [1..(k - 1) -> Draws] : Split(secret, draws, n) \/ InitSplit(secret, draws, n)
    \/ WriteShare \/ StopSplit
    \/ \E paths \in Paths : RecoverKey(paths)

ShareSpec == ShareInit /\ [][ShareNext]_splitVars

-----------------------------------------------------------------------------
\* As many shares of one split as its threshold, or more, in any order and
\* whatever was split, torn or written over in between, give back its master key
\* with recover-key, and with the second implementation as well ("any k of which
\* can reconstruct the key", fde/shamir.rs).
RecoversMaster ==
    \A s \in DOMAIN splits :
        /\ \A i \in DOMAIN used : used[i].split = s
        /\ Len(used) >= splits[s].k
        => /\ key = splits[s].secret
           /\ Reconstruct(used, splits[s].k) = key

\* One share fewer than the threshold of a split, as it is made, could come from
\* a split of any master key ("k-1 shares reveal nothing", fde/shamir.rs).
TooFewTellNothing ==
    LET split == Last(splits) IN
    pending # <<>> /\ pending = split.shares =>
        \A known \in kSubset(split.k - 1, 1..split.n), secret \in Symbols :
            \E draws \in [1..(split.k - 1) -> Symbols] :
                \A i \in known : EvalPoly(<<secret>> \o draws, i) = split.shares[i].y

\* Enough shares of one split give back the key that was split, and fewer say
\* nothing about it (fde/shamir.rs, split and reconstruct).
SharesExact == RecoversMaster /\ TooFewTellNothing

=============================================================================
