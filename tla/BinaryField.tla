----------------------------- MODULE BinaryField -----------------------------
(***************************************************************************)
(* GF(2^Bits) as far as it does not depend on a polynomial: the symbols    *)
(* and their addition, which is ^ on bytes, in fde/shamir.rs,              *)
(* defense/shamir_recovery.rs and omega/integrity.rs of rust-core, with    *)
(* what the proofs about them need.                                        *)
(***************************************************************************)
EXTENDS Integers, Sequences, TLAPS, NaturalsInduction, WellFoundedInduction

CONSTANT Bits       \* the bits of a symbol; 8 in the code

ASSUME BitsAssumption == Bits \in Nat \ {0, 1}

\* A loop over 1..n that starts from init; its body is a function of the round
\* and of what the round before has left.
Loop(init, body, n) ==
    LET After[m \in 0..n] == IF m = 0 THEN init ELSE body[m][After[m - 1]] IN After[n]

\* 2 ^ i
Power2(i) == Loop(1, [m \in 1..i |-> [acc \in Nat |-> 2 * acc]], i)
Size == Power2(Bits)
Symbols == 0..(Size - 1)

\* a ^ b, of the i lowest bits
XorBits[i \in 0..Bits] ==
    IF i = 0 THEN [a \in Symbols |-> [b \in Symbols |-> 0]]
    ELSE [a \in Symbols |-> [b \in Symbols |->
             2 * XorBits[i - 1][a \div 2][b \div 2] + ((a + b) % 2)]]

a ++ b == XorBits[Bits][a][b]

\* The sum of the first n values of f.
SumTo(f, n) == Loop(0, [m \in 1..n |-> [acc \in Symbols |-> acc ++ f[m]]], n)

-----------------------------------------------------------------------------
(* A set of numbers has a least one, a set closed under + 1 holds all      *)
(* numbers, and recursion defines a function.                              *)

LEMMA LeastNumber ==
    ASSUME NEW T, T \subseteq Nat, T # {}
    PROVE  \E x \in T : \A y \in T : x <= y
<1> DEFINE R == {ss \in Nat \X Nat : ss[1] < ss[2]}
<1>1. IsWellFoundedOn(R, Nat)
  BY NatLessThanWellFounded DEF OpToRel
<1> HIDE DEF R
<1>2. PICK x \in T : \A y \in T : ~ (<<y, x>> \in R)
  BY <1>1, WFMin
<1>3. ASSUME NEW y \in T PROVE x <= y
  <2>1. y \in Nat /\ x \in Nat
    OBVIOUS
  <2>2. <<y, x>> \in Nat \X Nat /\ <<y, x>>[1] = y /\ <<y, x>>[2] = x
    BY <2>1
  <2>3. ~(y < x)
    BY <1>2, <2>2 DEF R
  <2> QED
    BY <2>1, <2>3
<1> QED
  BY <1>3

\* What holds of 0, and of n + 1 when it holds of n, holds of every number.
LEMMA AllNumbers ==
    ASSUME NEW T, 0 \in T, \A n \in Nat : n \in T => n + 1 \in T
    PROVE  \A n \in Nat : n \in T
<1> DEFINE Lacking == {n \in Nat : n \notin T}
<1> SUFFICES ASSUME Lacking # {} PROVE FALSE
  OBVIOUS
<1>1. PICK x \in Lacking : \A y \in Lacking : x <= y
  BY LeastNumber
<1>2. x \in Nat /\ x # 0 /\ x \notin T
  OBVIOUS
<1>3. x - 1 \in Nat /\ ~(x <= x - 1) /\ (x - 1) + 1 = x
  BY <1>2
<1>4. x - 1 \in T
  BY <1>1, <1>3
<1>5. (x - 1) + 1 \in T
  BY <1>3, <1>4
<1> QED
  BY <1>2, <1>3, <1>5

\* The value of a recursive function at n.
Recursive(base, step, f, n) == IF n = 0 THEN base ELSE step[n][f[n - 1]]

LEMMA RecursionExists ==
    ASSUME NEW V, NEW base \in V, NEW L \in Nat, NEW step \in [1..L -> [V -> V]]
    PROVE  \E f \in [0..L -> V] : f = [n \in 0..L |-> Recursive(base, step, f, n)]
<1> DEFINE T == {m \in Nat : m <= L => \E f \in [0..m -> V] : \A n \in 0..m : f[n] = Recursive(base, step, f, n)}
<1>1. 0 \in T
  <2> DEFINE f == [n \in 0..0 |-> base]
  <2>1. f \in [0..0 -> V] /\ \A n \in 0..0 : f[n] = Recursive(base, step, f, n)
    BY DEF Recursive
  <2> QED
    BY <2>1
<1>2. ASSUME NEW m \in Nat, m \in T PROVE m + 1 \in T
  <2> SUFFICES ASSUME m + 1 <= L
               PROVE  \E f \in [0..(m + 1) -> V] : \A n \in 0..(m + 1) : f[n] = Recursive(base, step, f, n)
    OBVIOUS
  <2>1. m <= L
    OBVIOUS
  <2>2. PICK f \in [0..m -> V] : \A n \in 0..m : f[n] = Recursive(base, step, f, n)
    BY <1>2, <2>1
  <2>3. m \in 0..m /\ m + 1 \in 1..L
    OBVIOUS
  <2>4. f[m] \in V /\ step[m + 1][f[m]] \in V
    BY <2>3
  <2> DEFINE g == [n \in 0..(m + 1) |-> IF n = m + 1 THEN step[m + 1][f[m]] ELSE f[n]]
  <2>5. g \in [0..(m + 1) -> V]
    BY <2>4
  <2>6. ASSUME NEW n \in 0..(m + 1) PROVE g[n] = Recursive(base, step, g, n)
    <3>1. CASE n = m + 1
      <4>1. n - 1 = m /\ n # 0 /\ m \in 0..(m + 1) /\ m # m + 1
        BY <3>1
      <4>2. g[n] = step[m + 1][f[m]] /\ g[m] = f[m]
        BY <3>1, <4>1
      <4> QED
        BY <3>1, <4>1, <4>2 DEF Recursive
    <3>2. CASE n # m + 1
      <4>1. n \in 0..m /\ g[n] = f[n] /\ f[n] = Recursive(base, step, f, n)
        BY <2>2, <3>2
      <4>2. n # 0 => n - 1 \in 0..(m + 1) /\ n - 1 # m + 1
        BY <3>2
      <4>3. n # 0 => g[n - 1] = f[n - 1]
        BY <4>2
      <4> QED
        BY <4>1, <4>3 DEF Recursive
    <3> QED
      BY <3>1, <3>2
  <2> HIDE DEF g
  <2> QED
    BY <2>5, <2>6
<1> HIDE DEF T
<1>3. L \in T
  BY <1>1, <1>2, AllNumbers
<1>4. PICK f \in [0..L -> V] : \A n \in 0..L : f[n] = Recursive(base, step, f, n)
  BY <1>3 DEF T
<1>5. f = [n \in 0..L |-> f[n]]
  OBVIOUS
<1>6. f = [n \in 0..L |-> Recursive(base, step, f, n)]
  BY <1>4, <1>5
<1> QED
  BY <1>6

-----------------------------------------------------------------------------
(* Loops and the powers of 2. *)

\* What a loop has after m rounds.
LoopsBy(init, body, n, after) ==
    after = [m \in 0..n |-> IF m = 0 THEN init ELSE body[m][after[m - 1]]]

\* The rounds of a loop whose accumulator stays in V.
RoundsIn(body, n, V) == \A m \in 1..n : body[m] \in [V -> V]
SameRounds(shorter, body, n) == \A m \in 1..n : shorter[m] = body[m]

Unfolding(V, init, body, n, after) ==
    after \in [0..n -> V] /\ LoopsBy(init, body, n, after) /\ Loop(init, body, n) = after[n]

LEMMA LoopUnfolds ==
    ASSUME NEW V, NEW init \in V, NEW n \in Nat, NEW body, RoundsIn(body, n, V)
    PROVE  \E after : Unfolding(V, init, body, n, after)
<1> DEFINE b == [m \in 1..n |-> body[m]]
<1>1. b \in [1..n -> [V -> V]]
  BY DEF RoundsIn
<1>2. PICK f \in [0..n -> V] : f = [m \in 0..n |-> Recursive(init, b, f, m)]
  <2> HIDE DEF b
  <2> QED
    BY <1>1, RecursionExists
<1>3. \A m \in 0..n : Recursive(init, b, f, m) = IF m = 0 THEN init ELSE body[m][f[m - 1]]
  BY DEF Recursive
<1>4. LoopsBy(init, body, n, f)
  BY <1>2, <1>3 DEF LoopsBy
<1> DEFINE g == CHOOSE h : LoopsBy(init, body, n, h)
<1>5. LoopsBy(init, body, n, g)
  BY <1>4
<1>6. Loop(init, body, n) = g[n]
  BY DEF Loop, LoopsBy
<1> HIDE DEF g
<1>7. \A m \in 0..n : g[m] = IF m = 0 THEN init ELSE body[m][g[m - 1]]
  BY <1>5 DEF LoopsBy
<1>8. g \in [0..n -> V]
  <2> DEFINE T == {m \in Nat : m <= n => g[m] \in V}
  <2>1. 0 \in T
    <3>1. 0 \in 0..n
      OBVIOUS
    <3> QED
      BY <1>7, <3>1
  <2>2. ASSUME NEW m \in Nat, m \in T PROVE m + 1 \in T
    <3> SUFFICES ASSUME m + 1 <= n PROVE g[m + 1] \in V
      OBVIOUS
    <3>1. m + 1 \in 0..n /\ m + 1 \in 1..n /\ m + 1 # 0 /\ (m + 1) - 1 = m /\ m <= n
      OBVIOUS
    <3>2. g[m] \in V /\ body[m + 1] \in [V -> V]
      BY <2>2, <3>1 DEF RoundsIn
    <3>3. g[m + 1] = body[m + 1][g[m]]
      BY <1>7, <3>1
    <3> QED
      BY <3>2, <3>3
  <2> HIDE DEF T
  <2>3. \A m \in Nat : m \in T
    BY <2>1, <2>2, AllNumbers
  <2>4. \A m \in 0..n : g[m] \in V
    BY <2>3 DEF T
  <2>5. g = [m \in 0..n |-> IF m = 0 THEN init ELSE body[m][g[m - 1]]]
    BY <1>5 DEF LoopsBy
  <2>6. g = [m \in 0..n |-> g[m]]
    BY <2>5
  <2> QED
    BY <2>4, <2>6
<1>9. Unfolding(V, init, body, n, g)
  BY <1>5, <1>6, <1>8 DEF Unfolding
<1> QED
  BY <1>9

LEMMA LoopType ==
    ASSUME NEW V, NEW init \in V, NEW n \in Nat, NEW body, RoundsIn(body, n, V)
    PROVE  Loop(init, body, n) \in V
<1>1. PICK after : Unfolding(V, init, body, n, after)
  BY LoopUnfolds
<1>2. n \in 0..n
  OBVIOUS
<1> QED
  BY <1>1, <1>2 DEF Unfolding

LEMMA LoopZero ==
    ASSUME NEW V, NEW init \in V, NEW body
    PROVE  Loop(init, body, 0) = init
<1>1. RoundsIn(body, 0, V)
  BY DEF RoundsIn
<1>2. PICK after : Unfolding(V, init, body, 0, after)
  BY <1>1, LoopUnfolds
<1>3. 0 \in 0..0
  OBVIOUS
<1>4. after[0] = init
  BY <1>2, <1>3 DEF LoopsBy, Unfolding
<1> QED
  BY <1>2, <1>4 DEF Unfolding

\* One more round.
LEMMA LoopNext ==
    ASSUME NEW V, NEW init \in V, NEW n \in Nat, NEW body, NEW shorter,
           RoundsIn(body, n + 1, V), SameRounds(shorter, body, n)
    PROVE  Loop(init, body, n + 1) = body[n + 1][Loop(init, shorter, n)]
<1>1. PICK f : Unfolding(V, init, body, n + 1, f)
  <2>1. n + 1 \in Nat
    OBVIOUS
  <2> QED
    BY <2>1, LoopUnfolds
<1>2. PICK g : Unfolding(V, init, shorter, n, g)
  <2>1. RoundsIn(shorter, n, V)
    BY DEF RoundsIn, SameRounds
  <2> QED
    BY <2>1, LoopUnfolds
<1>3. \A m \in 0..(n + 1) : f[m] = IF m = 0 THEN init ELSE body[m][f[m - 1]]
  BY <1>1 DEF LoopsBy, Unfolding
<1>4. \A m \in 0..n : g[m] = IF m = 0 THEN init ELSE shorter[m][g[m - 1]]
  BY <1>2 DEF LoopsBy, Unfolding
<1> DEFINE T == {m \in Nat : m <= n => g[m] = f[m]}
<1>5. 0 \in T
  <2>1. 0 \in 0..n /\ 0 \in 0..(n + 1)
    OBVIOUS
  <2> QED
    BY <1>3, <1>4, <2>1
<1>6. ASSUME NEW m \in Nat, m \in T PROVE m + 1 \in T
  <2> SUFFICES ASSUME m + 1 <= n PROVE g[m + 1] = f[m + 1]
    OBVIOUS
  <2>1. m + 1 \in 0..n /\ m + 1 \in 0..(n + 1) /\ m + 1 \in 1..n /\ m + 1 # 0 /\ (m + 1) - 1 = m /\ m <= n
    OBVIOUS
  <2>2. g[m] = f[m]
    BY <1>6, <2>1
  <2>3. g[m + 1] = shorter[m + 1][g[m]] /\ f[m + 1] = body[m + 1][f[m]]
    BY <1>3, <1>4, <2>1
  <2> QED
    BY <2>1, <2>2, <2>3 DEF SameRounds
<1> HIDE DEF T
<1>7. n \in T
  BY <1>5, <1>6, AllNumbers
<1>8. g[n] = f[n]
  BY <1>7 DEF T
<1>9. n + 1 \in 0..(n + 1) /\ n + 1 # 0 /\ (n + 1) - 1 = n
  OBVIOUS
<1>10. f[n + 1] = body[n + 1][f[n]]
  BY <1>3, <1>9
<1> QED
  BY <1>1, <1>2, <1>8, <1>10 DEF Unfolding

LEMMA Powers2 ==
    /\ Power2(0) = 1
    /\ \A n \in Nat : Power2(n) \in Nat /\ Power2(n) >= 1
    /\ \A n \in Nat : Power2(n + 1) = 2 * Power2(n)
<1> DEFINE double(n) == [m \in 1..n |-> [acc \in Nat |-> 2 * acc]]
<1>1. Power2(0) = 1
  BY LoopZero DEF Power2
<1>2. ASSUME NEW n \in Nat PROVE Power2(n) \in Nat
  <2>1. RoundsIn(double(n), n, Nat)
    BY DEF RoundsIn
  <2> HIDE DEF double
  <2>2. Loop(1, double(n), n) \in Nat
    BY <2>1, LoopType
  <2> QED
    BY <2>2 DEF Power2, double
<1>3. ASSUME NEW n \in Nat PROVE Power2(n + 1) = 2 * Power2(n)
  <2>1. RoundsIn(double(n + 1), n + 1, Nat)
    BY DEF RoundsIn
  <2>2. SameRounds(double(n), double(n + 1), n)
    BY DEF SameRounds
  <2>3. n + 1 \in 1..(n + 1) /\ double(n + 1)[n + 1] = [acc \in Nat |-> 2 * acc]
    OBVIOUS
  <2> HIDE DEF double
  <2>4. Loop(1, double(n + 1), n + 1) = double(n + 1)[n + 1][Loop(1, double(n), n)]
    <3>1. PICK body : body = double(n + 1)
      OBVIOUS
    <3>2. PICK shorter : shorter = double(n)
      OBVIOUS
    <3>3. Loop(1, body, n + 1) = body[n + 1][Loop(1, shorter, n)]
      BY <2>1, <2>2, <3>1, <3>2, LoopNext
    <3> QED
      BY <3>1, <3>2, <3>3
  <2>5. Power2(n + 1) = Loop(1, double(n + 1), n + 1) /\ Power2(n) = Loop(1, double(n), n)
    BY DEF Power2, double
  <2> QED
    BY <1>2, <2>3, <2>4, <2>5
<1> DEFINE T == {n \in Nat : Power2(n) >= 1}
<1>4. 0 \in T
  BY <1>1
<1>5. ASSUME NEW n \in Nat, n \in T PROVE n + 1 \in T
  BY <1>2, <1>3, <1>5
<1>6. \A n \in Nat : n \in T
  <2> HIDE DEF T
  <2> QED
    BY <1>4, <1>5, AllNumbers
<1> QED
  BY <1>1, <1>2, <1>3, <1>6

-----------------------------------------------------------------------------
(* Addition. *)

\* The numbers of i bits.
Numbers(i) == 0..(Power2(i) - 1)

LEMMA Halved ==
    ASSUME NEW i \in Nat
    PROVE  /\ 0 \in Numbers(i)
           /\ \A a \in Numbers(i) : a \in Nat
           /\ \A a \in Numbers(i + 1) : a \in Nat /\ a \div 2 \in Numbers(i) /\ a % 2 \in 0..1 /\ a = 2 * (a \div 2) + (a % 2)
           /\ \A h \in Numbers(i), r \in 0..1 : 2 * h + r \in Numbers(i + 1)
<1>1. PICK p \in Nat : p = Power2(i)
  BY Powers2
<1>2. p >= 1 /\ Power2(i + 1) = 2 * p
  BY <1>1, Powers2
<1>3. Numbers(i) = 0..(p - 1) /\ Numbers(i + 1) = 0..(2 * p - 1)
  BY <1>1, <1>2 DEF Numbers
<1>4. 0 \in 0..(p - 1)
  BY <1>2
<1>5. ASSUME NEW a \in 0..(2 * p - 1)
      PROVE  a \in Nat /\ a \div 2 \in 0..(p - 1) /\ a % 2 \in 0..1 /\ a = 2 * (a \div 2) + (a % 2)
  OBVIOUS
<1>6. ASSUME NEW h \in 0..(p - 1), NEW r \in 0..1
      PROVE  2 * h + r \in 0..(2 * p - 1)
  OBVIOUS
<1>7. 0 \in Numbers(i) /\ \A a \in Numbers(i) : a \in Nat
  BY <1>3, <1>4
<1>8. \A a \in Numbers(i + 1) : a \in Nat /\ a \div 2 \in Numbers(i) /\ a % 2 \in 0..1 /\ a = 2 * (a \div 2) + (a % 2)
  <2> SUFFICES ASSUME NEW a \in 0..(2 * p - 1)
               PROVE  a \in Nat /\ a \div 2 \in Numbers(i) /\ a % 2 \in 0..1 /\ a = 2 * (a \div 2) + (a % 2)
    BY <1>3
  <2>1. Numbers(i) = 0..(p - 1)
    BY <1>3
  <2>2. a \in Nat /\ a \div 2 \in 0..(p - 1) /\ a % 2 \in 0..1 /\ a = 2 * (a \div 2) + (a % 2)
    BY <1>5
  <2> QED
    BY <2>1, <2>2
<1>9. \A h \in Numbers(i), r \in 0..1 : 2 * h + r \in Numbers(i + 1)
  <2> SUFFICES ASSUME NEW h \in 0..(p - 1), NEW r \in 0..1 PROVE 2 * h + r \in Numbers(i + 1)
    BY <1>3
  <2>1. Numbers(i + 1) = 0..(2 * p - 1)
    BY <1>3
  <2> QED
    BY <1>6, <2>1
<1> QED
  BY <1>7, <1>8, <1>9

LEMMA Narrow ==
    /\ Symbols = Numbers(Bits)
    /\ \A i \in 0..Bits : Numbers(i) \subseteq Symbols
<1> USE BitsAssumption
<1>1. Bits \in Nat
  BY DEF BitsAssumption
<1>2. Symbols = Numbers(Bits)
  BY DEF Symbols, Size, Numbers
<1> DEFINE T == {d \in Nat : d <= Bits => Numbers(Bits - d) \subseteq Symbols}
<1>3. 0 \in T
  <2>1. Bits - 0 = Bits
    BY <1>1
  <2> QED
    BY <1>2, <2>1
<1>4. ASSUME NEW d \in Nat, d \in T PROVE d + 1 \in T
  <2> SUFFICES ASSUME d + 1 <= Bits PROVE Numbers(Bits - (d + 1)) \subseteq Symbols
    OBVIOUS
  <2>1. PICK i \in Nat : i = Bits - (d + 1)
    BY <1>1
  <2>2. Bits - d = i + 1 /\ d <= Bits
    BY <1>1, <2>1
  <2>3. Numbers(i + 1) \subseteq Symbols
    BY <1>4, <2>2
  <2>4. PICK p \in Nat : p = Power2(i)
    BY Powers2
  <2>5. p >= 1 /\ Power2(i + 1) = 2 * p
    BY <2>4, Powers2
  <2>6. Numbers(i) \subseteq Numbers(i + 1)
    BY <2>4, <2>5 DEF Numbers
  <2> QED
    BY <2>1, <2>3, <2>6
<1>5. \A d \in Nat : d \in T
  <2> HIDE DEF T
  <2> QED
    BY <1>3, <1>4, AllNumbers
<1>6. ASSUME NEW i \in 0..Bits PROVE Numbers(i) \subseteq Symbols
  <2>1. Bits - i \in Nat /\ Bits - i <= Bits /\ Bits - (Bits - i) = i
    BY <1>1
  <2>2. Bits - i \in T
    BY <1>5, <2>1
  <2> QED
    BY <2>1, <2>2
<1> QED
  BY <1>2, <1>6

\* One bit more of a ^ b, from the table of one bit fewer.
XorStep(g) == [a \in Symbols |-> [b \in Symbols |-> 2 * g[a \div 2][b \div 2] + ((a + b) % 2)]]
XorBase == [a \in Symbols |-> [b \in Symbols |-> 0]]
XorsBy(f) == f = [i \in 0..Bits |-> IF i = 0 THEN XorBase ELSE XorStep(f[i - 1])]

LEMMA Xors ==
    /\ \A a, b \in Symbols : XorBits[0][a][b] = 0
    /\ \A i \in 1..Bits : \A a, b \in Symbols :
           XorBits[i][a][b] = 2 * XorBits[i - 1][a \div 2][b \div 2] + ((a + b) % 2)
<1>1. Bits \in Nat
  BY BitsAssumption DEF BitsAssumption
<1> DEFINE V == [Symbols -> [Symbols -> Nat]]
           step == [i \in 1..Bits |-> [g \in V |-> XorStep(g)]]
<1>2. \A a \in Symbols : a \div 2 \in Symbols /\ a \in Nat
  <2>1. PICK s \in Nat : s = Size
    BY <1>1, Powers2 DEF Size
  <2>2. Symbols = 0..(s - 1)
    BY <2>1 DEF Symbols
  <2>3. ASSUME NEW a \in 0..(s - 1) PROVE a \div 2 \in 0..(s - 1) /\ a \in Nat
    OBVIOUS
  <2> QED
    BY <2>2, <2>3
<1>3. ASSUME NEW g \in V PROVE XorStep(g) \in V
  <2>1. ASSUME NEW a \in Symbols, NEW b \in Symbols
        PROVE  2 * g[a \div 2][b \div 2] + ((a + b) % 2) \in Nat
    <3>1. g[a \div 2][b \div 2] \in Nat
      BY <1>2
    <3>2. (a + b) % 2 \in Nat
      <4>1. a \in Nat /\ b \in Nat
        BY <1>2
      <4>2. a + b \in Nat
        BY <4>1
      <4> QED
        BY <4>2
    <3> QED
      BY <3>1, <3>2
  <2> QED
    BY <2>1 DEF XorStep
<1>4. step \in [1..Bits -> [V -> V]] /\ XorBase \in V
  BY <1>3 DEF XorBase
<1>5. PICK f \in [0..Bits -> V] : f = [i \in 0..Bits |-> Recursive(XorBase, step, f, i)]
  <2> HIDE DEF V, step
  <2> QED
    BY <1>1, <1>4, RecursionExists
<1>6. ASSUME NEW i \in 0..Bits
      PROVE  Recursive(XorBase, step, f, i) = IF i = 0 THEN XorBase ELSE XorStep(f[i - 1])
  <2>1. CASE i = 0
    BY <2>1 DEF Recursive
  <2>2. CASE i # 0
    <3>1. i \in 1..Bits /\ i - 1 \in 0..Bits
      BY <1>1, <2>2
    <3>2. f[i - 1] \in V
      BY <3>1
    <3> QED
      BY <2>2, <3>1, <3>2 DEF Recursive
  <2> QED
    BY <2>1, <2>2
<1>7. XorsBy(f)
  BY <1>5, <1>6 DEF XorsBy
<1>8. XorsBy(XorBits)
  <2>1. XorBits = CHOOSE g : XorsBy(g)
    BY DEF XorBits, XorsBy, XorBase, XorStep
  <2> QED
    BY <1>7, <2>1
<1>9. \A i \in 0..Bits : XorBits[i] = IF i = 0 THEN XorBase ELSE XorStep(XorBits[i - 1])
  <2> HIDE DEF XorBits
  <2> QED
    BY <1>8 DEF XorsBy
<1>10. XorBits[0] = XorBase
  BY <1>1, <1>9
<1>11. ASSUME NEW i \in 1..Bits PROVE XorBits[i] = XorStep(XorBits[i - 1])
  <2>1. i \in 0..Bits /\ i # 0
    BY <1>1
  <2> QED
    BY <1>9, <2>1
<1>12. \A a, b \in Symbols : XorBits[0][a][b] = 0
  BY <1>10 DEF XorBase
<1>13. ASSUME NEW i \in 1..Bits, NEW a \in Symbols, NEW b \in Symbols
       PROVE  XorBits[i][a][b] = 2 * XorBits[i - 1][a \div 2][b \div 2] + ((a + b) % 2)
  <2>1. XorBits[i][a][b] = XorStep(XorBits[i - 1])[a][b]
    BY <1>11
  <2> QED
    BY <2>1 DEF XorStep
<1> QED
  BY <1>12, <1>13

\* The laws of ^ on i bits.
XorLaws(i) ==
    \A a, b \in Numbers(i) :
        /\ XorBits[i][a][b] \in Numbers(i)
        /\ XorBits[i][a][b] = XorBits[i][b][a]
        /\ XorBits[i][a][0] = a
        /\ XorBits[i][a][a] = 0

XorAssociates(i) ==
    \A a, b, c \in Numbers(i) :
        XorBits[i][XorBits[i][a][b]][c] = XorBits[i][a][XorBits[i][b][c]]

LEMMA XorsLaws == \A i \in 0..Bits : XorLaws(i) /\ XorAssociates(i)
<1>1. Bits \in Nat
  BY BitsAssumption DEF BitsAssumption
<1> DEFINE T == {i \in Nat : i <= Bits => XorLaws(i) /\ XorAssociates(i)}
<1>2. 0 \in T
  <2>1. Numbers(0) = {0}
    <3>1. Power2(0) = 1
      BY Powers2
    <3> QED
      BY <3>1 DEF Numbers
  <2>2. 0 \in Symbols
    BY <1>1, <2>1, Narrow
  <2>3. XorBits[0][0][0] = 0
    BY <2>2, Xors
  <2> QED
    BY <2>1, <2>3 DEF XorLaws, XorAssociates
<1>3. ASSUME NEW n \in Nat, n \in T PROVE n + 1 \in T
  <2> SUFFICES ASSUME n + 1 <= Bits PROVE XorLaws(n + 1) /\ XorAssociates(n + 1)
    OBVIOUS
  <2>1. XorLaws(n) /\ XorAssociates(n)
    BY <1>1, <1>3
  <2>2. n + 1 \in 1..Bits /\ (n + 1) - 1 = n /\ Numbers(n + 1) \subseteq Symbols
    BY <1>1, Narrow
  <2>3. ASSUME NEW a \in Numbers(n + 1), NEW b \in Numbers(n + 1)
        PROVE  /\ XorBits[n + 1][a][b] = 2 * XorBits[n][a \div 2][b \div 2] + ((a + b) % 2)
               /\ XorBits[n][a \div 2][b \div 2] \in Nat
               /\ (a + b) % 2 \in 0..1
               /\ XorBits[n + 1][a][b] \in Numbers(n + 1)
               /\ XorBits[n + 1][a][b] \div 2 = XorBits[n][a \div 2][b \div 2]
               /\ XorBits[n + 1][a][b] % 2 = (a + b) % 2
    <3>1. XorBits[n + 1][a][b] = 2 * XorBits[n][a \div 2][b \div 2] + ((a + b) % 2)
      BY <2>2, Xors
    <3>2. a \in Nat /\ b \in Nat /\ a \div 2 \in Numbers(n) /\ b \div 2 \in Numbers(n)
      BY Halved
    <3>3. XorBits[n][a \div 2][b \div 2] \in Numbers(n)
      BY <2>1, <3>2 DEF XorLaws
    <3>4. PICK h \in Nat : h = XorBits[n][a \div 2][b \div 2]
      BY <3>3, Halved
    <3>5. PICK r \in 0..1 : r = (a + b) % 2
      BY <3>2
    <3>6. (2 * h + r) \div 2 = h /\ (2 * h + r) % 2 = r
      OBVIOUS
    <3>7. 2 * h + r \in Numbers(n + 1)
      BY <3>3, <3>4, Halved
    <3> QED
      BY <3>1, <3>4, <3>5, <3>6, <3>7
  <2>4. XorLaws(n + 1)
    <3> SUFFICES ASSUME NEW a \in Numbers(n + 1), NEW b \in Numbers(n + 1)
                 PROVE  /\ XorBits[n + 1][a][b] = XorBits[n + 1][b][a]
                        /\ XorBits[n + 1][a][0] = a
                        /\ XorBits[n + 1][a][a] = 0
      BY <2>3 DEF XorLaws
    <3>1. a \in Nat /\ b \in Nat /\ a \div 2 \in Numbers(n) /\ b \div 2 \in Numbers(n) /\ 0 \in Numbers(n)
      BY Halved
    <3>2. XorBits[n][a \div 2][b \div 2] = XorBits[n][b \div 2][a \div 2]
          /\ XorBits[n][a \div 2][0] = a \div 2 /\ XorBits[n][a \div 2][a \div 2] = 0
      BY <2>1, <3>1 DEF XorLaws
    <3>3. 0 \in Numbers(n + 1) /\ 0 \div 2 = 0
      BY Halved
    <3>4. (a + b) % 2 = (b + a) % 2 /\ (a + 0) % 2 = a % 2 /\ (a + a) % 2 = 0
      BY <3>1
    <3>5. XorBits[n + 1][a][b] = XorBits[n + 1][b][a]
      <4>1. XorBits[n + 1][a][b] = 2 * XorBits[n][a \div 2][b \div 2] + ((a + b) % 2)
        BY <2>3
      <4>2. XorBits[n + 1][b][a] = 2 * XorBits[n][b \div 2][a \div 2] + ((b + a) % 2)
        BY <2>3
      <4> QED
        BY <3>2, <3>4, <4>1, <4>2
    <3>6. XorBits[n + 1][a][0] = 2 * (a \div 2) + (a % 2)
      <4>1. XorBits[n + 1][a][0] = 2 * XorBits[n][a \div 2][0 \div 2] + ((a + 0) % 2)
        BY <2>3, <3>3
      <4> QED
        BY <3>2, <3>3, <3>4, <4>1
    <3>7. XorBits[n + 1][a][a] = 0
      <4>1. XorBits[n + 1][a][a] = 2 * XorBits[n][a \div 2][a \div 2] + ((a + a) % 2)
        BY <2>3
      <4> QED
        BY <3>2, <3>4, <4>1
    <3>8. a = 2 * (a \div 2) + (a % 2)
      BY Halved
    <3> QED
      BY <3>5, <3>6, <3>7, <3>8
  <2>5. XorAssociates(n + 1)
    <3> SUFFICES ASSUME NEW a \in Numbers(n + 1), NEW b \in Numbers(n + 1), NEW c \in Numbers(n + 1)
                 PROVE  XorBits[n + 1][XorBits[n + 1][a][b]][c] = XorBits[n + 1][a][XorBits[n + 1][b][c]]
      BY DEF XorAssociates
    <3>1. PICK ab \in Numbers(n + 1) : ab = XorBits[n + 1][a][b]
      BY <2>3
    <3>2. PICK bc \in Numbers(n + 1) : bc = XorBits[n + 1][b][c]
      BY <2>3
    <3>3. a \in Nat /\ b \in Nat /\ c \in Nat /\ ab \in Nat /\ bc \in Nat
      BY Halved
    <3>4. a \div 2 \in Numbers(n) /\ b \div 2 \in Numbers(n) /\ c \div 2 \in Numbers(n)
      BY Halved
    <3>5. XorBits[n][ab \div 2][c \div 2] = XorBits[n][a \div 2][bc \div 2]
      <4>1. ab \div 2 = XorBits[n][a \div 2][b \div 2] /\ bc \div 2 = XorBits[n][b \div 2][c \div 2]
        BY <2>3, <3>1, <3>2
      <4> QED
        BY <2>1, <3>4, <4>1 DEF XorAssociates
    <3>6. (ab + c) % 2 = (a + bc) % 2
      <4>1. ab % 2 = (a + b) % 2 /\ bc % 2 = (b + c) % 2
        BY <2>3, <3>1, <3>2
      <4> QED
        BY <3>3, <4>1
    <3>7. XorBits[n + 1][ab][c] = 2 * XorBits[n][ab \div 2][c \div 2] + ((ab + c) % 2)
      BY <2>3
    <3>8. XorBits[n + 1][a][bc] = 2 * XorBits[n][a \div 2][bc \div 2] + ((a + bc) % 2)
      BY <2>3
    <3> QED
      BY <3>1, <3>2, <3>5, <3>6, <3>7, <3>8
  <2> QED
    BY <2>4, <2>5
<1>4. \A i \in Nat : i \in T
  <2> HIDE DEF T
  <2> QED
    BY <1>2, <1>3, AllNumbers
<1> QED
  BY <1>1, <1>4

\* Addition in the field.
LEMMA Additions ==
    /\ \A a, b \in Symbols : a ++ b \in Symbols /\ a ++ b = b ++ a
    /\ \A a \in Symbols : a ++ 0 = a /\ 0 ++ a = a /\ a ++ a = 0
    /\ \A a, b, c \in Symbols : (a ++ b) ++ c = a ++ (b ++ c)
    /\ 0 \in Symbols /\ 1 \in Symbols /\ 0 # 1
<1>1. Bits \in Nat /\ Bits >= 2 /\ Bits - 1 \in Nat /\ (Bits - 1) + 1 = Bits
  BY BitsAssumption DEF BitsAssumption
<1>2. Symbols = Numbers(Bits) /\ Bits \in 0..Bits
  BY <1>1, Narrow
<1>3. XorLaws(Bits) /\ XorAssociates(Bits)
  BY <1>2, XorsLaws
<1>4. 0 \in Symbols
  BY <1>1, <1>2, Halved
<1>5. 1 \in Symbols
  <2>1. PICK p \in Nat : p = Power2(Bits - 1)
    BY <1>1, Powers2
  <2>2. p >= 1 /\ Power2(Bits) = 2 * p
    BY <1>1, <2>1, Powers2
  <2> QED
    BY <1>2, <2>2 DEF Numbers
<1>6. \A a, b \in Symbols : a ++ b \in Symbols /\ a ++ b = b ++ a
  BY <1>2, <1>3 DEF ++, XorLaws
<1>7. \A a \in Symbols : a ++ 0 = a /\ a ++ a = 0
  BY <1>2, <1>3 DEF ++, XorLaws
<1>8. \A a, b, c \in Symbols : (a ++ b) ++ c = a ++ (b ++ c)
  BY <1>2, <1>3 DEF ++, XorAssociates
<1> QED
  BY <1>4, <1>5, <1>6, <1>7, <1>8

\* The first n values of f are symbols.
Valued(f, n) == \A m \in 1..n : f[m] \in Symbols

LEMMA Sums ==
    ASSUME NEW n \in Nat, NEW f, Valued(f, n + 1)
    PROVE  /\ SumTo(f, n) \in Symbols /\ SumTo(f, n + 1) \in Symbols
           /\ SumTo(f, n + 1) = SumTo(f, n) ++ f[n + 1]
<1> DEFINE add(m) == [i \in 1..m |-> [acc \in Symbols |-> acc ++ f[i]]]
<1>1. 0 \in Symbols
  BY Additions
<1>2. \A i \in 1..(n + 1), acc \in Symbols : acc ++ f[i] \in Symbols
  <2>1. \A i \in 1..(n + 1) : f[i] \in Symbols
    BY DEF Valued
  <2> QED
    BY <2>1, Additions
<1>3. RoundsIn(add(n + 1), n + 1, Symbols)
  BY <1>2 DEF RoundsIn
<1>4. SameRounds(add(n), add(n + 1), n) /\ RoundsIn(add(n), n, Symbols)
  BY <1>2 DEF SameRounds, RoundsIn
<1>5. n + 1 \in 1..(n + 1) /\ add(n + 1)[n + 1] = [acc \in Symbols |-> acc ++ f[n + 1]]
  OBVIOUS
<1>6. SumTo(f, n) = Loop(0, add(n), n) /\ SumTo(f, n + 1) = Loop(0, add(n + 1), n + 1)
  BY DEF SumTo
<1> HIDE DEF add
<1>7. Loop(0, add(n), n) \in Symbols
  BY <1>1, <1>4, LoopType
<1>8. Loop(0, add(n + 1), n + 1) = add(n + 1)[n + 1][Loop(0, add(n), n)]
  BY <1>1, <1>3, <1>4, LoopNext
<1>9. SumTo(f, n + 1) = SumTo(f, n) ++ f[n + 1]
  BY <1>5, <1>6, <1>7, <1>8
<1> QED
  BY <1>2, <1>5, <1>6, <1>7, <1>9

LEMMA SumOfNone == ASSUME NEW f PROVE SumTo(f, 0) = 0
<1>1. 0 \in Symbols
  BY Additions
<1> QED
  BY <1>1, LoopZero DEF SumTo

LEMMA SumsInside ==
    ASSUME NEW n \in Nat, NEW f, Valued(f, n)
    PROVE  SumTo(f, n) \in Symbols
<1>1. CASE n = 0
  BY <1>1, SumOfNone, Additions
<1>2. CASE n # 0
  <2>1. PICK m \in Nat : n = m + 1
    <3>1. n - 1 \in Nat /\ n = (n - 1) + 1
      BY <1>2
    <3> QED
      BY <3>1
  <2> QED
    BY <2>1, Sums
<1> QED
  BY <1>1, <1>2

LEMMA SameSum ==
    ASSUME NEW n \in Nat, NEW f, NEW g, \A m \in 1..n : f[m] = g[m]
    PROVE  SumTo(f, n) = SumTo(g, n)
<1>1. \A m \in 1..n : [acc \in Symbols |-> acc ++ f[m]] = [acc \in Symbols |-> acc ++ g[m]]
  OBVIOUS
<1>2. [m \in 1..n |-> [acc \in Symbols |-> acc ++ f[m]]] = [m \in 1..n |-> [acc \in Symbols |-> acc ++ g[m]]]
  BY <1>1
<1> QED
  BY <1>2 DEF SumTo

LEMMA Exchange ==
    ASSUME NEW a \in Symbols, NEW b \in Symbols, NEW c \in Symbols, NEW d \in Symbols
    PROVE  (a ++ b) ++ (c ++ d) = (a ++ c) ++ (b ++ d)
<1>1. b ++ c = c ++ b /\ b ++ d \in Symbols /\ c ++ d \in Symbols
  BY Additions
<1>2. (a ++ b) ++ (c ++ d) = a ++ (b ++ (c ++ d))
  BY <1>1, Additions
<1>3. b ++ (c ++ d) = (b ++ c) ++ d
  BY Additions
<1>4. (c ++ b) ++ d = c ++ (b ++ d)
  BY Additions
<1>5. a ++ (c ++ (b ++ d)) = (a ++ c) ++ (b ++ d)
  BY <1>1, Additions
<1> QED
  BY <1>1, <1>2, <1>3, <1>4, <1>5

\* A sum is linear: it commutes with additive maps, such as factors.
Additive(s) == \A a, b \in Symbols : s[a ++ b] = s[a] ++ s[b]
CombinesBy(h, s, f, t, g, n) == \A m \in 1..n : h[m] = s[f[m]] ++ t[g[m]]

LEMMA AdditiveSums ==
    ASSUME NEW L \in Nat, NEW h, NEW f, NEW g,
           NEW s \in [Symbols -> Symbols], NEW t \in [Symbols -> Symbols], Additive(s), Additive(t),
           Valued(f, L), Valued(g, L), CombinesBy(h, s, f, t, g, L)
    PROVE  SumTo(h, L) = s[SumTo(f, L)] ++ t[SumTo(g, L)]
<1>0. s[0] = 0 /\ t[0] = 0
  <2>1. 0 \in Symbols /\ 0 ++ 0 = 0 /\ s[0] \in Symbols /\ t[0] \in Symbols
    BY Additions
  <2>2. s[0] ++ s[0] = 0 /\ t[0] ++ t[0] = 0
    BY <2>1, Additions
  <2>3. s[0] = s[0] ++ s[0] /\ t[0] = t[0] ++ t[0]
    BY <2>1 DEF Additive
  <2> QED
    BY <2>2, <2>3
<1> DEFINE T == {n \in Nat : n <= L => SumTo(h, n) = s[SumTo(f, n)] ++ t[SumTo(g, n)]}
<1>1. 0 \in T
  <2>1. SumTo(h, 0) = 0 /\ SumTo(f, 0) = 0 /\ SumTo(g, 0) = 0 /\ 0 ++ 0 = 0
    BY SumOfNone, Additions
  <2> QED
    BY <1>0, <2>1
<1>2. ASSUME NEW n \in Nat, n \in T PROVE n + 1 \in T
  <2> SUFFICES ASSUME n + 1 <= L
               PROVE  SumTo(h, n + 1) = s[SumTo(f, n + 1)] ++ t[SumTo(g, n + 1)]
    OBVIOUS
  <2>1. n <= L /\ \A m \in 1..(n + 1) : m \in 1..L
    OBVIOUS
  <2>2. Valued(f, n + 1) /\ Valued(g, n + 1)
    BY <2>1 DEF Valued
  <2>3. \A m \in 1..(n + 1) : f[m] \in Symbols /\ g[m] \in Symbols /\ h[m] = s[f[m]] ++ t[g[m]]
    BY <2>1, <2>2 DEF Valued, CombinesBy
  <2>4. Valued(h, n + 1)
    <3>1. ASSUME NEW m \in 1..(n + 1) PROVE h[m] \in Symbols
      <4>1. s[f[m]] \in Symbols /\ t[g[m]] \in Symbols /\ h[m] = s[f[m]] ++ t[g[m]]
        BY <2>3
      <4> QED
        BY <4>1, Additions
    <3> QED
      BY <3>1 DEF Valued
  <2>5. PICK x \in Symbols : x = SumTo(f, n)
    BY <2>2, Sums
  <2>6. PICK y \in Symbols : y = SumTo(g, n)
    BY <2>2, Sums
  <2>7. n + 1 \in 1..(n + 1)
    OBVIOUS
  <2>8. PICK p \in Symbols : p = f[n + 1]
    BY <2>3, <2>7
  <2>9. PICK q \in Symbols : q = g[n + 1]
    BY <2>3, <2>7
  <2>10. SumTo(f, n + 1) = x ++ p /\ SumTo(g, n + 1) = y ++ q /\ SumTo(h, n + 1) = SumTo(h, n) ++ h[n + 1]
    BY <2>2, <2>4, <2>5, <2>6, <2>8, <2>9, Sums
  <2>11. h[n + 1] = s[p] ++ t[q] /\ SumTo(h, n) = s[x] ++ t[y]
    BY <1>2, <2>1, <2>3, <2>5, <2>6, <2>7, <2>8, <2>9
  <2>12. (s[x] ++ t[y]) ++ (s[p] ++ t[q]) = (s[x] ++ s[p]) ++ (t[y] ++ t[q])
    <3>1. s[x] \in Symbols /\ t[y] \in Symbols /\ s[p] \in Symbols /\ t[q] \in Symbols
      OBVIOUS
    <3> QED
      BY <3>1, Exchange
  <2>13. s[x] ++ s[p] = s[x ++ p] /\ t[y] ++ t[q] = t[y ++ q]
    BY DEF Additive
  <2> QED
    BY <2>10, <2>11, <2>12, <2>13
<1> HIDE DEF T
<1>3. L \in T
  BY <1>1, <1>2, AllNumbers
<1> QED
  BY <1>3 DEF T

\* Two sums that differ in one term differ by what it differs.
LEMMA OneApart ==
    ASSUME NEW L \in Nat, NEW f, NEW g, NEW p \in 1..L, Valued(f, L), Valued(g, L),
           \A m \in 1..L : m # p => f[m] = g[m]
    PROVE  SumTo(f, L) ++ f[p] = SumTo(g, L) ++ g[p]
<1> DEFINE T == {n \in Nat : n <= L =>
                    IF n < p THEN SumTo(f, n) = SumTo(g, n)
                    ELSE SumTo(f, n) ++ f[p] = SumTo(g, n) ++ g[p]}
<1>1. 0 \in T
  <2>1. SumTo(f, 0) = 0 /\ SumTo(g, 0) = 0 /\ 0 < p
    BY SumOfNone
  <2> QED
    BY <2>1
<1>2. ASSUME NEW n \in Nat, n \in T PROVE n + 1 \in T
  <2> SUFFICES ASSUME n + 1 <= L
               PROVE  IF n + 1 < p THEN SumTo(f, n + 1) = SumTo(g, n + 1)
                      ELSE SumTo(f, n + 1) ++ f[p] = SumTo(g, n + 1) ++ g[p]
    OBVIOUS
  <2>1. n <= L /\ n + 1 \in 1..L /\ \A m \in 1..(n + 1) : m \in 1..L
    OBVIOUS
  <2>2. Valued(f, n + 1) /\ Valued(g, n + 1)
    BY <2>1 DEF Valued
  <2>3. PICK x \in Symbols : x = SumTo(f, n)
    BY <2>2, Sums
  <2>4. PICK y \in Symbols : y = SumTo(g, n)
    BY <2>2, Sums
  <2>5. PICK a \in Symbols : a = f[p]
    BY DEF Valued
  <2>6. PICK b \in Symbols : b = g[p]
    BY DEF Valued
  <2>7. SumTo(f, n + 1) = x ++ f[n + 1] /\ SumTo(g, n + 1) = y ++ g[n + 1]
    BY <2>2, <2>3, <2>4, Sums
  <2>8. CASE n + 1 < p
    <3>1. n < p /\ n + 1 # p
      BY <2>8
    <3>2. x = y
      BY <1>2, <2>1, <2>3, <2>4, <3>1
    <3> QED
      BY <2>1, <2>7, <2>8, <3>1, <3>2
  <2>9. CASE n + 1 = p
    <3>1. n < p /\ ~(n + 1 < p)
      BY <2>9
    <3>2. x = y
      BY <1>2, <2>1, <2>3, <2>4, <3>1
    <3>3. (x ++ a) ++ a = x /\ (y ++ b) ++ b = y
      <4>1. (x ++ a) ++ a = x ++ (a ++ a) /\ (y ++ b) ++ b = y ++ (b ++ b)
        BY Additions
      <4> QED
        BY <4>1, Additions
    <3> QED
      BY <2>5, <2>6, <2>7, <2>9, <3>1, <3>2, <3>3
  <2>10. CASE n + 1 > p
    <3>1. ~(n < p) /\ ~(n + 1 < p) /\ n + 1 # p
      BY <2>10
    <3>2. x ++ a = y ++ b
      BY <1>2, <2>1, <2>3, <2>4, <2>5, <2>6, <3>1
    <3>3. PICK c \in Symbols : c = f[n + 1]
      BY <2>1 DEF Valued
    <3>4. g[n + 1] = c
      BY <2>1, <3>1, <3>3
    <3>5. (x ++ c) ++ a = (x ++ a) ++ c /\ (y ++ c) ++ b = (y ++ b) ++ c
      <4>1. (x ++ c) ++ a = x ++ (c ++ a) /\ (x ++ a) ++ c = x ++ (a ++ c)
        BY Additions
      <4>2. (y ++ c) ++ b = y ++ (c ++ b) /\ (y ++ b) ++ c = y ++ (b ++ c)
        BY Additions
      <4>3. c ++ a = a ++ c /\ c ++ b = b ++ c
        BY Additions
      <4> QED
        BY <4>1, <4>2, <4>3
    <3> QED
      BY <2>5, <2>6, <2>7, <3>1, <3>2, <3>3, <3>4, <3>5
  <2> QED
    BY <2>8, <2>9, <2>10
<1> HIDE DEF T
<1>3. L \in T
  BY <1>1, <1>2, AllNumbers
<1>4. ~(L < p)
  OBVIOUS
<1> QED
  BY <1>3, <1>4 DEF T

LEMMA NoTerms ==
    ASSUME NEW L \in Nat, NEW f, \A m \in 1..L : f[m] = 0
    PROVE  SumTo(f, L) = 0
<1> DEFINE T == {n \in Nat : n <= L => SumTo(f, n) = 0}
<1>1. 0 \in T
  BY SumOfNone
<1>2. ASSUME NEW n \in Nat, n \in T PROVE n + 1 \in T
  <2> SUFFICES ASSUME n + 1 <= L PROVE SumTo(f, n + 1) = 0
    OBVIOUS
  <2>1. n <= L /\ n + 1 \in 1..L /\ \A m \in 1..(n + 1) : m \in 1..L
    OBVIOUS
  <2>2. Valued(f, n + 1)
    BY <2>1, Additions DEF Valued
  <2>3. SumTo(f, n + 1) = SumTo(f, n) ++ f[n + 1]
    BY <2>2, Sums
  <2> QED
    BY <1>2, <2>1, <2>3, Additions
<1> HIDE DEF T
<1>3. L \in T
  BY <1>1, <1>2, AllNumbers
<1> QED
  BY <1>3 DEF T

\* A sum of which all terms but one, or two, are 0.
LEMMA OneTerm ==
    ASSUME NEW L \in Nat, NEW f, NEW p \in 1..L, Valued(f, L), \A m \in 1..L : m # p => f[m] = 0
    PROVE  SumTo(f, L) = f[p]
<1> DEFINE g == [m \in 1..L |-> 0]
<1>1. \A m \in 1..L : g[m] = 0
  OBVIOUS
<1> HIDE DEF g
<1>2. Valued(g, L) /\ SumTo(g, L) = 0
  BY <1>1, NoTerms, Additions DEF Valued
<1>3. \A m \in 1..L : m # p => f[m] = g[m]
  BY <1>1
<1>4. SumTo(f, L) ++ f[p] = SumTo(g, L) ++ g[p]
  BY <1>2, <1>3, OneApart
<1>5. PICK x \in Symbols : x = SumTo(f, L)
  BY SumsInside
<1>6. PICK a \in Symbols : a = f[p]
  BY DEF Valued
<1>7. x ++ a = 0
  BY <1>1, <1>2, <1>4, <1>5, <1>6, Additions
<1>8. (x ++ a) ++ a = x ++ (a ++ a)
  BY Additions
<1>9. 0 ++ a = a /\ a ++ a = 0 /\ x ++ 0 = x
  BY Additions
<1> QED
  BY <1>5, <1>6, <1>7, <1>8, <1>9

LEMMA TwoTerms ==
    ASSUME NEW L \in Nat, NEW f, NEW p \in 1..L, NEW q \in 1..L, p # q, Valued(f, L),
           \A m \in 1..L : m # p /\ m # q => f[m] = 0
    PROVE  SumTo(f, L) = f[p] ++ f[q]
<1> DEFINE g == [m \in 1..L |-> IF m = p THEN 0 ELSE f[m]]
<1>1. \A m \in 1..L : g[m] = IF m = p THEN 0 ELSE f[m]
  OBVIOUS
<1> HIDE DEF g
<1>2. Valued(g, L)
  BY <1>1, Additions DEF Valued
<1>3. SumTo(g, L) = f[q]
  <2>1. \A m \in 1..L : m # q => g[m] = 0
    BY <1>1
  <2>2. g[q] = f[q]
    BY <1>1
  <2> QED
    BY <1>2, <2>1, <2>2, OneTerm
<1>4. SumTo(f, L) ++ f[p] = SumTo(g, L) ++ g[p]
  <2>1. \A m \in 1..L : m # p => f[m] = g[m]
    BY <1>1
  <2> QED
    BY <1>2, <2>1, OneApart
<1>5. PICK x \in Symbols : x = SumTo(f, L)
  BY SumsInside
<1>6. PICK a \in Symbols : a = f[p]
  BY DEF Valued
<1>7. PICK b \in Symbols : b = f[q]
  BY DEF Valued
<1>8. x ++ a = b
  BY <1>1, <1>3, <1>4, <1>5, <1>6, <1>7, Additions
<1>9. (x ++ a) ++ a = x ++ (a ++ a) /\ a ++ a = 0 /\ x ++ 0 = x /\ b ++ a = a ++ b
  BY Additions
<1> QED
  BY <1>5, <1>6, <1>7, <1>8, <1>9

=============================================================================
