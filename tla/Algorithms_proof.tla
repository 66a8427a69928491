-------------------------- MODULE Algorithms_proof --------------------------
(***************************************************************************)
(* Theorems about the algorithms: the buffers a line travels in through    *)
(* spdlog's queue, the benchmark's data, the arguments of a call to fmt,   *)
(* and the histograms of latencies, for any sizes, bounds and inputs.      *)
(***************************************************************************)
EXTENDS MemoryBuffer, BenchmarkData, FmtArgs, Histogram, FiniteSetTheorems,
        FunctionTheorems, SequenceTheorems, WellFoundedInduction, TLAPS

------------------------------------------------------------------------------
(* A set of naturals has a least element.                                  *)
LEMMA LeastExists ==
    ASSUME NEW T, T \subseteq Nat, T # {}
    PROVE  \E m \in T : \A k \in T : m <= k
<1> DEFINE R == OpToRel(<, Nat)
<1>1. IsWellFoundedOn(R, Nat)
  BY NatLessThanWellFounded
<1>2. PICK m \in T : \A k \in T : ~(<<k, m>> \in R)
  <2> HIDE DEF R
  <2> QED BY <1>1, WFMin
<1>3. \A k \in T : ~(k < m)
  BY <1>2 DEF OpToRel
<1> QED BY <1>3

(* Induction over the naturals, for a set instead of a predicate.          *)
LEMMA InductionOnNat ==
    ASSUME NEW S, 0 \in S, \A n \in Nat : n \in S => n + 1 \in S
    PROVE  Nat \subseteq S
<1> DEFINE T == Nat \ S
<1> SUFFICES ASSUME T # {} PROVE FALSE
  OBVIOUS
<1>1. PICK m \in T : \A k \in T : m <= k
  <2> HIDE DEF T
  <2>1. T \subseteq Nat
    BY DEF T
  <2> QED BY <2>1, LeastExists
<1>2. m # 0 /\ m - 1 \in Nat /\ m - 1 < m /\ (m - 1) + 1 = m
  OBVIOUS
<1>3. m - 1 \in S
  BY <1>1, <1>2
<1> QED BY <1>2, <1>3

(* The functions that a first value and a step define on the first N      *)
(* numbers.                                                                *)
StepsOn(N, X) == [(1 .. N) \X X -> X]
Runs(t, N, X, base, step) ==
    /\ t \in [0 .. N -> X] /\ t[0] = base
    /\ \A k \in 1 .. N : t[k] = step[<<k, t[k - 1]>>]

(* There is one for any first value and any step.                          *)
LEMMA RecursionExists ==
    ASSUME NEW N \in Nat, NEW X, NEW base \in X, NEW step \in StepsOn(N, X)
    PROVE  \E t : Runs(t, N, X, base, step)
<1> DEFINE S == {m \in Nat : m <= N => \E t : Runs(t, m, X, base, step)}
<1>1. 0 \in S
  <2> DEFINE t == [k \in 0 .. 0 |-> base]
  <2>1. Runs(t, 0, X, base, step)
    BY DEF Runs
  <2> QED BY <2>1
<1>2. ASSUME NEW m \in Nat, m \in S PROVE m + 1 \in S
  <2> SUFFICES ASSUME m + 1 <= N PROVE \E u : Runs(u, m + 1, X, base, step)
    OBVIOUS
  <2>1. PICK t : Runs(t, m, X, base, step)
    BY <1>2
  <2>2. /\ t \in [0 .. m -> X] /\ t[0] = base
        /\ \A k \in 1 .. m : t[k] = step[<<k, t[k - 1]>>]
    BY <2>1 DEF Runs
  <2> DEFINE u == [k \in 0 .. m + 1 |-> IF k = m + 1 THEN step[<<m + 1, t[m]>>] ELSE t[k]]
  <2>3. step[<<m + 1, t[m]>>] \in X
    BY <2>2 DEF StepsOn
  <2>4. u \in [0 .. m + 1 -> X]
    BY <2>2, <2>3
  <2>5. (\A k \in 0 .. m : u[k] = t[k]) /\ u[m + 1] = step[<<m + 1, t[m]>>]
    OBVIOUS
  <2> HIDE DEF u
  <2>6. u[0] = base
    BY <2>2, <2>5
  <2>7. ASSUME NEW k \in 1 .. m + 1 PROVE u[k] = step[<<k, u[k - 1]>>]
    <3>1. CASE k = m + 1
      BY <2>5, <3>1
    <3>2. CASE k # m + 1
      <4>1. k \in 1 .. m /\ k \in 0 .. m /\ k - 1 \in 0 .. m
        BY <3>2
      <4> QED BY <2>2, <2>5, <4>1
    <3> QED BY <3>1, <3>2
  <2>8. Runs(u, m + 1, X, base, step)
    BY <2>4, <2>6, <2>7 DEF Runs
  <2> QED BY <2>8
<1>3. N \in S
  <2> HIDE DEF S
  <2> QED BY <1>1, <1>2, InductionOnNat
<1> QED BY <1>3

(* Any function that satisfies the equations is of that type.              *)
LEMMA RecursionType ==
    ASSUME NEW N \in Nat, NEW X, NEW c,
           c[0] \in X, \A k \in 1 .. N : c[k - 1] \in X => c[k] \in X
    PROVE  \A k \in 0 .. N : c[k] \in X
<1> DEFINE E == {k \in Nat : k <= N => c[k] \in X}
<1>1. 0 \in E
  OBVIOUS
<1>2. ASSUME NEW k \in Nat, k \in E PROVE k + 1 \in E
  <2> SUFFICES ASSUME k + 1 <= N PROVE c[k + 1] \in X
    OBVIOUS
  <2>1. c[k] \in X /\ k + 1 \in 1 .. N /\ (k + 1) - 1 = k
    BY <1>2
  <2> QED BY <2>1
<1>3. Nat \subseteq E
  <2> HIDE DEF E
  <2> QED BY <1>1, <1>2, InductionOnNat
<1> QED BY <1>3

(* Division                                                                *)
LEMMA DivisionIs ==
    ASSUME NEW x \in Nat, NEW n \in Nat, n > 0
    PROVE  x \div n \in Nat /\ x % n \in Nat /\ x % n < n /\ x = n * (x \div n) + (x % n)
  OBVIOUS

(* Quotient and remainder are the only ones.                               *)
LEMMA DivisionIsUnique ==
    ASSUME NEW n \in Nat, n > 0, NEW q \in Nat, NEW y \in Nat, y < n
    PROVE  (n * q + y) % n = y /\ (n * q + y) \div n = q
<1> DEFINE x == n * q + y
           p == x \div n
           r == x % n
<1>0. x \in Nat
  OBVIOUS
<1>1. p \in Nat /\ r \in Nat /\ r < n /\ x = n * p + r
  BY <1>0, DivisionIs
<1>2. n * p + r = n * q + y
  BY <1>1
<1> HIDE DEF p, r, x
<1>3. p = q
  <2>1. CASE p < q
    <3>1. n * q >= n * (p + 1)
      BY <1>1, <2>1
    <3>2. n * (p + 1) = n * p + n
      BY <1>1
    <3> QED BY <1>1, <1>2, <3>1, <3>2
  <2>2. CASE q < p
    <3>1. n * p >= n * (q + 1)
      BY <1>1, <2>2
    <3>2. n * (q + 1) = n * q + n
      BY <1>1
    <3> QED BY <1>1, <1>2, <3>1, <3>2
  <2> QED BY <1>1, <2>1, <2>2
<1>4. r = y
  BY <1>1, <1>2, <1>3
<1> QED BY <1>3, <1>4 DEF p, r, x

(* The powers of a base.                                                   *)
LEMMA PowersAre ==
    ASSUME NEW base \in Nat \ {0}, NEW N \in Nat
    PROVE  /\ PowersOf(base, N)[0] = 1
           /\ \A n \in 1 .. N : PowersOf(base, N)[n] = base * PowersOf(base, N)[n - 1]
           /\ \A n \in 0 .. N : PowersOf(base, N)[n] \in Nat \ {0}
<1> DEFINE X == Nat \ {0}
           step == [ky \in (1 .. N) \X X |-> base * ky[2]]
           Is(t) == t = [n \in 0 .. N |-> IF n = 0 THEN 1 ELSE base * t[n - 1]]
           c == CHOOSE t : Is(t)
<1>1. N \in Nat /\ base \in Nat /\ base > 0
  OBVIOUS
<1>2. ASSUME NEW y \in X PROVE base * y \in X
  BY <1>1
<1>3. PowersOf(base, N) = c
  BY DEF PowersOf
<1>4. \A k \in 1 .. N, y \in X : step[<<k, y>>] = base * y
  OBVIOUS
<1>5. step \in StepsOn(N, X)
  BY <1>2 DEF StepsOn
<1>6. 1 \in X
  OBVIOUS
<1> HIDE DEF step, X
<1>7. PICK t : Runs(t, N, X, 1, step)
  BY <1>1, <1>5, <1>6, RecursionExists
<1>8. /\ t \in [0 .. N -> X] /\ t[0] = 1
      /\ \A k \in 1 .. N : t[k] = base * t[k - 1]
  <2>1. /\ t \in [0 .. N -> X] /\ t[0] = 1
        /\ \A k \in 1 .. N : t[k] = step[<<k, t[k - 1]>>]
    BY <1>7 DEF Runs
  <2>2. ASSUME NEW k \in 1 .. N PROVE t[k] = base * t[k - 1]
    <3>1. t[k - 1] \in X
      BY <1>1, <2>1
    <3>2. step[<<k, t[k - 1]>>] = base * t[k - 1]
      BY <1>4, <3>1
    <3> QED BY <2>1, <3>2
  <2> QED BY <2>1, <2>2
<1>9. Is(t)
  BY <1>1, <1>8
<1>10. Is(c)
  BY <1>9
<1> HIDE DEF c
<1>11. c[0] = 1 /\ \A k \in 1 .. N : c[k] = base * c[k - 1]
  BY <1>1, <1>10
<1>12. \A k \in 1 .. N : c[k - 1] \in X => c[k] \in X
  BY <1>2, <1>11
<1>13. \A k \in 0 .. N : c[k] \in X
  BY <1>1, <1>6, <1>11, <1>12, RecursionType
<1> QED BY <1>3, <1>11, <1>13 DEF X

------------------------------------------------------------------------------
(* Random                                                                  *)

(* The generator never leaves the residues but 0.                          *)
LEMMA NextSeedIs ==
    ASSUME NEW s \in 1 .. M - 1
    PROVE  NextSeed(s) = (s * A) % M /\ NextSeed(s) \in 1 .. M - 1
<1> DEFINE product == s * A
           q == product \div (M + 1)
           r == product % (M + 1)
<1>1. M \in Nat /\ M > 1 /\ A \in Nat /\ A >= 1 /\ A <= M /\ s \in Nat /\ s >= 1 /\ s < M
  BY RandomAssumption
<1>2. product \in Nat /\ product >= 1 /\ product <= (M - 1) * A
  BY <1>1
<1>3. q \in Nat /\ r \in Nat /\ r < M + 1 /\ product = (M + 1) * q + r
  BY <1>1, <1>2, DivisionIs
<1>4. product % M # 0
  BY RandomAssumption
<1>5. NextOnce(s) = q + r
  BY DEF NextOnce
<1> HIDE DEF product, q, r
<1>6. (M + 1) * q = M * q + q
  BY <1>1, <1>3
<1>7. q < M
  <2> SUFFICES ASSUME q >= M PROVE FALSE
    BY <1>1, <1>3
  <2>1. M * q >= M * M
    BY <1>1, <1>3
  <2>2. (M - 1) * A <= (M - 1) * M
    BY <1>1
  <2>3. (M - 1) * M = M * M - M
    BY <1>1
  <2> QED BY <1>1, <1>2, <1>3, <1>6, <2>1, <2>2, <2>3
<1>8. q + r < M + M
  BY <1>1, <1>3, <1>7
<1>9. \A y \in Nat : y < M => (M * q + y) % M = y
  BY <1>1, <1>3, DivisionIsUnique
<1>10. CASE q + r < M
  <2>1. product % M = q + r
    <3>1. product = M * q + (q + r) /\ q + r \in Nat
      BY <1>1, <1>3, <1>6
    <3>2. (M * q + (q + r)) % M = q + r
      BY <1>9, <1>10, <3>1
    <3> QED BY <3>1, <3>2
  <2> QED BY <1>1, <1>3, <1>4, <1>5, <1>10, <2>1 DEF NextSeed, product
<1>11. CASE q + r >= M
  <2>1. M * (q + 1) = M * q + M
    BY <1>1, <1>3
  <2>2. product = M * (q + 1) + (q + r - M) /\ q + r - M \in Nat /\ q + r - M < M
    BY <1>1, <1>3, <1>6, <1>8, <1>11, <2>1
  <2>3. q + 1 \in Nat
    BY <1>3
  <2>4. product % M = q + r - M
    <3> DEFINE y == q + r - M
               p == q + 1
    <3>1. product = M * p + y /\ y \in Nat /\ y < M /\ p \in Nat
      BY <2>2, <2>3
    <3> HIDE DEF y, p
    <3>2. (M * p + y) % M = y
      BY <1>1, <3>1, DivisionIsUnique
    <3>3. product % M = y
      BY <3>1, <3>2
    <3> QED BY <3>3 DEF y
  <2>5. q + r # M
    BY <1>4, <2>4, <1>1, <1>3
  <2> QED BY <1>1, <1>3, <1>4, <1>5, <1>11, <2>2, <2>4, <2>5 DEF NextSeed, product
<1> QED BY <1>1, <1>3, <1>10, <1>11

(* M itself it does not leave.                                             *)
LEMMA NextSeedSticks == NextSeed(M) = M
<1> DEFINE product == M * A
           q == product \div (M + 1)
           r == product % (M + 1)
<1>1. M \in Nat /\ M > 1 /\ A \in Nat /\ A >= 1 /\ A <= M /\ A - 1 \in Nat
  BY RandomAssumption
<1>2. (M + 1) * (A - 1) = M * A + A - M - 1
  BY <1>1
<1>3. M + 1 - A \in Nat /\ M + 1 - A < M + 1
  BY <1>1
<1>4. product = (M + 1) * (A - 1) + (M + 1 - A) /\ product \in Nat
  <2>1. M * A \in Nat
    BY <1>1
  <2> QED BY <1>1, <1>2, <2>1
<1>5. q = A - 1 /\ r = M + 1 - A
  <2> DEFINE n == M + 1
             p == A - 1
             y == M + 1 - A
  <2>1. n \in Nat /\ n > 0 /\ p \in Nat /\ y \in Nat /\ y < n
    BY <1>1, <1>3
  <2>2. product = n * p + y
    BY <1>4
  <2> HIDE DEF n, p, y, product
  <2>3. (n * p + y) \div n = p /\ (n * p + y) % n = y
    BY <2>1, DivisionIsUnique
  <2>4. product \div n = p /\ product % n = y
    BY <2>2, <2>3
  <2> QED BY <2>4 DEF n, p, y
<1>6. NextOnce(M) = q + r
  BY DEF NextOnce
<1> HIDE DEF q, r
<1>7. NextOnce(M) = M
  BY <1>1, <1>5, <1>6
<1> QED BY <1>1, <1>7 DEF NextSeed

(* What it starts from is M or among the others.                           *)
LEMMA GoodSeedIs ==
    ASSUME NEW s \in Nat
    PROVE  IF s % (M + 1) = M THEN GoodSeed(s) = M ELSE GoodSeed(s) \in 1 .. M - 1
<1>1. M \in Nat /\ M > 1
  BY RandomAssumption
<1>2. s % (M + 1) \in Nat /\ s % (M + 1) < M + 1
  BY <1>1, DivisionIs
<1> QED BY <1>1, <1>2 DEF GoodSeed

------------------------------------------------------------------------------
(* Keys                                                                    *)

LowDigits(v, j) == v % RadixTo[j]
Digit(v, j) == (v \div RadixTo[j]) % Radix

(* The powers of the radix that KeyFromInt divides by.                     *)
LEMMA RadixToIs ==
    /\ RadixTo[0] = 1
    /\ \A n \in 1 .. IntBytes : RadixTo[n] = Radix * RadixTo[n - 1]
    /\ \A n \in 0 .. IntBytes : RadixTo[n] \in Nat \ {0}
<1>1. Radix \in Nat \ {0} /\ IntBytes \in Nat
  BY DataAssumption
<1> QED BY <1>1, PowersAre DEF RadixTo

(* A number's last j + 1 digits are its last j and the one before.         *)
LEMMA KeptSplits ==
    ASSUME NEW v \in Nat, NEW j \in 0 .. IntBytes - 1
    PROVE  /\ LowDigits(v, j + 1) = RadixTo[j] * Digit(v, j) + LowDigits(v, j)
           /\ LowDigits(v, j) \in Nat /\ LowDigits(v, j) < RadixTo[j]
           /\ Digit(v, j) \in Nat /\ Digit(v, j) < Radix
<1> DEFINE b == RadixTo[j]
           q == v \div b
           r == v % b
           p == q \div Radix
           d == q % Radix
           y == b * d + r
           n == RadixTo[j + 1]
<1>1. Radix \in Nat /\ Radix > 1 /\ IntBytes \in Nat
  BY DataAssumption
<1>2. b \in Nat /\ b > 0 /\ n = Radix * b /\ n \in Nat /\ n > 0
  <2>1. j + 1 \in 1 .. IntBytes /\ j \in 0 .. IntBytes /\ j + 1 \in 0 .. IntBytes /\ j + 1 - 1 = j
    BY <1>1
  <2>2. RadixTo[j] \in Nat \ {0} /\ RadixTo[j + 1] \in Nat \ {0}
        /\ RadixTo[j + 1] = Radix * RadixTo[j + 1 - 1]
    BY <2>1, RadixToIs
  <2> QED BY <2>1, <2>2
<1> HIDE DEF b, n
<1>3. q \in Nat /\ r \in Nat /\ r < b /\ v = b * q + r
  BY <1>2, DivisionIs
<1> HIDE DEF q, r
<1>4. p \in Nat /\ d \in Nat /\ d < Radix /\ q = Radix * p + d
  BY <1>1, <1>3, DivisionIs
<1> HIDE DEF p, d
<1>5. v = n * p + y /\ y \in Nat
  <2>1. b * (Radix * p + d) = b * (Radix * p) + b * d
    BY <1>1, <1>2, <1>4
  <2>2. b * (Radix * p) = (Radix * b) * p
    BY <1>1, <1>2, <1>4
  <2>3. b * d \in Nat
    BY <1>2, <1>4
  <2> QED BY <1>2, <1>3, <1>4, <2>1, <2>2, <2>3
<1>6. y < n
  <2>1. b * d <= b * (Radix - 1)
    BY <1>1, <1>2, <1>4
  <2>2. b * (Radix - 1) = Radix * b - b
    BY <1>1, <1>2
  <2>3. b * d \in Nat
    BY <1>2, <1>4
  <2> QED BY <1>2, <1>3, <2>1, <2>2, <2>3
<1> HIDE DEF y
<1>7. (n * p + y) % n = y
  BY <1>2, <1>4, <1>5, <1>6, DivisionIsUnique
<1>8. v % n = y
  BY <1>5, <1>7
<1>9. v % n = b * d + r
  BY <1>8 DEF y
<1> QED BY <1>3, <1>4, <1>9 DEF LowDigits, Digit, b, q, r, d, n

(* A digit decides unless it is the same.                                  *)
LEMMA DigitDecides ==
    ASSUME NEW v \in Nat, NEW w \in Nat, NEW j \in 0 .. IntBytes - 1
    PROVE  /\ Digit(v, j) < Digit(w, j) => LowDigits(v, j + 1) < LowDigits(w, j + 1)
           /\ Digit(v, j) = Digit(w, j) =>
                 /\ LowDigits(v, j + 1) < LowDigits(w, j + 1) <=> LowDigits(v, j) < LowDigits(w, j)
                 /\ LowDigits(v, j + 1) = LowDigits(w, j + 1) <=> LowDigits(v, j) = LowDigits(w, j)
<1> DEFINE b == RadixTo[j]
           d == Digit(v, j)
           e == Digit(w, j)
           r == LowDigits(v, j)
           s == LowDigits(w, j)
<1>1. /\ LowDigits(v, j + 1) = b * d + r /\ LowDigits(w, j + 1) = b * e + s
      /\ r \in Nat /\ r < b /\ s \in Nat /\ s < b /\ d \in Nat /\ e \in Nat
  BY KeptSplits
<1>2. b \in Nat
  <2>1. j \in 0 .. IntBytes
    BY DataAssumption
  <2> QED BY <2>1, RadixToIs
<1> HIDE DEF b, d, e, r, s
<1>3. b * d \in Nat /\ b * e \in Nat
  BY <1>1, <1>2
<1>4. ASSUME d < e PROVE b * d + r < b * e + s
  <2>1. b * (d + 1) <= b * e
    BY <1>1, <1>2, <1>4
  <2>2. b * (d + 1) = b * d + b
    BY <1>1, <1>2
  <2> QED BY <1>1, <1>2, <1>3, <2>1, <2>2
<1>5. ASSUME d = e PROVE /\ b * d + r < b * e + s <=> r < s
                         /\ b * d + r = b * e + s <=> r = s
  BY <1>1, <1>2, <1>3, <1>5
<1> QED BY <1>1, <1>4, <1>5 DEF d, e, r, s

(* Numbers with the same digits are the same.                              *)
LEMMA SameDigits ==
    ASSUME NEW v \in Nat, NEW w \in Nat, NEW f \in 0 .. IntBytes,
           \A j \in 0 .. f - 1 : Digit(v, j) = Digit(w, j)
    PROVE  LowDigits(v, f) = LowDigits(w, f)
<1> DEFINE E == {i \in Nat : i <= f => LowDigits(v, i) = LowDigits(w, i)}
<1>1. 0 \in E
  <2>1. LowDigits(v, 0) = 0 /\ LowDigits(w, 0) = 0
    BY RadixToIs DEF LowDigits
  <2> QED BY <2>1
<1>2. ASSUME NEW i \in Nat, i \in E PROVE i + 1 \in E
  <2> SUFFICES ASSUME i + 1 <= f PROVE LowDigits(v, i + 1) = LowDigits(w, i + 1)
    OBVIOUS
  <2>1. i \in 0 .. IntBytes - 1 /\ i \in 0 .. f - 1 /\ LowDigits(v, i) = LowDigits(w, i)
    BY <1>2, DataAssumption
  <2> QED BY <2>1, DigitDecides
<1>3. Nat \subseteq E
  <2> HIDE DEF E
  <2> QED BY <1>1, <1>2, InductionOnNat
<1> QED BY <1>3

(* The first digit in which they differ decides.                           *)
LEMMA FirstDigitDecides ==
    ASSUME NEW v \in Nat, NEW w \in Nat, NEW f \in 0 .. IntBytes, NEW t \in 0 .. f - 1,
           Digit(v, t) < Digit(w, t),
           \A j \in t + 1 .. f - 1 : Digit(v, j) = Digit(w, j)
    PROVE  LowDigits(v, f) < LowDigits(w, f)
<1> DEFINE E == {i \in Nat : i <= f /\ i > t => LowDigits(v, i) < LowDigits(w, i)}
<1>1. 0 \in E
  OBVIOUS
<1>2. ASSUME NEW i \in Nat, i \in E PROVE i + 1 \in E
  <2> SUFFICES ASSUME i + 1 <= f, i + 1 > t PROVE LowDigits(v, i + 1) < LowDigits(w, i + 1)
    OBVIOUS
  <2>1. i \in 0 .. IntBytes - 1 /\ f \in Nat /\ t \in Nat
    BY DataAssumption
  <2>2. CASE i = t
    BY <2>1, <2>2, DigitDecides
  <2>3. CASE i # t
    <3>1. i \in t + 1 .. f - 1 /\ LowDigits(v, i) < LowDigits(w, i)
      BY <1>2, <2>1, <2>3
    <3> QED BY <2>1, <3>1, DigitDecides
  <2> QED BY <2>2, <2>3
<1>3. Nat \subseteq E
  <2> HIDE DEF E
  <2> QED BY <1>1, <1>2, InductionOnNat
<1>4. f \in Nat /\ f <= f /\ f > t
  BY DataAssumption
<1> QED BY <1>3, <1>4

Filled(size) == IF size < IntBytes THEN size ELSE IntBytes

(* A key begins with the bytes of the number, the highest first, as far as *)
(* it has room, and goes on with zeros.                                    *)
LEMMA KeyIs ==
    ASSUME NEW v \in Nat, NEW size \in Nat
    PROVE  /\ KeyFromInt(v, size) \in Seq(Nat) /\ Len(KeyFromInt(v, size)) = size
           /\ Filled(size) \in 0 .. IntBytes /\ Filled(size) <= size
           /\ \A k \in 1 .. Filled(size) :
                 KeyFromInt(v, size)[k] = Digit(v, Filled(size) - k)
           /\ \A k \in 1 .. size : k > Filled(size) => KeyFromInt(v, size)[k] = 48
<1> DEFINE f == Filled(size)
           key == KeyFromInt(v, size)
<1>1. IntBytes \in Nat /\ f \in 0 .. IntBytes /\ f <= size /\ f \in Nat
  BY DataAssumption DEF Filled
<1>2. key = [k \in 1 .. size |-> IF k <= f THEN Digit(v, f - k) ELSE 48]
  BY DEF KeyFromInt, Filled, Digit
<1> HIDE DEF f, key
<1>3. ASSUME NEW k \in 1 .. size, k <= f PROVE Digit(v, f - k) \in Nat
  <2>1. f - k \in 0 .. IntBytes - 1
    BY <1>1, <1>3
  <2> QED BY <2>1, KeptSplits
<1>4. key \in [1 .. size -> Nat]
  BY <1>2, <1>3
<1>5. key \in Seq(Nat) /\ Len(key) = size
  BY <1>4
<1>6. \A k \in 1 .. f : key[k] = Digit(v, f - k)
  BY <1>1, <1>2
<1>7. \A k \in 1 .. size : k > f => key[k] = 48
  BY <1>1, <1>2
<1> QED BY <1>1, <1>5, <1>6, <1>7 DEF f, key

(* The comparator orders two keys as the numbers that their bytes hold.    *)
LEMMA KeysAreOrdered ==
    ASSUME NEW v \in Nat, NEW w \in Nat, NEW size \in Nat
    PROVE  LET order == ComparePolar(KeyFromInt(v, size), KeyFromInt(w, size))
           IN /\ order = 0 <=> LowDigits(v, Filled(size)) = LowDigits(w, Filled(size))
              /\ order < 0 <=> LowDigits(v, Filled(size)) < LowDigits(w, Filled(size))
<1> DEFINE f == Filled(size)
           x == KeyFromInt(v, size)
           y == KeyFromInt(w, size)
           differ == {k \in 1 .. size : x[k] # y[k]}
           first == CHOOSE k \in differ : \A j \in differ : k <= j
           order == ComparePolar(x, y)
           a == LowDigits(v, f)
           b == LowDigits(w, f)
<1>1. /\ x \in Seq(Nat) /\ Len(x) = size /\ y \in Seq(Nat) /\ Len(y) = size
      /\ f \in 0 .. IntBytes /\ f <= size /\ f \in Nat
      /\ \A k \in 1 .. f : x[k] = Digit(v, f - k) /\ y[k] = Digit(w, f - k)
      /\ \A k \in 1 .. size : k > f => x[k] = 48 /\ y[k] = 48
  <2>1. /\ x \in Seq(Nat) /\ Len(x) = size /\ f \in 0 .. IntBytes /\ f <= size
        /\ \A k \in 1 .. f : x[k] = Digit(v, f - k)
        /\ \A k \in 1 .. size : k > f => x[k] = 48
    BY KeyIs
  <2>2. /\ y \in Seq(Nat) /\ Len(y) = size
        /\ \A k \in 1 .. f : y[k] = Digit(w, f - k)
        /\ \A k \in 1 .. size : k > f => y[k] = 48
    BY KeyIs, ZenonT(60)
  <2> HIDE DEF f, x, y
  <2>3. f \in Nat
    BY <2>1, DataAssumption
  <2> QED BY <2>1, <2>2, <2>3
<1>2. order = IF differ # {} THEN (IF x[first] < y[first] THEN -1 ELSE 1) ELSE 0
  BY <1>1 DEF ComparePolar
<1>3. a \in Nat /\ b \in Nat
  <2>1. RadixTo[f] \in Nat \ {0}
    BY <1>1, RadixToIs
  <2> QED BY <2>1, DivisionIs DEF LowDigits
<1> HIDE DEF f, x, y, a, b, order
<1>4. CASE differ = {}
  <2>1. ASSUME NEW j \in 0 .. f - 1 PROVE Digit(v, j) = Digit(w, j)
    <3>1. f - j \in 1 .. f /\ f - j \in 1 .. size /\ f - (f - j) = j
      BY <1>1
    <3>2. x[f - j] = y[f - j]
      BY <1>4, <3>1
    <3>3. x[f - j] = Digit(v, f - (f - j)) /\ y[f - j] = Digit(w, f - (f - j))
      BY <1>1, <3>1
    <3> QED BY <3>1, <3>2, <3>3
  <2>2. a = b
    BY <1>1, <2>1, SameDigits DEF a, b
  <2> QED BY <1>2, <1>3, <1>4, <2>2 DEF a, b, f, x, y, order
<1>5. CASE differ # {}
  <2>1. first \in differ /\ \A j \in differ : first <= j
    <3>1. differ \subseteq Nat
      OBVIOUS
    <3> HIDE DEF differ
    <3>2. \E k \in differ : \A j \in differ : k <= j
      BY <1>5, <3>1, LeastExists
    <3> QED BY <3>2
  <2> DEFINE t == f - first
  <2>2. first \in 1 .. size /\ x[first] # y[first]
    BY <2>1
  <2>3. \A k \in 1 .. size : k < first => x[k] = y[k]
    BY <2>1
  <2> HIDE DEF first
  <2>4. first \in 1 .. f /\ t \in 0 .. f - 1 /\ t \in 0 .. IntBytes - 1
    <3>1. ~(first > f)
      BY <1>1, <2>2
    <3>2. IntBytes \in Nat
      BY DataAssumption
    <3>3. f \in Nat /\ f <= IntBytes
      BY <1>1, <3>2
    <3> QED BY <2>2, <3>1, <3>2, <3>3
  <2>5. x[first] = Digit(v, t) /\ y[first] = Digit(w, t)
    BY <1>1, <2>4
  <2>6. ASSUME NEW j \in t + 1 .. f - 1 PROVE Digit(v, j) = Digit(w, j)
    <3>1. f - j \in 1 .. f /\ f - j \in 1 .. size /\ f - (f - j) = j /\ f - j < first
      BY <1>1, <2>4
    <3>2. x[f - j] = y[f - j]
      BY <2>3, <3>1
    <3>3. x[f - j] = Digit(v, f - (f - j)) /\ y[f - j] = Digit(w, f - (f - j))
      BY <1>1, <3>1
    <3> QED BY <3>1, <3>2, <3>3
  <2> HIDE DEF t
  <2>7. Digit(v, t) \in Nat /\ Digit(w, t) \in Nat
    BY <2>4, KeptSplits
  <2>8. CASE Digit(v, t) < Digit(w, t)
    <3>1. a < b
      BY <1>1, <2>4, <2>6, <2>8, FirstDigitDecides DEF a, b
    <3>2. order = -1
      BY <1>2, <1>5, <2>5, <2>8
    <3> QED BY <1>3, <3>1, <3>2 DEF a, b, f, x, y, order
  <2>9. CASE Digit(w, t) < Digit(v, t)
    <3>1. b < a
      BY <1>1, <2>4, <2>6, <2>9, FirstDigitDecides DEF a, b
    <3>2. order = 1
      BY <1>2, <1>5, <2>5, <2>7, <2>9
    <3> QED BY <1>3, <3>1, <3>2 DEF a, b, f, x, y, order
  <2> QED BY <2>2, <2>5, <2>7, <2>8, <2>9
<1> QED BY <1>4, <1>5

------------------------------------------------------------------------------
(* The text of the values                                                  *)

(* Every seed that CompressibleString draws is a good one.                 *)
LEMMA SeedsFromAre ==
    ASSUME NEW seed \in 1 .. M - 1, NEW n \in Nat
    PROVE  \A k \in 0 .. n : SeedsFrom(seed, n)[k] \in 1 .. M - 1
<1> DEFINE X == 1 .. M - 1
           step == [ky \in (1 .. n) \X X |-> NextSeed(ky[2])]
           Is(t) == t = [k \in 0 .. n |-> IF k = 0 THEN seed ELSE NextSeed(t[k - 1])]
           c == CHOOSE t : Is(t)
<1>1. ASSUME NEW y \in X PROVE NextSeed(y) \in X
  BY NextSeedIs
<1>2. SeedsFrom(seed, n) = c
  BY DEF SeedsFrom
<1>3. \A k \in 1 .. n, y \in X : step[<<k, y>>] = NextSeed(y)
  OBVIOUS
<1>4. step \in StepsOn(n, X)
  BY <1>1 DEF StepsOn
<1>5. seed \in X
  OBVIOUS
<1> HIDE DEF step, X
<1>6. PICK t : Runs(t, n, X, seed, step)
  BY <1>4, <1>5, RecursionExists
<1>7. /\ t \in [0 .. n -> X] /\ t[0] = seed
      /\ \A k \in 1 .. n : t[k] = NextSeed(t[k - 1])
  <2>1. /\ t \in [0 .. n -> X] /\ t[0] = seed
        /\ \A k \in 1 .. n : t[k] = step[<<k, t[k - 1]>>]
    BY <1>6 DEF Runs
  <2>2. ASSUME NEW k \in 1 .. n PROVE t[k] = NextSeed(t[k - 1])
    <3>1. t[k - 1] \in X
      BY <2>1
    <3>2. step[<<k, t[k - 1]>>] = NextSeed(t[k - 1])
      BY <1>3, <3>1
    <3> QED BY <2>1, <3>2
  <2> QED BY <2>1, <2>2
<1>8. Is(t)
  BY <1>7
<1>9. Is(c)
  BY <1>8
<1> HIDE DEF c
<1>10. c[0] = seed /\ \A k \in 1 .. n : c[k] = NextSeed(c[k - 1])
  BY <1>9
<1>11. \A k \in 1 .. n : c[k - 1] \in X => c[k] \in X
  BY <1>1, <1>10
<1>12. \A k \in 0 .. n : c[k] \in X
  BY <1>5, <1>10, <1>11, RecursionType
<1> QED BY <1>2, <1>12 DEF X

(* A remainder is below its divisor.                                       *)
LEMMA RemainderIsNat ==
    ASSUME NEW x \in Nat, NEW n \in Nat, n > 0
    PROVE  x % n \in Nat /\ x % n < n
  BY DivisionIs

(* A piece has the length asked for.                                       *)
LEMMA CompressibleStringIs ==
    ASSUME NEW seed \in 1 .. M - 1, NEW percent \in Nat, NEW len \in Nat
    PROVE  LET piece == CompressibleString(seed, percent, len)
           IN /\ piece.seed \in 1 .. M - 1
              /\ piece.text \in Seq(Nat) /\ Len(piece.text) = len
<1> DEFINE wanted == (len * percent) \div 100
           n == IF wanted < 1 THEN 1 ELSE wanted
           next == SeedsFrom(seed, n)
           text == [k \in 1 .. n |-> next[k] % Printable]
           raw == RandomString(seed, n)
           filled == [k \in 1 .. len |-> text[((k - 1) % n) + 1]]
           piece == CompressibleString(seed, percent, len)
<1>1. wanted \in Nat
  <2>1. len * percent \in Nat
    OBVIOUS
  <2> QED BY <2>1, DivisionIs
<1>2. n \in Nat /\ n > 0
  BY <1>1
<1>3. raw = [seed |-> next[n], text |-> text]
  BY DEF RandomString
<1>4. piece = [seed |-> raw.seed,
               text |-> [k \in 1 .. len |-> raw.text[((k - 1) % Len(raw.text)) + 1]]]
  BY DEF CompressibleString
<1> HIDE DEF wanted, n, piece, raw
<1>5. \A k \in 0 .. n : next[k] \in 1 .. M - 1
  BY <1>2, SeedsFromAre
<1> HIDE DEF next
<1>6. \A k \in 1 .. n : next[k] % Printable \in Nat
  <2> SUFFICES ASSUME NEW k \in 1 .. n PROVE next[k] % Printable \in Nat
    OBVIOUS
  <2>1. next[k] \in Nat
    BY <1>2, <1>5, RandomAssumption
  <2>2. Printable \in Nat /\ Printable > 0
    BY DataAssumption
  <2> QED BY <2>1, <2>2, RemainderIsNat
<1>7. text \in [1 .. n -> Nat]
  BY <1>6
<1>8. Len(text) = n
  BY <1>2
<1> HIDE DEF text
<1>9. raw.seed = next[n] /\ raw.text = text
  BY <1>3
<1>10. piece.seed = next[n] /\ piece.text = filled
  BY <1>4, <1>8, <1>9
<1>11. next[n] \in 1 .. M - 1
  BY <1>2, <1>5
<1>12. ASSUME NEW k \in 1 .. len PROVE text[((k - 1) % n) + 1] \in Nat
  <2>1. k - 1 \in Nat
    OBVIOUS
  <2>2. (k - 1) % n \in Nat /\ (k - 1) % n < n
    BY <1>2, <2>1, RemainderIsNat
  <2>3. ((k - 1) % n) + 1 \in 1 .. n
    BY <1>2, <2>2
  <2> QED BY <1>7, <2>3
<1>13. filled \in [1 .. len -> Nat]
  BY <1>12
<1>14. filled \in Seq(Nat) /\ Len(filled) = len
  BY <1>13
<1> QED BY <1>10, <1>11, <1>14 DEF piece

FillStates == [seed : 1 .. M - 1, text : Seq(Nat)]

(* Each step of the loop that fills the data adds a whole piece.           *)
LEMMA WithPieceIs ==
    ASSUME NEW y \in FillStates, NEW percent \in Nat
    PROVE  /\ WithPiece(y, percent) \in FillStates
           /\ Len(WithPiece(y, percent).text) = Len(y.text) + PieceSize
<1> DEFINE piece == CompressibleString(y.seed, percent, PieceSize)
           text == y.text \o piece.text
<1>1. y.seed \in 1 .. M - 1 /\ y.text \in Seq(Nat)
  BY DEF FillStates
<1>2. PieceSize \in Nat
  BY DataAssumption
<1>3. /\ piece.seed \in 1 .. M - 1
      /\ piece.text \in Seq(Nat) /\ Len(piece.text) = PieceSize
  BY <1>1, <1>2, CompressibleStringIs
<1>4. WithPiece(y, percent) = [seed |-> piece.seed, text |-> text]
  BY DEF WithPiece
<1> HIDE DEF piece
<1>5. text \in Seq(Nat) /\ Len(text) = Len(y.text) + PieceSize
  BY <1>1, <1>3, ConcatProperties
<1> HIDE DEF text
<1> QED BY <1>3, <1>4, <1>5 DEF FillStates

(* After n steps there are n pieces.                                       *)
LEMMA FillDataIs ==
    ASSUME NEW percent \in Nat, NEW pieces \in Nat
    PROVE  \A n \in 0 .. pieces :
              /\ FillData(percent, pieces)[n] \in FillStates
              /\ Len(FillData(percent, pieces)[n].text) = n * PieceSize
<1> DEFINE X == FillStates
           first == [seed |-> GoodSeed(301), text |-> <<>>]
           step == [ky \in (1 .. pieces) \X X |-> WithPiece(ky[2], percent)]
           Is(t) == t = [n \in 0 .. pieces |-> IF n = 0 THEN first
                                                ELSE WithPiece(t[n - 1], percent)]
           c == CHOOSE t : Is(t)
           E == {n \in Nat : n <= pieces => Len(c[n].text) = n * PieceSize}
<1>1. ASSUME NEW y \in X PROVE WithPiece(y, percent) \in X
  BY WithPieceIs
<1>2. FillData(percent, pieces) = c
  BY DEF FillData
<1>3. \A k \in 1 .. pieces, y \in X : step[<<k, y>>] = WithPiece(y, percent)
  OBVIOUS
<1>4. step \in StepsOn(pieces, X)
  BY <1>1 DEF StepsOn
<1>5. first \in X /\ Len(first.text) = 0
  <2>1. 301 \in Nat /\ 301 % (M + 1) # M
    BY RandomAssumption
  <2>2. GoodSeed(301) \in 1 .. M - 1
    BY <2>1, GoodSeedIs
  <2> QED BY <2>2 DEF FillStates
<1> HIDE DEF step, X, first
<1>6. PICK t : Runs(t, pieces, X, first, step)
  BY <1>4, <1>5, RecursionExists
<1>7. /\ t \in [0 .. pieces -> X] /\ t[0] = first
      /\ \A k \in 1 .. pieces : t[k] = WithPiece(t[k - 1], percent)
  <2>1. /\ t \in [0 .. pieces -> X] /\ t[0] = first
        /\ \A k \in 1 .. pieces : t[k] = step[<<k, t[k - 1]>>]
    BY <1>6 DEF Runs
  <2>2. ASSUME NEW k \in 1 .. pieces PROVE t[k] = WithPiece(t[k - 1], percent)
    <3>1. t[k - 1] \in X
      BY <2>1
    <3>2. step[<<k, t[k - 1]>>] = WithPiece(t[k - 1], percent)
      BY <1>3, <3>1
    <3> QED BY <2>1, <3>2
  <2> QED BY <2>1, <2>2
<1>8. Is(t)
  BY <1>7
<1>9. Is(c)
  BY <1>8
<1> HIDE DEF c
<1>10. c[0] = first /\ \A k \in 1 .. pieces : c[k] = WithPiece(c[k - 1], percent)
  BY <1>9
<1>11. \A k \in 1 .. pieces : c[k - 1] \in X => c[k] \in X
  BY <1>1, <1>10
<1>12. \A k \in 0 .. pieces : c[k] \in X
  BY <1>5, <1>10, <1>11, RecursionType, SMTT(30)
<1>13. PieceSize \in Nat
  BY DataAssumption
<1>14. 0 \in E
  BY <1>5, <1>10, <1>13
<1>15. ASSUME NEW n \in Nat, n \in E PROVE n + 1 \in E
  <2> SUFFICES ASSUME n + 1 <= pieces PROVE Len(c[n + 1].text) = (n + 1) * PieceSize
    OBVIOUS
  <2>1. n + 1 \in 1 .. pieces /\ n \in 0 .. pieces /\ n + 1 - 1 = n
    OBVIOUS
  <2>2. c[n + 1] = WithPiece(c[n], percent) /\ c[n] \in FillStates
    BY <1>10, <1>12, <2>1 DEF X
  <2>3. Len(c[n + 1].text) = Len(c[n].text) + PieceSize
    BY <2>2, WithPieceIs
  <2>4. Len(c[n].text) = n * PieceSize
    BY <1>15
  <2>5. (n + 1) * PieceSize = n * PieceSize + PieceSize
    BY <1>13
  <2> QED BY <2>3, <2>4, <2>5
<1>16. Nat \subseteq E
  <2> HIDE DEF E
  <2> QED BY <1>14, <1>15, InductionOnNat
<1>17. \A n \in 0 .. pieces : Len(c[n].text) = n * PieceSize
  BY <1>16
<1> QED BY <1>2, <1>12, <1>17 DEF X

(* The text of RandomGenerator has room for a value.                       *)
LEMMA RandomDataIsEnough ==
    ASSUME NEW percent \in Nat, NEW value_size \in Nat
    PROVE  /\ RandomData(percent, value_size) \in Seq(Nat)
           /\ Len(RandomData(percent, value_size)) >= value_size
<1> DEFINE size == IF value_size > LeastData THEN value_size ELSE LeastData
           q == size \div PieceSize
           pieces == q + 1
           filled == FillData(percent, pieces)
           enough == {n \in 0 .. pieces : Len(filled[n].text) >= size}
           n0 == CHOOSE n \in enough : \A k \in enough : n <= k
<1>1. /\ size \in Nat /\ size >= value_size /\ PieceSize \in Nat /\ PieceSize > 0
  BY DataAssumption
<1>2. RandomData(percent, value_size) = filled[n0].text
  BY DEF RandomData
<1> HIDE DEF size
<1>3. q \in Nat /\ size % PieceSize < PieceSize /\ size % PieceSize \in Nat
      /\ size = PieceSize * q + (size % PieceSize)
  BY <1>1, DivisionIs
<1> HIDE DEF q
<1>4. pieces \in Nat /\ pieces * PieceSize >= size
  <2>1. (q + 1) * PieceSize = PieceSize * q + PieceSize
    BY <1>1, <1>3
  <2> QED BY <1>1, <1>3, <2>1
<1> HIDE DEF pieces
<1>5. \A n \in 0 .. pieces : filled[n] \in FillStates /\ Len(filled[n].text) = n * PieceSize
  BY <1>4, FillDataIs
<1> HIDE DEF filled
<1>6. pieces \in enough /\ enough \subseteq Nat
  <2>1. pieces \in 0 .. pieces
    BY <1>4
  <2>2. Len(filled[pieces].text) = pieces * PieceSize
    BY <1>5, <2>1
  <2> QED BY <1>4, <2>1, <2>2
<1>7. \A n \in enough : n \in 0 .. pieces /\ Len(filled[n].text) >= size
  OBVIOUS
<1> HIDE DEF enough
<1>8. n0 \in enough
  <2>1. \E n \in enough : \A k \in enough : n <= k
    BY <1>6, LeastExists
  <2> QED BY <2>1
<1> HIDE DEF n0
<1>9. filled[n0] \in FillStates /\ Len(filled[n0].text) >= size
  BY <1>5, <1>7, <1>8
<1>10. filled[n0].text \in Seq(Nat)
  BY <1>9 DEF FillStates
<1>11. Len(filled[n0].text) \in Nat
  BY <1>10, LenProperties
<1> QED BY <1>1, <1>2, <1>9, <1>10, <1>11

------------------------------------------------------------------------------
(* The inductive invariant                                                 *)

NumberStates == [kind : {"random"}, of : Nat, seed : 1 .. M, last : 0 .. M]
ValueStates == [kind : {"values"}, pos : Nat, start : Nat, last : Nat \cup {-1},
                value_size : Nat, text : Seq(Nat)]
KeyStates == [kind : {"keys"}, v : Nat, w : Nat, size : Nat]

(* A number is the one after the last, or every one is M.                  *)
NumbersFollow(d) ==
    IF d.of % (M + 1) = M THEN d.seed = M
    ELSE d.seed < M /\ (d.last # 0 => d.seed = (d.last * A) % M)

(* A value ends where the next one starts, in the text.                    *)
ValuesFollow(d) ==
    /\ d.value_size <= Len(d.text)
    /\ d.pos # 0 =>
          /\ d.pos = d.start + d.value_size /\ d.pos <= Len(d.text)
          /\ \/ d.last = -1
             \/ d.start = d.last + d.value_size
             \/ d.start = 0 /\ d.last + 2 * d.value_size > Len(d.text)

DataInductive ==
    \/ data \in NumberStates /\ NumbersFollow(data)
    \/ data \in ValueStates /\ ValuesFollow(data)
    \/ data \in KeyStates

(* The inductive invariant of the data holds at first,                     *)
LEMMA DataStarts == DataInit => DataInductive
<1> SUFFICES ASSUME DataInit PROVE DataInductive
  OBVIOUS
<1>1. ASSUME NEW s \in Seeds,
             data = [kind |-> "random", of |-> s, seed |-> GoodSeed(s), last |-> 0]
      PROVE  DataInductive
  <2>1. s \in Nat /\ M \in Nat /\ M > 1
    BY RandomAssumption
  <2>2. IF s % (M + 1) = M THEN GoodSeed(s) = M ELSE GoodSeed(s) \in 1 .. M - 1
    BY <2>1, GoodSeedIs
  <2> QED BY <1>1, <2>1, <2>2 DEF DataInductive, NumberStates, NumbersFollow
<1>2. ASSUME NEW percent \in Ratios, NEW size \in ValueSizes,
             data = [kind |-> "values", pos |-> 0, start |-> 0, last |-> 0,
                     value_size |-> size, text |-> RandomData(percent, size)]
      PROVE  DataInductive
  <2> DEFINE text == RandomData(percent, size)
  <2>1. percent \in Nat /\ size \in Nat
    BY DataAssumption
  <2>2. text \in Seq(Nat) /\ Len(text) >= size /\ Len(text) \in Nat
    BY <2>1, RandomDataIsEnough, LenProperties
  <2> HIDE DEF text
  <2>3. data = [kind |-> "values", pos |-> 0, start |-> 0, last |-> 0,
                value_size |-> size, text |-> text]
    BY <1>2 DEF text
  <2> QED BY <2>1, <2>2, <2>3 DEF DataInductive, ValueStates, ValuesFollow
<1>3. ASSUME NEW pair \in KeyPairs, NEW size \in KeySizes,
             data = [kind |-> "keys", v |-> pair[1], w |-> pair[2], size |-> size]
      PROVE  DataInductive
  <2>1. pair[1] \in Nat /\ pair[2] \in Nat /\ size \in Nat
    BY DataAssumption
  <2> QED BY <1>3, <2>1 DEF DataInductive, KeyStates
<1> QED BY <1>1, <1>2, <1>3 DEF DataInit

(* when a generator has slid along its data                                *)
LEMMA GenerateKeeps == DataInductive /\ Generate => DataInductive'
<1> SUFFICES ASSUME DataInductive, Generate PROVE DataInductive'
  OBVIOUS
<1> DEFINE start == StartOf(data.pos, data.value_size, data.text)
           last == IF data.pos = 0 THEN -1 ELSE data.start
           next == [kind |-> "values", pos |-> start + data.value_size, start |-> start,
                    last |-> last, value_size |-> data.value_size, text |-> data.text]
<1>1. data \in ValueStates /\ ValuesFollow(data)
  BY DEF DataInductive, Generate, NumberStates, KeyStates
<1>2. /\ data.kind = "values" /\ data.pos \in Nat /\ data.start \in Nat
      /\ data.value_size \in Nat /\ data.text \in Seq(Nat) /\ Len(data.text) \in Nat
      /\ data.value_size <= Len(data.text)
      /\ data.pos # 0 => data.pos = data.start + data.value_size /\ data.pos <= Len(data.text)
  BY <1>1, LenProperties DEF ValueStates, ValuesFollow
<1>3. data' = next
  BY <1>1 DEF Generate, ValueStates
<1>4. /\ start \in Nat /\ last \in Nat \cup {-1}
      /\ start = IF data.pos + data.value_size > Len(data.text) THEN 0 ELSE data.pos
      /\ data.pos = 0 => last = -1
      /\ data.pos # 0 => last = data.start
  BY <1>2 DEF StartOf
<1> HIDE DEF start, last
<1>5. next \in ValueStates
  BY <1>2, <1>4 DEF ValueStates
<1>6. ValuesFollow(next)
  <2>1. start + data.value_size <= Len(data.text)
    BY <1>2, <1>4
  <2>2. \/ last = -1
        \/ start = last + data.value_size
        \/ start = 0 /\ last + 2 * data.value_size > Len(data.text)
    BY <1>2, <1>4
  <2> QED BY <1>2, <2>1, <2>2 DEF ValuesFollow
<1> QED BY <1>3, <1>5, <1>6 DEF DataInductive

(* and when a number is drawn.                                             *)
LEMMA NextNumberKeeps == DataInductive /\ NextNumber => DataInductive'
<1> SUFFICES ASSUME DataInductive, NextNumber PROVE DataInductive'
  OBVIOUS
<1>1. data \in NumberStates
  BY DEF DataInductive, NextNumber, ValueStates, KeyStates
<1>2. /\ data.seed \in 1 .. M /\ data.kind = "random" /\ data.of \in Nat
      /\ NumbersFollow(data) /\ M \in Nat
  BY <1>1, RandomAssumption DEF DataInductive, NumberStates, ValueStates, KeyStates
<1>3. data' = [kind |-> "random", of |-> data.of, seed |-> NextSeed(data.seed),
               last |-> data.seed]
  BY <1>1 DEF NextNumber, NumberStates
<1>4. CASE data.of % (M + 1) = M
  <2>1. data.seed = M /\ NextSeed(data.seed) = M
    BY <1>2, <1>4, NextSeedSticks DEF NumbersFollow
  <2> QED BY <1>2, <1>3, <1>4, <2>1 DEF DataInductive, NumberStates, NumbersFollow
<1>5. CASE data.of % (M + 1) # M
  <2>1. data.seed \in 1 .. M - 1
    BY <1>2, <1>5 DEF NumbersFollow
  <2>2. NextSeed(data.seed) = (data.seed * A) % M /\ NextSeed(data.seed) \in 1 .. M - 1
    BY <2>1, NextSeedIs
  <2> QED BY <1>2, <1>3, <1>5, <2>1, <2>2 DEF DataInductive, NumberStates, NumbersFollow
<1> QED BY <1>4, <1>5

(* The inductive invariant of the benchmark's data.                        *)
THEOREM DataInvariant == DataSpec => []DataInductive
<1>1. DataInductive /\ [DataNext]_data => DataInductive'
  BY GenerateKeeps, NextNumberKeeps DEF DataNext, DataInductive
<1> QED BY <1>1, DataStarts, PTL DEF DataSpec

(* Random multiplies modulo M without a division and sticks at M if it was *)
(* made of a number with all bits of M, never otherwise; values are cut    *)
(* from inside the text, one behind the other, and keys are in the order   *)
(* of their numbers: for every radix, number of bytes and size (random.h,  *)
(* RandomGenerator, GenerateKeyFromInt, compare).                          *)
THEOREM TheDataIsSound == DataSpec => []TestDataIsSound
<1>1. DataInductive => TestDataIsSound
  <2> SUFFICES ASSUME DataInductive PROVE TestDataIsSound
    OBVIOUS
  <2>1. CASE data \in NumberStates /\ NumbersFollow(data)
    <3>1. data.kind = "random" /\ data.seed \in 1 .. M /\ M \in Nat
      BY <2>1, RandomAssumption DEF NumberStates
    <3>2. data.of % (M + 1) # M => data.seed \in 1 .. M - 1
      BY <2>1, <3>1 DEF NumbersFollow
    <3> QED BY <2>1, <3>1, <3>2 DEF TestDataIsSound, NumbersFollow
  <2>2. CASE data \in ValueStates /\ ValuesFollow(data)
    BY <2>2 DEF TestDataIsSound, ValueStates, ValuesFollow
  <2>3. CASE data \in KeyStates
    <3>1. data.kind = "keys" /\ data.v \in Nat /\ data.w \in Nat /\ data.size \in Nat
      BY <2>3 DEF KeyStates
    <3> DEFINE order == ComparePolar(KeyFromInt(data.v, data.size), KeyFromInt(data.w, data.size))
    <3>2. /\ order = 0 <=> LowDigits(data.v, Filled(data.size)) = LowDigits(data.w, Filled(data.size))
          /\ order < 0 <=> LowDigits(data.v, Filled(data.size)) < LowDigits(data.w, Filled(data.size))
      BY <3>1, KeysAreOrdered
    <3> HIDE DEF order
    <3>3. \A x \in Nat : LowDigits(x, Filled(data.size))
                         = x % RadixTo[IF data.size < IntBytes THEN data.size ELSE IntBytes]
      BY DEF LowDigits, Filled
    <3> QED BY <3>1, <3>2, <3>3 DEF TestDataIsSound, order
  <2> QED BY <2>1, <2>2, <2>3 DEF DataInductive
<1> QED BY <1>1, DataInvariant, PTL

------------------------------------------------------------------------------
(* The buffers and the heap                                                *)

Bufs == QueueIndices \cup Locals
Characters == Seq(Nat)
BufferStates == [data : Blocks \cup {0}, size : Nat, capacity : Nat, store : Characters]
Memories == [buffers : [Bufs -> BufferStates], heap : [Blocks -> Characters],
             misused : BOOLEAN]

DataOf(m, b) == m.buffers[b].data
OnHeap(m, b) == DataOf(m, b) # 0

(* Every buffer has its store; one on the heap has a block that is not     *)
(* free and nobody else's; no other block is taken.                        *)
BlockIsHeld(m, b) == OnHeap(m, b) => /\ m.heap[DataOf(m, b)] # <<>>
                                     /\ Len(m.heap[DataOf(m, b)]) = m.buffers[b].capacity
BlocksAreExclusive(m) ==
    \A b, c \in Bufs : b # c /\ OnHeap(m, b) => DataOf(m, b) # DataOf(m, c)
NoBlockIsLost(m) ==
    \A block \in Blocks : m.heap[block] # <<>> => \E b \in Bufs : DataOf(m, b) = block

GoodMemory(m) ==
    /\ m \in Memories /\ ~m.misused
    /\ \A b \in Bufs : Len(m.buffers[b].store) = SizeOfStore(b) /\ BlockIsHeld(m, b)
    /\ BlocksAreExclusive(m) /\ NoBlockIsLost(m)

(* A buffer that has not been moved from.                                  *)
Sound(m, b) == /\ m.buffers[b].capacity = Len(Contents(m, b))
               /\ m.buffers[b].size <= m.buffers[b].capacity

Text(m, b) == TextOf(m, b, m.buffers[b].size)

(* A step on b leaves all other buffers and what is in them.               *)
OthersKept(m, r, b) ==
    \A c \in Bufs : c # b => r.buffers[c] = m.buffers[c] /\ Contents(r, c) = Contents(m, c)

(* The buffers there are, and their stores.                                *)
LEMMA Shapes ==
    /\ QueueSlots \in Nat /\ QueueSlots > 1
    /\ QueueIndices \subseteq Bufs /\ Locals \subseteq Bufs
    /\ {msg, new_msg, incoming, out} \subseteq Locals
    /\ \A b \in Locals : b \notin QueueIndices
    /\ msg # new_msg /\ incoming # out
    /\ 0 \notin Blocks
    /\ \A b \in Bufs : SizeOfStore(b) \in Nat \ {0}
    /\ \A b \in QueueIndices \cup {new_msg, incoming} : SizeOfStore(b) = StoreSize
<1> USE BufferParameters DEF Bufs, QueueIndices, Locals, msg, new_msg, incoming, out
<1>1. /\ QueueSlots \in Nat /\ QueueSlots > 1
      /\ QueueIndices \subseteq Bufs /\ Locals \subseteq Bufs
      /\ {msg, new_msg, incoming, out} \subseteq Locals
      /\ \A b \in Locals : b \notin QueueIndices
      /\ msg # new_msg /\ incoming # out /\ 0 \notin Blocks
  OBVIOUS
<1>2. \A b \in Bufs : SizeOfStore(b) \in Nat \ {0}
  BY DEF SizeOfStore
<1>3. \A b \in QueueIndices \cup {new_msg, incoming} : SizeOfStore(b) = StoreSize
  BY DEF SizeOfStore
<1> QED BY <1>1, <1>2, <1>3

(* The fields of a good memory.                                            *)
LEMMA BufferFacts ==
    ASSUME NEW m, GoodMemory(m), NEW b \in Bufs
    PROVE  /\ m.buffers[b] \in BufferStates
           /\ DataOf(m, b) \in Blocks \cup {0}
           /\ m.buffers[b].size \in Nat /\ m.buffers[b].capacity \in Nat
           /\ m.buffers[b].store \in Characters
           /\ Contents(m, b) \in Characters
           /\ Len(Contents(m, b)) \in Nat
           /\ OnHeap(m, b) => /\ DataOf(m, b) \in Blocks
                              /\ Contents(m, b) = m.heap[DataOf(m, b)]
                              /\ Len(Contents(m, b)) = m.buffers[b].capacity
                              /\ m.heap[DataOf(m, b)] # <<>>
           /\ ~OnHeap(m, b) => /\ Contents(m, b) = m.buffers[b].store
                               /\ Len(Contents(m, b)) = SizeOfStore(b)
<1>1. m \in Memories /\ Len(m.buffers[b].store) = SizeOfStore(b) /\ BlockIsHeld(m, b)
  BY DEF GoodMemory
<1>2. /\ m.buffers[b] \in BufferStates
      /\ DataOf(m, b) \in Blocks \cup {0}
      /\ m.buffers[b].size \in Nat /\ m.buffers[b].capacity \in Nat
      /\ m.buffers[b].store \in Characters
  BY <1>1 DEF Memories, BufferStates, DataOf
<1>3. \A block \in Blocks : m.heap[block] \in Characters
  BY <1>1 DEF Memories
<1>4. Contents(m, b) \in Characters
  BY <1>2, <1>3 DEF Contents, DataOf
<1>5. Len(Contents(m, b)) \in Nat
  BY <1>4, LenProperties DEF Characters
<1> QED BY <1>1, <1>2, <1>4, <1>5 DEF BlockIsHeld, OnHeap, Contents, DataOf

(* A text taken from a buffer that has it.                                 *)
LEMMA TextFacts ==
    ASSUME NEW m, NEW b, Contents(m, b) \in Characters,
           NEW size \in Nat, size <= Len(Contents(m, b))
    PROVE  /\ TextOf(m, b, size) \in Characters
           /\ Len(TextOf(m, b, size)) = size
           /\ \A k \in 1 .. size : TextOf(m, b, size)[k] = Contents(m, b)[k]
<1> DEFINE s == Contents(m, b)
<1>1. \A k \in 1 .. size : k <= Len(s) /\ s[k] \in Nat
  BY DEF Characters
<1>2. TextOf(m, b, size) = [k \in 1 .. size |-> s[k]]
  BY <1>1 DEF TextOf
<1> HIDE DEF s
<1>3. [k \in 1 .. size |-> s[k]] \in [1 .. size -> Nat]
  BY <1>1
<1> QED BY <1>2, <1>3 DEF Characters, s

(* A buffer whose contents are left has the text it had.                   *)
LEMMA SameText ==
    ASSUME NEW m, NEW r, NEW b, NEW size, Contents(r, b) = Contents(m, b)
    PROVE  TextOf(r, b, size) = TextOf(m, b, size)
  BY DEF TextOf

(* A step that changes one buffer and leaves the blocks of the others.     *)
LEMMA GoodAfter ==
    ASSUME NEW m, GoodMemory(m), NEW b \in Bufs, NEW r \in Memories, ~r.misused,
           \A c \in Bufs : c # b =>
              /\ r.buffers[c] = m.buffers[c]
              /\ OnHeap(m, c) => r.heap[DataOf(m, c)] = m.heap[DataOf(m, c)],
           Len(r.buffers[b].store) = SizeOfStore(b), BlockIsHeld(r, b),
           \A c \in Bufs : c # b /\ OnHeap(r, b) => DataOf(m, c) # DataOf(r, b),
           \A block \in Blocks :
              r.heap[block] # <<>> => \/ DataOf(r, b) = block
                                      \/ m.heap[block] # <<>> /\ DataOf(m, b) # block
    PROVE  GoodMemory(r) /\ OthersKept(m, r, b)
<1>1. \A c \in Bufs : c # b => /\ DataOf(r, c) = DataOf(m, c)
                               /\ OnHeap(r, c) <=> OnHeap(m, c)
  BY DEF DataOf, OnHeap
<1>2. ASSUME NEW c \in Bufs, c # b
      PROVE  Contents(r, c) = Contents(m, c) /\ r.buffers[c] = m.buffers[c]
  BY <1>2 DEF Contents, OnHeap, DataOf
<1>3. OthersKept(m, r, b)
  BY <1>2 DEF OthersKept
<1>4. ASSUME NEW c \in Bufs
      PROVE  Len(r.buffers[c].store) = SizeOfStore(c) /\ BlockIsHeld(r, c)
  <2>1. CASE c = b
    BY <2>1
  <2>2. CASE c # b
    <3>1. Len(m.buffers[c].store) = SizeOfStore(c) /\ BlockIsHeld(m, c)
      BY DEF GoodMemory
    <3> QED BY <1>1, <2>2, <3>1 DEF BlockIsHeld
  <2> QED BY <2>1, <2>2
<1>5. BlocksAreExclusive(r)
  <2> SUFFICES ASSUME NEW c \in Bufs, NEW d \in Bufs, c # d, OnHeap(r, c)
               PROVE  DataOf(r, c) # DataOf(r, d)
    BY DEF BlocksAreExclusive
  <2>1. \A x, y \in Bufs : x # y /\ OnHeap(m, x) => DataOf(m, x) # DataOf(m, y)
    BY DEF GoodMemory, BlocksAreExclusive
  <2>2. CASE c # b /\ d # b
    BY <1>1, <2>1, <2>2
  <2>3. CASE c = b
    BY <1>1, <2>3
  <2>4. CASE d = b /\ c # b
    BY <1>1, <2>4 DEF OnHeap
  <2> QED BY <2>2, <2>3, <2>4
<1>6. NoBlockIsLost(r)
  <2> SUFFICES ASSUME NEW block \in Blocks, r.heap[block] # <<>>
               PROVE  \E c \in Bufs : DataOf(r, c) = block
    BY DEF NoBlockIsLost
  <2>1. CASE DataOf(r, b) = block
    BY <2>1
  <2>2. CASE m.heap[block] # <<>> /\ DataOf(m, b) # block
    <3>1. PICK c \in Bufs : DataOf(m, c) = block
      BY <2>2 DEF GoodMemory, NoBlockIsLost
    <3> QED BY <1>1, <2>2, <3>1
  <2> QED BY <2>1, <2>2
<1> QED BY <1>3, <1>4, <1>5, <1>6 DEF GoodMemory

(* A function from 1 .. n is a text of n characters.                       *)
LEMMA CharactersFrom ==
    ASSUME NEW n \in Nat, NEW f \in [1 .. n -> Nat]
    PROVE  f \in Characters /\ Len(f) = n
  BY DEF Characters

(* Writing within a buffer.                                                *)
LEMMA PutWrites ==
    ASSUME NEW m, GoodMemory(m), NEW b \in Bufs, NEW offset \in Nat,
           NEW text \in Characters, offset + Len(text) <= Len(Contents(m, b))
    PROVE  LET r == Put(m, b, offset, text)
           IN /\ GoodMemory(r) /\ OthersKept(m, r, b)
              /\ r.buffers[b].data = m.buffers[b].data
              /\ r.buffers[b].size = m.buffers[b].size
              /\ r.buffers[b].capacity = m.buffers[b].capacity
              /\ Len(Contents(r, b)) = Len(Contents(m, b))
              /\ \A k \in 1 .. Len(Contents(m, b)) :
                    Contents(r, b)[k] = IF k \in offset + 1 .. offset + Len(text)
                                        THEN text[k - offset] ELSE Contents(m, b)[k]
<1> DEFINE place == DataOf(m, b)
           was == Contents(m, b)
           now == [k \in DOMAIN was |->
                      IF k \in offset + 1 .. offset + Len(text) THEN text[k - offset]
                                                                ELSE was[k]]
           r == Put(m, b, offset, text)
<1>1. /\ m \in Memories /\ ~m.misused /\ was \in Characters /\ Len(was) \in Nat
      /\ DOMAIN was = 1 .. Len(was) /\ Len(text) \in Nat
      /\ place \in Blocks \cup {0}
      /\ OnHeap(m, b) => /\ place \in Blocks /\ was = m.heap[place]
                         /\ Len(was) = m.buffers[b].capacity /\ was # <<>>
      /\ ~OnHeap(m, b) => was = m.buffers[b].store /\ Len(was) = SizeOfStore(b)
  BY BufferFacts, LenProperties DEF GoodMemory, Characters
<1>2. now \in Characters /\ Len(now) = Len(was)
  <2>1. \A k \in 1 .. Len(was) : was[k] \in Nat
    BY <1>1 DEF Characters
  <2>2. \A k \in offset + 1 .. offset + Len(text) : text[k - offset] \in Nat
    BY <1>1, SMTT(30) DEF Characters
  <2>3. now \in [1 .. Len(was) -> Nat]
    BY <1>1, <2>1, <2>2
  <2>4. Len(was) \in Nat
    BY <1>1
  <2> HIDE DEF now, was
  <2> QED BY <2>3, <2>4, CharactersFrom
<1>3. \A k \in 1 .. Len(was) :
         now[k] = IF k \in offset + 1 .. offset + Len(text) THEN text[k - offset] ELSE was[k]
  BY <1>1
<1>4. ~(offset + Len(text) > Len(was))
  BY <1>1
<1>5. r \in Memories /\ ~r.misused
      /\ IF place = 0 THEN r.buffers = [m.buffers EXCEPT ![b].store = now] /\ r.heap = m.heap
         ELSE r.buffers = m.buffers /\ r.heap = [m.heap EXCEPT ![place] = now]
  <2>1. CASE place = 0
    <3>1. r = [m EXCEPT !.misused = FALSE, !.buffers[b].store = now]
      BY <1>1, <1>4, <2>1 DEF Put, DataOf, Memories
    <3>2. m.buffers \in [Bufs -> BufferStates] /\ m.heap \in [Blocks -> Characters]
      BY <1>1 DEF Memories
    <3> DEFINE buffers == [m.buffers EXCEPT ![b].store = now]
    <3>3. buffers \in [Bufs -> BufferStates]
      BY <1>2, <3>2 DEF BufferStates
    <3> HIDE DEF now, buffers
    <3>4. r = [buffers |-> buffers, heap |-> m.heap, misused |-> FALSE]
      BY <1>1, <3>1 DEF Memories, buffers
    <3> HIDE DEF r
    <3> QED BY <2>1, <3>2, <3>3, <3>4 DEF Memories, buffers
  <2>2. CASE place # 0
    <3>1. r = [m EXCEPT !.misused = FALSE, !.heap[place] = now]
      BY <1>1, <1>4, <2>2 DEF Put, DataOf, Memories
    <3> HIDE DEF now, r, place
    <3> QED BY <1>1, <1>2, <2>2, <3>1 DEF Memories
  <2> QED BY <2>1, <2>2
<1> HIDE DEF now, r
<1>6. /\ \A c \in Bufs : c # b => r.buffers[c] = m.buffers[c]
      /\ r.buffers[b].data = m.buffers[b].data
      /\ r.buffers[b].size = m.buffers[b].size
      /\ r.buffers[b].capacity = m.buffers[b].capacity
      /\ Contents(r, b) = now
      /\ Len(r.buffers[b].store) = SizeOfStore(b)
  <2>1. m.buffers \in [Bufs -> BufferStates] /\ m.heap \in [Blocks -> Characters]
    BY <1>1 DEF Memories
  <2>2. Len(m.buffers[b].store) = SizeOfStore(b)
    BY DEF GoodMemory
  <2>0. place = m.buffers[b].data
    BY DEF DataOf
  <2>3. CASE place = 0
    <3>1. r.buffers = [m.buffers EXCEPT ![b].store = now] /\ r.heap = m.heap
      BY <1>5, <2>3
    <3> DEFINE o == m.buffers[b]
    <3>2. o \in BufferStates /\ r.buffers = [m.buffers EXCEPT ![b] = [o EXCEPT !.store = now]]
      BY <2>1, <3>1
    <3> HIDE DEF o
    <3>3. /\ [o EXCEPT !.store = now].data = o.data
          /\ [o EXCEPT !.store = now].size = o.size
          /\ [o EXCEPT !.store = now].capacity = o.capacity
          /\ [o EXCEPT !.store = now].store = now
      BY <3>2 DEF BufferStates
    <3>4. r.buffers[b] = [o EXCEPT !.store = now]
      BY <2>1, <3>2
    <3>5. \A c \in Bufs : c # b => r.buffers[c] = m.buffers[c]
      BY <2>1, <3>1
    <3>6. Contents(r, b) = now
      BY <2>0, <2>3, <3>3, <3>4 DEF Contents, DataOf, OnHeap, o
    <3>7. Len(now) = SizeOfStore(b)
      BY <1>1, <1>2, <2>0, <2>2, <2>3 DEF Contents, OnHeap, DataOf
    <3> QED BY <3>3, <3>4, <3>5, <3>6, <3>7 DEF o
  <2>4. CASE place # 0
    <3>1. r.buffers = m.buffers /\ r.heap = [m.heap EXCEPT ![place] = now]
      BY <1>5, <2>4
    <3>2. Contents(r, b) = now
      BY <1>1, <2>0, <2>1, <2>4, <3>1 DEF Contents, DataOf, OnHeap
    <3> QED BY <2>2, <3>1, <3>2
  <2> QED BY <2>3, <2>4
<1>7. GoodMemory(r) /\ OthersKept(m, r, b)
  <2>1. \A c \in Bufs : c # b => /\ r.buffers[c] = m.buffers[c]
                                 /\ OnHeap(m, c) => r.heap[DataOf(m, c)] = m.heap[DataOf(m, c)]
    <3> SUFFICES ASSUME NEW c \in Bufs, c # b, OnHeap(m, c)
                 PROVE  r.heap[DataOf(m, c)] = m.heap[DataOf(m, c)]
      BY <1>6
    <3>1. DataOf(m, c) # place
      BY DEF GoodMemory, BlocksAreExclusive
    <3>2. DataOf(m, c) \in Blocks
      BY BufferFacts
    <3>3. m.heap \in [Blocks -> Characters]
      BY <1>1 DEF Memories
    <3> QED BY <1>5, <3>1, <3>2, <3>3
  <2>2. BlockIsHeld(r, b)
    <3> SUFFICES ASSUME OnHeap(r, b)
                 PROVE  /\ r.heap[DataOf(r, b)] # <<>>
                        /\ Len(r.heap[DataOf(r, b)]) = r.buffers[b].capacity
      BY DEF BlockIsHeld
    <3>1. OnHeap(m, b) /\ DataOf(r, b) = place
      BY <1>6 DEF OnHeap, DataOf
    <3>2. r.heap[place] = now
      BY <1>6, <3>1 DEF Contents, DataOf, OnHeap
    <3>3. Len(was) # 0
      BY <1>1, <3>1, EmptySeq DEF Characters
    <3>4. now # <<>>
      BY <1>2, <3>3
    <3> QED BY <1>1, <1>2, <1>6, <3>1, <3>2, <3>4
  <2>3. \A c \in Bufs : c # b /\ OnHeap(r, b) => DataOf(m, c) # DataOf(r, b)
    <3>1. DataOf(r, b) = place /\ (OnHeap(r, b) <=> OnHeap(m, b))
      BY <1>6 DEF OnHeap, DataOf
    <3> QED BY <3>1 DEF GoodMemory, BlocksAreExclusive
  <2>4. \A block \in Blocks :
           r.heap[block] # <<>> => \/ DataOf(r, b) = block
                                   \/ m.heap[block] # <<>> /\ DataOf(m, b) # block
    <3> SUFFICES ASSUME NEW block \in Blocks, r.heap[block] # <<>>, DataOf(r, b) # block
                 PROVE  m.heap[block] # <<>> /\ DataOf(m, b) # block
      OBVIOUS
    <3>1. DataOf(r, b) = place /\ place # block
      BY <1>6 DEF DataOf
    <3>2. m.heap \in [Blocks -> Characters]
      BY <1>1 DEF Memories
    <3> QED BY <1>5, <3>1, <3>2
  <2> QED BY <1>5, <1>6, <2>1, <2>2, <2>3, <2>4, GoodAfter
<1> QED BY <1>2, <1>3, <1>6, <1>7 DEF r

(* A memory by its parts, and what each step makes of them.                *)
Memory(buffers, heap, misused) ==
    [buffers |-> buffers, heap |-> heap, misused |-> misused]
AllBuffers == [Bufs -> BufferStates]
Heaps == [Blocks -> Characters]

(* A memory is its three parts,                                            *)
LEMMA MemoryParts ==
    ASSUME NEW buffers \in AllBuffers, NEW heap \in Heaps, NEW misused \in BOOLEAN
    PROVE  /\ Memory(buffers, heap, misused) \in Memories
           /\ Memory(buffers, heap, misused).buffers = buffers
           /\ Memory(buffers, heap, misused).heap = heap
           /\ Memory(buffers, heap, misused).misused = misused
  BY DEF Memory, Memories, AllBuffers, Heaps

(* and nothing else.                                                       *)
LEMMA MemoryIs ==
    ASSUME NEW m \in Memories
    PROVE  /\ m = Memory(m.buffers, m.heap, m.misused)
           /\ m.buffers \in AllBuffers /\ m.heap \in Heaps /\ m.misused \in BOOLEAN
  BY DEF Memory, Memories, AllBuffers, Heaps

(* What is left when a block,                                              *)
LEMMA HeapWritten ==
    ASSUME NEW m \in Memories, NEW block, NEW text
    PROVE  [m EXCEPT !.heap[block] = text]
               = Memory(m.buffers, [m.heap EXCEPT ![block] = text], m.misused)
  BY DEF Memory, Memories

(* or a buffer, is written, or a block is freed.                           *)
LEMMA BufferWritten ==
    ASSUME NEW m \in Memories, NEW b, NEW buffer
    PROVE  [m EXCEPT !.buffers[b] = buffer]
               = Memory([m.buffers EXCEPT ![b] = buffer], m.heap, m.misused)
  BY DEF Memory, Memories

(* Freeing a free block is a misuse.                                       *)
LEMMA FreeIs ==
    ASSUME NEW m \in Memories, NEW block
    PROVE  Free(m, block) = Memory(m.buffers, [m.heap EXCEPT ![block] = <<>>],
                                   m.misused \/ m.heap[block] = <<>>)
<1> DEFINE misused == m.misused \/ m.heap[block] = <<>>
           x == Memory(m.buffers, m.heap, misused)
<1>1. x \in Memories /\ x.buffers = m.buffers /\ x.heap = m.heap /\ x.misused = misused
  <2>1. misused \in BOOLEAN
    OBVIOUS
  <2> HIDE DEF misused
  <2> QED BY <2>1, MemoryIs, MemoryParts
<1>2. [m EXCEPT !.misused = misused] = x
  <2> HIDE DEF misused
  <2> QED BY DEF Memory, Memories
<1>3. Free(m, block) = [[m EXCEPT !.misused = misused] EXCEPT !.heap[block] = <<>>]
  BY DEF Free
<1> HIDE DEF x, misused
<1>4. [x EXCEPT !.heap[block] = <<>>]
          = Memory(x.buffers, [x.heap EXCEPT ![block] = <<>>], x.misused)
  BY <1>1, HeapWritten
<1> QED BY <1>1, <1>2, <1>3, <1>4 DEF misused

(* Setting one field of a buffer leaves the others.                        *)
LEMMA BufferFields ==
    ASSUME NEW D, NEW S, NEW C, NEW T,
           NEW o \in [data : D, size : S, capacity : C, store : T], NEW x
    PROVE  /\ [o EXCEPT !.data = x] = [data |-> x, size |-> o.size,
                                       capacity |-> o.capacity, store |-> o.store]
           /\ [o EXCEPT !.size = x] = [data |-> o.data, size |-> x,
                                       capacity |-> o.capacity, store |-> o.store]
           /\ [o EXCEPT !.capacity = x] = [data |-> o.data, size |-> o.size,
                                           capacity |-> x, store |-> o.store]
           /\ [o EXCEPT !.store = x] = [data |-> o.data, size |-> o.size,
                                        capacity |-> o.capacity, store |-> x]
<1>1. [o EXCEPT !.data = x] = [data |-> x, size |-> o.size,
                               capacity |-> o.capacity, store |-> o.store]
  OBVIOUS
<1>2. [o EXCEPT !.size = x] = [data |-> o.data, size |-> x,
                               capacity |-> o.capacity, store |-> o.store]
  OBVIOUS
<1>3. [o EXCEPT !.capacity = x] = [data |-> o.data, size |-> o.size,
                                   capacity |-> x, store |-> o.store]
  OBVIOUS
<1>4. [o EXCEPT !.store = x] = [data |-> o.data, size |-> o.size,
                                capacity |-> o.capacity, store |-> x]
  OBVIOUS
<1> QED BY <1>1, <1>2, <1>3, <1>4

(* set() changes where the data is and the capacity.                       *)
LEMMA SetDataIs ==
    ASSUME NEW m \in Memories, NEW b \in Bufs, NEW place, NEW capacity
    PROVE  SetData(m, b, place, capacity)
               = Memory([m.buffers EXCEPT ![b] =
                            [data |-> place, size |-> m.buffers[b].size,
                             capacity |-> capacity, store |-> m.buffers[b].store]],
                        m.heap, m.misused)
<1> DEFINE o == m.buffers[b]
           p == [data |-> place, size |-> o.size, capacity |-> o.capacity, store |-> o.store]
           q == [data |-> place, size |-> o.size, capacity |-> capacity, store |-> o.store]
           x == [o EXCEPT !.data = place, !.capacity = capacity]
<1>1. o \in [data : Blocks \cup {0}, size : Nat, capacity : Nat, store : Characters]
  BY DEF Memories, BufferStates
<1>2. SetData(m, b, place, capacity) = [m EXCEPT !.buffers[b] = x]
  BY DEF SetData, Memories
<1>3. [m EXCEPT !.buffers[b] = x] = Memory([m.buffers EXCEPT ![b] = x], m.heap, m.misused)
  <2> HIDE DEF x
  <2> QED BY BufferWritten
<1>4. x = q
  <2>1. p \in [data : {place}, size : Nat, capacity : Nat, store : Characters]
        /\ p.data = place /\ p.size = o.size /\ p.store = o.store
    BY <1>1
  <2>2. [o EXCEPT !.data = place] = p
    <3> HIDE DEF o
    <3> QED BY <1>1
  <2>3. x = [[o EXCEPT !.data = place] EXCEPT !.capacity = capacity]
    OBVIOUS
  <2> HIDE DEF o, p, x
  <2>4. [p EXCEPT !.capacity = capacity]
            = [data |-> p.data, size |-> p.size, capacity |-> capacity, store |-> p.store]
    BY <2>1, BufferFields
  <2> QED BY <2>1, <2>2, <2>3, <2>4
<1> HIDE DEF x
<1> QED BY <1>2, <1>3, <1>4

(* The buffers hold as many blocks as there are buffers at most.           *)
LEMMA SomeBlockIsFree ==
    ASSUME NEW m, GoodMemory(m)
    PROVE  \E block \in Blocks : m.heap[block] = <<>>
<1> SUFFICES ASSUME \A block \in Blocks : m.heap[block] # <<>> PROVE FALSE
  OBVIOUS
<1> DEFINE held == {DataOf(m, b) : b \in Bufs}
<1>1. Blocks \subseteq held
  BY DEF GoodMemory, NoBlockIsLost
<1>2. Bufs = 0 .. QueueSlots + 3
  BY Shapes DEF Bufs, QueueIndices, Locals
<1>3. IsFiniteSet(Bufs) /\ Cardinality(Bufs) = QueueSlots + 4
  <2>1. 0 \in Nat /\ QueueSlots + 3 \in Nat
    BY Shapes
  <2>2. /\ IsFiniteSet(0 .. QueueSlots + 3)
        /\ Cardinality(0 .. QueueSlots + 3)
             = IF 0 <= QueueSlots + 3 THEN QueueSlots + 3 - 0 + 1 ELSE 0
    BY <2>1, FS_Interval
  <2> QED BY <1>2, <2>1, <2>2, Shapes
<1>4. IsFiniteSet(held) /\ Cardinality(held) <= Cardinality(Bufs)
  <2> DEFINE f == [b \in Bufs |-> DataOf(m, b)]
  <2>1. f \in Surjection(Bufs, held)
    BY DEF Surjection
  <2> HIDE DEF f, held
  <2> QED BY <1>3, <2>1, FS_Surjection
<1>5. IsFiniteSet(Blocks) /\ Cardinality(Blocks) <= Cardinality(held)
  BY <1>1, <1>4, FS_Subset
<1>6. Cardinality(Blocks) > QueueSlots + 4
  BY <1>5, HeapAssumption
<1>7. Cardinality(Blocks) \in Nat /\ Cardinality(held) \in Nat /\ QueueSlots \in Nat
  BY <1>4, <1>5, FS_CardinalityType, Shapes
<1> HIDE DEF held
<1> QED BY <1>3, <1>4, <1>5, <1>6, <1>7

(* grow() moves the text to a larger block, keeps it and frees the old     *)
(* one, and leaves the other buffers alone.                                *)
LEMMA GrowKeeps ==
    ASSUME NEW m, GoodMemory(m), NEW b \in Bufs, Sound(m, b),
           NEW size \in Nat, size > m.buffers[b].capacity
    PROVE  LET r == Grow(m, b, size)
           IN /\ GoodMemory(r) /\ OthersKept(m, r, b) /\ Sound(r, b)
              /\ r.buffers[b].size = m.buffers[b].size
              /\ size <= r.buffers[b].capacity
              /\ Text(r, b) = Text(m, b)
<1> DEFINE old == m.buffers[b]
           least == old.capacity + old.capacity \div 2
           capacity == IF size > least THEN size ELSE least
           block == CHOOSE free \in Blocks : m.heap[free] = <<>>
           new == TextOf(m, b, old.size) \o Unwritten(capacity - old.size)
           heap == [m.heap EXCEPT ![block] = new]
           r == Grow(m, b, size)
<1>1. /\ old \in BufferStates /\ old.size \in Nat /\ old.capacity \in Nat
      /\ old.size <= old.capacity /\ old.capacity = Len(Contents(m, b))
      /\ Contents(m, b) \in Characters
  BY BufferFacts DEF Sound
<1>2. capacity \in Nat /\ size <= capacity /\ old.size < capacity
  BY <1>1
<1>3. block \in Blocks /\ m.heap[block] = <<>>
  BY SomeBlockIsFree
<1>4. /\ new \in Characters /\ Len(new) = capacity
      /\ \A k \in 1 .. old.size : new[k] = TextOf(m, b, old.size)[k]
  <2> DEFINE n == capacity - old.size
             s == TextOf(m, b, old.size)
  <2>1. n \in Nat /\ n + old.size = capacity
    BY <1>1, <1>2
  <2>2. s \in Seq(Nat) /\ Len(s) = old.size
    BY <1>1, TextFacts DEF Characters
  <2>3. Unwritten(n) \in Seq(Nat) /\ Len(Unwritten(n)) = n
    <3> HIDE DEF n
    <3>1. Unwritten(n) \in [1 .. n -> Nat]
      BY DEF Unwritten
    <3> QED BY <2>1, <3>1, CharactersFrom DEF Characters
  <2> HIDE DEF n, s, capacity
  <2>4. s \o Unwritten(n) \in Seq(Nat) /\ Len(s \o Unwritten(n)) = old.size + n
        /\ \A k \in 1 .. old.size : (s \o Unwritten(n))[k] = s[k]
    <3> HIDE DEF Unwritten
    <3> DEFINE u == Unwritten(n)
    <3> HIDE DEF u
    <3>1. u \in Seq(Nat) /\ s \in Seq(Nat) /\ Len(s) = old.size /\ Len(u) = n
      BY <2>2, <2>3 DEF u
    <3>2. s \o u \in Seq(Nat) /\ Len(s \o u) = Len(s) + Len(u)
      BY <3>1, ConcatProperties
    <3>3. \A k \in 1 .. Len(s) + Len(u) :
             (s \o u)[k] = IF k <= Len(s) THEN s[k] ELSE u[k - Len(s)]
      BY <3>1, ConcatProperties
    <3>4. \A k \in 1 .. old.size : k \in 1 .. Len(s) + Len(u) /\ k <= Len(s)
      BY <2>1, <1>1, <3>1
    <3> QED BY <3>1, <3>2, <3>3, <3>4 DEF u
  <2> QED BY <1>1, <2>1, <2>4, SMTT(30) DEF Characters, n, s
<1>5. DataOf(m, b) = 0 \/ (DataOf(m, b) \in Blocks /\ m.heap[DataOf(m, b)] # <<>>)
  BY BufferFacts DEF OnHeap
<1>6. /\ m \in Memories /\ m.misused = FALSE
      /\ m.buffers \in [Bufs -> BufferStates] /\ m.heap \in [Blocks -> Characters]
  BY DEF GoodMemory, Memories
<1>7. block # DataOf(m, b) /\ block # 0
  BY <1>3, <1>5, Shapes
<1> HIDE DEF new, block, capacity
<1> DEFINE buffers == [m.buffers EXCEPT ![b] =
                          [data |-> block, size |-> old.size, capacity |-> capacity,
                           store |-> old.store]]
           kept == IF DataOf(m, b) = 0 THEN heap ELSE [heap EXCEPT ![DataOf(m, b)] = <<>>]
<1>8. r = Memory(buffers, kept, FALSE)
  <2> DEFINE copied == Memory(m.buffers, heap, FALSE)
             set == Memory(buffers, heap, FALSE)
  <2>1. m.buffers \in AllBuffers /\ heap \in Heaps /\ buffers \in AllBuffers
    BY <1>1, <1>2, <1>3, <1>4, <1>6 DEF AllBuffers, Heaps, BufferStates
  <2>2. [m EXCEPT !.heap[block] = new] = copied
    BY <1>6, HeapWritten
  <2> HIDE DEF heap
  <2>3. copied \in Memories /\ copied.buffers = m.buffers /\ copied.heap = heap
        /\ copied.misused = FALSE
    BY <2>1, MemoryParts
  <2>4. SetData(copied, b, block, capacity) = set
    <3> HIDE DEF copied
    <3> QED BY <2>3, SetDataIs
  <2>5. CASE DataOf(m, b) = 0
    <3>1. r = SetData([m EXCEPT !.heap[block] = new], b, block, capacity)
      BY <2>5 DEF Grow, DataOf, block, new, capacity
    <3> QED BY <2>2, <2>4, <2>5, <3>1
  <2>6. CASE DataOf(m, b) # 0
    <3>1. r = Free(SetData([m EXCEPT !.heap[block] = new], b, block, capacity), DataOf(m, b))
      BY <2>6 DEF Grow, DataOf, block, new, capacity
    <3>2. heap[DataOf(m, b)] # <<>>
      BY <1>3, <1>5, <1>6, <1>7, <2>6 DEF heap
    <3> HIDE DEF buffers, r, copied
    <3>3. r = Free(set, DataOf(m, b))
      BY <2>2, <2>4, <3>1
    <3>4. set \in Memories /\ set.buffers = buffers /\ set.heap = heap /\ set.misused = FALSE
      BY <2>1, MemoryParts
    <3> HIDE DEF set
    <3>5. Free(set, DataOf(m, b)) = Memory(buffers, [heap EXCEPT ![DataOf(m, b)] = <<>>],
                                          FALSE \/ heap[DataOf(m, b)] = <<>>)
      BY <3>4, FreeIs
    <3>6. (FALSE \/ heap[DataOf(m, b)] = <<>>) = FALSE
      BY <3>2
    <3> QED BY <2>6, <3>3, <3>5, <3>6
  <2> QED BY <2>5, <2>6
<1> HIDE DEF r
<1>9. buffers \in [Bufs -> BufferStates] /\ kept \in [Blocks -> Characters]
  <2>1. buffers \in [Bufs -> BufferStates]
    BY <1>1, <1>2, <1>3, <1>6 DEF BufferStates
  <2>2. <<>> \in Characters
    BY DEF Characters
  <2> QED BY <1>3, <1>4, <1>5, <1>6, <2>1, <2>2
<1>10. /\ kept[block] = new
       /\ \A x \in Blocks : x # block /\ x # DataOf(m, b) => kept[x] = m.heap[x]
       /\ DataOf(m, b) # 0 => kept[DataOf(m, b)] = <<>>
  BY <1>3, <1>5, <1>6, <1>7
<1>11. /\ buffers[b].data = block /\ buffers[b].size = old.size
       /\ buffers[b].capacity = capacity /\ buffers[b].store = old.store
       /\ \A c \in Bufs : c # b => buffers[c] = m.buffers[c]
  BY <1>6
<1>12. new # <<>>
  BY <1>1, <1>2, <1>4
<1> HIDE DEF buffers, kept
<1>0. r \in Memories /\ r.buffers = buffers /\ r.heap = kept /\ ~r.misused
  BY <1>8, <1>9, MemoryParts DEF AllBuffers, Heaps
<1>13. GoodMemory(r) /\ OthersKept(m, r, b)
  <2>1. r \in Memories /\ ~r.misused
    BY <1>0
  <2>2. ASSUME NEW c \in Bufs, c # b
        PROVE  /\ r.buffers[c] = m.buffers[c]
               /\ OnHeap(m, c) => r.heap[DataOf(m, c)] = m.heap[DataOf(m, c)]
               /\ DataOf(m, c) # DataOf(r, b)
    <3>1. OnHeap(m, c) => /\ DataOf(m, c) # DataOf(m, b) /\ DataOf(m, c) # block
                          /\ DataOf(m, c) \in Blocks
      BY <1>3, <2>2, BufferFacts DEF GoodMemory, BlocksAreExclusive
    <3> QED BY <1>7, <1>0, <1>10, <1>11, <2>2, <3>1 DEF OnHeap, DataOf
  <2>3. Len(r.buffers[b].store) = SizeOfStore(b) /\ BlockIsHeld(r, b)
    BY <1>4, <1>0, <1>10, <1>11, <1>12 DEF GoodMemory, BlockIsHeld, DataOf
  <2>4. ASSUME NEW x \in Blocks, r.heap[x] # <<>>
        PROVE  DataOf(r, b) = x \/ (m.heap[x] # <<>> /\ DataOf(m, b) # x)
    BY <1>5, <1>0, <1>10, <1>11, <2>4, Shapes DEF DataOf
  <2> QED BY <2>1, <2>2, <2>3, <2>4, GoodAfter
<1>14. Contents(r, b) = new /\ r.buffers[b].size = old.size /\ r.buffers[b].capacity = capacity
  BY <1>7, <1>0, <1>10, <1>11 DEF Contents
<1>15. Text(r, b) = Text(m, b)
  <2>1. Text(r, b) = TextOf(r, b, old.size) /\ Text(m, b) = TextOf(m, b, old.size)
    BY <1>14 DEF Text
  <2>2. /\ TextOf(r, b, old.size) \in Seq(Nat) /\ Len(TextOf(r, b, old.size)) = old.size
        /\ \A k \in 1 .. old.size : TextOf(r, b, old.size)[k] = new[k]
    <3>1. Contents(r, b) \in Characters /\ old.size \in Nat /\ old.size <= Len(Contents(r, b))
      BY <1>1, <1>2, <1>4, <1>14
    <3>2. /\ TextOf(r, b, old.size) \in Characters /\ Len(TextOf(r, b, old.size)) = old.size
          /\ \A k \in 1 .. old.size : TextOf(r, b, old.size)[k] = Contents(r, b)[k]
      BY <3>1, TextFacts
    <3> QED BY <1>14, <3>2 DEF Characters
  <2>3. TextOf(m, b, old.size) \in Seq(Nat) /\ Len(TextOf(m, b, old.size)) = old.size
    BY <1>1, TextFacts DEF Characters
  <2>4. \A k \in 1 .. old.size : TextOf(r, b, old.size)[k] = TextOf(m, b, old.size)[k]
    BY <1>4, <2>2
  <2> QED BY <2>1, <2>2, <2>3, <2>4, SeqEqual
<1>16. Sound(r, b)
  BY <1>1, <1>2, <1>4, <1>14 DEF Sound
<1> QED BY <1>2, <1>13, <1>14, <1>15, <1>16 DEF r

(* Setting a size moves nothing.                                           *)
LEMMA SizeIsSet ==
    ASSUME NEW m, GoodMemory(m), NEW b \in Bufs, NEW n \in Nat
    PROVE  LET r == [m EXCEPT !.buffers[b].size = n]
           IN /\ GoodMemory(r) /\ OthersKept(m, r, b)
              /\ r.buffers[b].size = n
              /\ r.buffers[b].data = m.buffers[b].data
              /\ r.buffers[b].capacity = m.buffers[b].capacity
              /\ Contents(r, b) = Contents(m, b)
<1> DEFINE o == m.buffers[b]
           x == [o EXCEPT !.size = n]
           buffers == [m.buffers EXCEPT ![b] = x]
           r == [m EXCEPT !.buffers[b].size = n]
<1>1. /\ m \in Memories /\ ~m.misused /\ m.misused = FALSE
      /\ m.buffers \in AllBuffers /\ m.heap \in Heaps /\ o \in BufferStates
  BY BufferFacts, MemoryIs DEF GoodMemory
<1>2. x = [data |-> o.data, size |-> n, capacity |-> o.capacity, store |-> o.store]
  <2>1. o \in BufferStates
    BY <1>1
  <2> HIDE DEF o
  <2> QED BY <2>1 DEF BufferStates
<1>3. r = Memory(buffers, m.heap, FALSE)
  <2>1. r = [m EXCEPT !.buffers[b] = x]
    OBVIOUS
  <2> HIDE DEF x
  <2>2. [m EXCEPT !.buffers[b] = x] = Memory([m.buffers EXCEPT ![b] = x], m.heap, m.misused)
    BY <1>1, BufferWritten
  <2> QED BY <1>1, <2>1, <2>2
<1>4. x \in BufferStates /\ x.data = o.data /\ x.size = n /\ x.capacity = o.capacity
      /\ x.store = o.store
  BY <1>1, <1>2 DEF BufferStates
<1> HIDE DEF x, r
<1>5. buffers \in AllBuffers /\ buffers[b] = x /\ \A c \in Bufs : c # b => buffers[c] = m.buffers[c]
  BY <1>1, <1>4 DEF AllBuffers
<1> HIDE DEF buffers
<1>6. r \in Memories /\ r.buffers = buffers /\ r.heap = m.heap /\ ~r.misused
  <2>1. FALSE \in BOOLEAN
    OBVIOUS
  <2>2. m.heap \in Heaps /\ buffers \in AllBuffers
    BY <1>1, <1>5
  <2>3. r \in Memories /\ r.buffers = buffers /\ r.heap = m.heap /\ r.misused = FALSE
    BY <1>3, <2>1, <2>2, MemoryParts
  <2> QED BY <2>3
<1>7. /\ DataOf(r, b) = DataOf(m, b) /\ (OnHeap(r, b) <=> OnHeap(m, b))
      /\ Contents(r, b) = Contents(m, b)
      /\ r.buffers[b].size = n /\ r.buffers[b].data = o.data
      /\ r.buffers[b].capacity = o.capacity /\ r.buffers[b].store = o.store
  BY <1>4, <1>5, <1>6 DEF DataOf, OnHeap, Contents
<1>8. Len(r.buffers[b].store) = SizeOfStore(b) /\ BlockIsHeld(r, b)
  BY <1>6, <1>7 DEF GoodMemory, BlockIsHeld
<1>9. \A c \in Bufs : c # b => /\ r.buffers[c] = m.buffers[c]
                               /\ DataOf(r, b) # 0 => DataOf(m, c) # DataOf(r, b)
  BY <1>5, <1>6, <1>7 DEF GoodMemory, BlocksAreExclusive, OnHeap
<1>10. GoodMemory(r) /\ OthersKept(m, r, b)
  BY <1>6, <1>7, <1>8, <1>9, GoodAfter DEF OnHeap
<1> QED BY <1>7, <1>10 DEF r

(* Appending: the text grows by what is appended, whether or not the       *)
(* buffer has to grow for it.                                              *)
LEMMA AppendKeeps ==
    ASSUME NEW m, GoodMemory(m), NEW b \in Bufs, Sound(m, b), NEW text \in Characters
    PROVE  LET r == AppendText(m, b, text)
           IN /\ GoodMemory(r) /\ OthersKept(m, r, b) /\ Sound(r, b)
              /\ Text(r, b) = Text(m, b) \o text
<1> DEFINE old == m.buffers[b].size
           size == old + Len(text)
           x == Reserve(m, b, size)
           y == Put(x, b, old, text)
           r == AppendText(m, b, text)
<1>1. /\ old \in Nat /\ Len(text) \in Nat /\ size \in Nat
      /\ m.buffers[b].capacity \in Nat
  BY BufferFacts, LenProperties DEF Characters
<1>2. /\ GoodMemory(x) /\ OthersKept(m, x, b) /\ Sound(x, b)
      /\ x.buffers[b].size = old /\ size <= x.buffers[b].capacity
      /\ Text(x, b) = Text(m, b)
  <2>1. CASE size > m.buffers[b].capacity
    <3>1. x = Grow(m, b, size)
      BY <2>1 DEF Reserve
    <3> HIDE DEF size, x
    <3> QED BY <1>1, <2>1, <3>1, GrowKeeps
  <2>2. CASE ~(size > m.buffers[b].capacity)
    <3>1. x = m
      BY <2>2 DEF Reserve
    <3> QED BY <1>1, <2>2, <3>1 DEF OthersKept
  <2> QED BY <2>1, <2>2
<1> HIDE DEF x
<1>3. /\ Contents(x, b) \in Characters /\ Len(Contents(x, b)) \in Nat
      /\ size <= Len(Contents(x, b)) /\ old <= Len(Contents(x, b))
  BY <1>1, <1>2, BufferFacts DEF Sound
<1>4. /\ GoodMemory(y) /\ OthersKept(x, y, b)
      /\ y.buffers[b].capacity = x.buffers[b].capacity
      /\ Len(Contents(y, b)) = Len(Contents(x, b))
      /\ \A k \in 1 .. Len(Contents(x, b)) :
            Contents(y, b)[k] = IF k \in old + 1 .. old + Len(text)
                                THEN text[k - old] ELSE Contents(x, b)[k]
  <2> HIDE DEF old
  <2> QED BY <1>1, <1>2, <1>3, PutWrites
<1>5. r = [y EXCEPT !.buffers[b].size = size]
  BY DEF AppendText, x
<1> HIDE DEF y, r
<1>6. /\ GoodMemory(r) /\ OthersKept(y, r, b) /\ r.buffers[b].size = size
      /\ r.buffers[b].capacity = y.buffers[b].capacity
      /\ Contents(r, b) = Contents(y, b)
  BY <1>1, <1>4, <1>5, SizeIsSet
<1>7. OthersKept(m, r, b)
  BY <1>2, <1>4, <1>6 DEF OthersKept
<1>8. Sound(r, b)
  BY <1>2, <1>3, <1>4, <1>6 DEF Sound
<1>9. Text(r, b) = Text(m, b) \o text
  <2> DEFINE s == Text(m, b)
             t == Text(r, b)
  <2>1. s = TextOf(x, b, old)
    BY <1>2 DEF Text
  <2>2. /\ s \in Seq(Nat) /\ Len(s) = old
        /\ \A k \in 1 .. old : s[k] = Contents(x, b)[k]
    <3>1. old \in Nat /\ Contents(x, b) \in Characters /\ old <= Len(Contents(x, b))
      BY <1>1, <1>3
    <3> HIDE DEF s, old
    <3>2. TextOf(x, b, old) \in Characters /\ Len(TextOf(x, b, old)) = old
          /\ \A k \in 1 .. old : TextOf(x, b, old)[k] = Contents(x, b)[k]
      BY <3>1, TextFacts
    <3> QED BY <2>1, <3>2 DEF Characters
  <2>3. /\ t \in Seq(Nat) /\ Len(t) = size
        /\ \A k \in 1 .. size : t[k] = Contents(y, b)[k]
    <3>1. t = TextOf(r, b, size) /\ Contents(r, b) \in Characters
          /\ size <= Len(Contents(r, b))
      BY <1>3, <1>4, <1>6, BufferFacts DEF Text
    <3> HIDE DEF t, size
    <3>2. TextOf(r, b, size) \in Characters /\ Len(TextOf(r, b, size)) = size
          /\ \A k \in 1 .. size : TextOf(r, b, size)[k] = Contents(r, b)[k]
      BY <1>1, <3>1, TextFacts
    <3> QED BY <1>6, <3>1, <3>2 DEF Characters
  <2> HIDE DEF s, t
  <2>4. /\ s \o text \in Seq(Nat) /\ Len(s \o text) = Len(s) + Len(text)
        /\ \A k \in 1 .. Len(s) + Len(text) :
              (s \o text)[k] = IF k <= Len(s) THEN s[k] ELSE text[k - Len(s)]
    <3>1. s \in Seq(Nat) /\ text \in Seq(Nat)
      BY <2>2 DEF Characters
    <3> QED BY <3>1, ConcatProperties
  <2> HIDE DEF old
  <2>5. ASSUME NEW k \in 1 .. size PROVE t[k] = (s \o text)[k]
    <3>1. k \in 1 .. Len(Contents(x, b)) /\ k \in 1 .. Len(s) + Len(text)
      BY <1>1, <1>3, <2>2
    <3>2. CASE k <= old
      <4>1. k \in 1 .. old /\ k \notin old + 1 .. old + Len(text) /\ k <= Len(s)
        BY <1>1, <2>2, <3>2
      <4>2. t[k] = Contents(y, b)[k] /\ Contents(y, b)[k] = Contents(x, b)[k]
        BY <1>4, <2>3, <3>1, <4>1
      <4>3. (s \o text)[k] = s[k] /\ s[k] = Contents(x, b)[k]
        BY <2>2, <2>4, <3>1, <4>1
      <4> QED BY <4>2, <4>3
    <3>3. CASE k > old
      <4>1. k \in old + 1 .. old + Len(text) /\ ~(k <= Len(s)) /\ Len(s) = old
        BY <1>1, <2>2, <3>3
      <4>2. t[k] = Contents(y, b)[k] /\ Contents(y, b)[k] = text[k - old]
        BY <1>4, <2>3, <3>1, <4>1
      <4>3. (s \o text)[k] = text[k - old]
        BY <2>4, <3>1, <4>1
      <4> QED BY <4>2, <4>3
    <3>4. k \in Nat
      BY <1>1
    <3>5. k <= old \/ k > old
      BY <1>1, <3>4
    <3> QED BY <3>2, <3>3, <3>5
  <2> HIDE DEF size
  <2>6. Len(s \o text) = size
    BY <2>2, <2>4 DEF size
  <2>7. t = s \o text
    BY <2>3, <2>4, <2>5, <2>6, SeqEqual
  <2> QED BY <2>7 DEF s, t
<1> QED BY <1>6, <1>7, <1>8, <1>9 DEF r

(* A buffer's block is freed once, and nobody else's.                      *)
LEMMA DeallocateFrees ==
    ASSUME NEW m, GoodMemory(m), NEW b \in Bufs
    PROVE  LET d == Deallocate(m, b)
           IN /\ d = Memory(m.buffers, d.heap, FALSE) /\ d \in Memories
              /\ d.buffers = m.buffers /\ d.heap \in Heaps /\ d.misused = FALSE
              /\ OnHeap(m, b) => d.heap[DataOf(m, b)] = <<>>
              /\ \A x \in Blocks : x # DataOf(m, b) => d.heap[x] = m.heap[x]
<1> DEFINE d == Deallocate(m, b)
           x == DataOf(m, b)
<1>1. /\ m \in Memories /\ m.misused = FALSE /\ m.buffers \in AllBuffers /\ m.heap \in Heaps
      /\ m = Memory(m.buffers, m.heap, m.misused)
      /\ OnHeap(m, b) => x \in Blocks /\ m.heap[x] # <<>>
  BY MemoryIs, BufferFacts DEF GoodMemory
<1>2. CASE ~OnHeap(m, b)
  <2>1. d = m
    BY <1>2 DEF Deallocate, OnHeap, DataOf
  <2> HIDE DEF d
  <2> QED BY <1>1, <1>2, <2>1 DEF d
<1>3. CASE OnHeap(m, b)
  <2> DEFINE heap == [m.heap EXCEPT ![x] = <<>>]
  <2>1. d = Free(m, x)
    BY <1>3 DEF Deallocate, OnHeap, DataOf
  <2>2. Free(m, x) = Memory(m.buffers, heap, m.misused \/ m.heap[x] = <<>>)
    BY <1>1, FreeIs
  <2>3. (m.misused \/ m.heap[x] = <<>>) = FALSE
    BY <1>1, <1>3
  <2>4. /\ heap \in Heaps /\ heap[x] = <<>>
        /\ \A y \in Blocks : y # x => heap[y] = m.heap[y]
    <3>1. <<>> \in Characters
      BY DEF Characters
    <3> QED BY <1>1, <1>3, <3>1 DEF Heaps
  <2> HIDE DEF heap, d, x
  <2>5. d = Memory(m.buffers, heap, FALSE) /\ FALSE \in BOOLEAN /\ m.buffers \in AllBuffers
    BY <1>1, <2>1, <2>2, <2>3
  <2>6. d \in Memories /\ d.buffers = m.buffers /\ d.heap = heap /\ d.misused = FALSE
    BY <2>4, <2>5, MemoryParts, ZenonT(60)
  <2> QED BY <2>4, <2>5, <2>6 DEF d, x
<1> QED BY <1>2, <1>3

(* A buffer is replaced by one that is in its store.                       *)
LEMMA ReplacedBuffer ==
    ASSUME NEW m, GoodMemory(m), NEW b \in Bufs, NEW buffer \in BufferStates,
           buffer.data = 0, Len(buffer.store) = SizeOfStore(b)
    PROVE  LET r == Memory([m.buffers EXCEPT ![b] = buffer], Deallocate(m, b).heap, FALSE)
           IN /\ GoodMemory(r) /\ OthersKept(m, r, b) /\ r.buffers[b] = buffer
              /\ r.heap = Deallocate(m, b).heap
<1> DEFINE d == Deallocate(m, b)
           buffers == [m.buffers EXCEPT ![b] = buffer]
           r == Memory(buffers, d.heap, FALSE)
<1>1. /\ d.heap \in Heaps
      /\ OnHeap(m, b) => d.heap[DataOf(m, b)] = <<>>
      /\ \A x \in Blocks : x # DataOf(m, b) => d.heap[x] = m.heap[x]
  BY DeallocateFrees
<1>2. m.buffers \in AllBuffers
  BY MemoryIs DEF GoodMemory
<1>3. /\ buffers \in AllBuffers /\ buffers[b] = buffer
      /\ \A c \in Bufs : c # b => buffers[c] = m.buffers[c]
  BY <1>2 DEF AllBuffers
<1> HIDE DEF buffers, d
<1>4. d.heap \in Heaps /\ buffers \in AllBuffers /\ FALSE \in BOOLEAN
  BY <1>1, <1>3
<1>5. r \in Memories /\ r.buffers = buffers /\ r.heap = d.heap /\ r.misused = FALSE
  BY <1>4, MemoryParts
<1> HIDE DEF r
<1>6. DataOf(r, b) = 0 /\ ~OnHeap(r, b)
  BY <1>3, <1>5 DEF DataOf, OnHeap
<1>7. ASSUME NEW c \in Bufs, c # b
      PROVE  /\ r.buffers[c] = m.buffers[c]
             /\ OnHeap(m, c) => r.heap[DataOf(m, c)] = m.heap[DataOf(m, c)]
  <2>1. OnHeap(m, c) => DataOf(m, c) # DataOf(m, b) /\ DataOf(m, c) \in Blocks
    BY <1>7, BufferFacts DEF GoodMemory, BlocksAreExclusive
  <2> QED BY <1>1, <1>3, <1>5, <1>7, <2>1
<1>8. ASSUME NEW x \in Blocks, r.heap[x] # <<>>
      PROVE  m.heap[x] # <<>> /\ DataOf(m, b) # x
  <2>1. DataOf(m, b) # x
    BY <1>1, <1>5, <1>8, Shapes DEF OnHeap
  <2> QED BY <1>1, <1>5, <1>8, <2>1
<1>9. Len(r.buffers[b].store) = SizeOfStore(b) /\ BlockIsHeld(r, b)
  BY <1>3, <1>5, <1>6 DEF BlockIsHeld
<1>10. GoodMemory(r) /\ OthersKept(m, r, b)
  BY <1>5, <1>6, <1>7, <1>8, <1>9, GoodAfter
<1> QED BY <1>3, <1>5, <1>10 DEF d, r, buffers

(* A new buffer is empty and in its own store.                             *)
LEMMA NewBufferIs ==
    ASSUME NEW b \in Bufs
    PROVE  /\ NewBuffer(b) \in BufferStates
           /\ NewBuffer(b).data = 0 /\ NewBuffer(b).size = 0
           /\ NewBuffer(b).capacity = SizeOfStore(b)
           /\ Len(NewBuffer(b).store) = SizeOfStore(b)
<1> DEFINE s == Unwritten(SizeOfStore(b))
<1>1. SizeOfStore(b) \in Nat
  BY Shapes
<1>2. s \in Characters /\ Len(s) = SizeOfStore(b)
  <2>1. s \in [1 .. SizeOfStore(b) -> Nat]
    BY DEF Unwritten
  <2> QED BY <1>1, <2>1, CharactersFrom
<1> HIDE DEF s
<1>3. NewBuffer(b) = [data |-> 0, size |-> 0, capacity |-> SizeOfStore(b), store |-> s]
  BY DEF NewBuffer, s
<1> QED BY <1>1, <1>2, <1>3 DEF BufferStates

(* A destroyed buffer is as good as new.                                   *)
LEMMA DestroyKeeps ==
    ASSUME NEW m, GoodMemory(m), NEW b \in Bufs
    PROVE  LET r == Destroy(m, b)
           IN GoodMemory(r) /\ OthersKept(m, r, b) /\ r.buffers[b] = NewBuffer(b)
<1> DEFINE d == Deallocate(m, b)
           r == Destroy(m, b)
<1>1. d \in Memories /\ d.buffers = m.buffers /\ d.misused = FALSE
  BY DeallocateFrees
<1>2. r = [d EXCEPT !.buffers[b] = NewBuffer(b)]
  BY DEF Destroy
<1> HIDE DEF d, r
<1>3. r = Memory([m.buffers EXCEPT ![b] = NewBuffer(b)], d.heap, FALSE)
  BY <1>1, <1>2, BufferWritten, ZenonT(60)
<1>4. GoodMemory(r) /\ OthersKept(m, r, b) /\ r.buffers[b] = NewBuffer(b)
  <2> DEFINE buffer == NewBuffer(b)
  <2>1. buffer \in BufferStates /\ buffer.data = 0 /\ Len(buffer.store) = SizeOfStore(b)
    BY NewBufferIs
  <2>2. r = Memory([m.buffers EXCEPT ![b] = buffer], Deallocate(m, b).heap, FALSE)
    BY <1>3 DEF d
  <2> HIDE DEF buffer
  <2>3. GoodMemory(r) /\ OthersKept(m, r, b) /\ r.buffers[b] = buffer
    BY <2>1, <2>2, ReplacedBuffer
  <2> QED BY <2>3 DEF buffer
<1> QED BY <1>4 DEF r

(* A block goes from one buffer to another, which has let go of its own.   *)
LEMMA BlockIsMoved ==
    ASSUME NEW m, GoodMemory(m), NEW b \in Bufs, NEW other \in Bufs, b # other,
           OnHeap(m, other)
    PROVE  LET from == m.buffers[other]
               r == SetData(SetData(Deallocate(m, b), b, from.data, from.capacity), other, 0, 0)
           IN /\ GoodMemory(r)
              /\ \A c \in Bufs : c \notin {b, other} => r.buffers[c] = m.buffers[c]
                                                 /\ Contents(r, c) = Contents(m, c)
              /\ r.buffers[b].capacity = from.capacity
              /\ Contents(r, b) = Contents(m, other)
<1> DEFINE from == m.buffers[other]
           to == m.buffers[b]
           d == Deallocate(m, b)
           taken == [data |-> from.data, size |-> to.size, capacity |-> from.capacity,
                     store |-> to.store]
           left == [data |-> 0, size |-> from.size, capacity |-> 0, store |-> from.store]
           between == [m.buffers EXCEPT ![b] = taken]
           buffers == [between EXCEPT ![other] = left]
           e == SetData(d, b, from.data, from.capacity)
           r == SetData(e, other, 0, 0)
           x == DataOf(m, other)
<1>1. /\ d \in Memories /\ d.buffers = m.buffers /\ d.heap \in Heaps /\ d.misused = FALSE
      /\ OnHeap(m, b) => d.heap[DataOf(m, b)] = <<>>
      /\ \A y \in Blocks : y # DataOf(m, b) => d.heap[y] = m.heap[y]
  BY DeallocateFrees
<1>2. /\ from \in BufferStates /\ to \in BufferStates /\ m.buffers \in AllBuffers
      /\ x \in Blocks /\ from.data = x
      /\ Contents(m, other) = m.heap[x] /\ m.heap[x] # <<>>
      /\ Len(m.heap[x]) = from.capacity
      /\ \A c \in Bufs : c # other => DataOf(m, c) # x
  <2>1. x \in Blocks /\ from.data = x /\ Contents(m, other) = m.heap[x] /\ m.heap[x] # <<>>
        /\ Len(m.heap[x]) = from.capacity
    BY BufferFacts DEF DataOf
  <2>2. \A c \in Bufs : c # other => DataOf(m, c) # x
    BY DEF GoodMemory, BlocksAreExclusive
  <2>3. from \in BufferStates /\ to \in BufferStates /\ m.buffers \in AllBuffers
    BY BufferFacts, MemoryIs DEF GoodMemory
  <2> QED BY <2>1, <2>2, <2>3
<1>3. /\ taken \in BufferStates /\ taken.data = x /\ taken.capacity = from.capacity
      /\ taken.store = to.store
      /\ left \in BufferStates /\ left.data = 0 /\ left.store = from.store
  BY <1>2 DEF BufferStates
<1> HIDE DEF taken, left, from, to, x, d
<1>4. /\ between \in AllBuffers /\ between[b] = taken /\ between[other] = from
      /\ \A c \in Bufs : c # b => between[c] = m.buffers[c]
  BY <1>2, <1>3 DEF AllBuffers, from
<1>5. e = Memory(between, d.heap, FALSE)
  <2>1. e = Memory([d.buffers EXCEPT ![b] =
                        [data |-> from.data, size |-> d.buffers[b].size,
                         capacity |-> from.capacity, store |-> d.buffers[b].store]],
                   d.heap, d.misused)
    BY <1>1, SetDataIs
  <2> QED BY <1>1, <2>1 DEF taken, to
<1> HIDE DEF between, e
<1>6. e \in Memories /\ e.buffers = between /\ e.heap = d.heap /\ e.misused = FALSE
  <2>1. between \in AllBuffers /\ d.heap \in Heaps /\ FALSE \in BOOLEAN
    BY <1>1, <1>4
  <2> QED BY <1>5, <2>1, MemoryParts
<1>7. r = Memory(buffers, d.heap, FALSE)
  <2>1. r = Memory([e.buffers EXCEPT ![other] =
                        [data |-> 0, size |-> e.buffers[other].size, capacity |-> 0,
                         store |-> e.buffers[other].store]], e.heap, e.misused)
    BY <1>6, SetDataIs
  <2> QED BY <1>4, <1>6, <2>1 DEF left
<1>8. /\ buffers \in AllBuffers /\ buffers[b] = taken /\ buffers[other] = left
      /\ \A c \in Bufs : c \notin {b, other} => buffers[c] = m.buffers[c]
  BY <1>3, <1>4 DEF AllBuffers
<1> HIDE DEF buffers, r
<1>9. r \in Memories /\ r.buffers = buffers /\ r.heap = d.heap /\ r.misused = FALSE
  <2>1. buffers \in AllBuffers /\ d.heap \in Heaps /\ FALSE \in BOOLEAN
    BY <1>1, <1>8
  <2> QED BY <1>7, <2>1, MemoryParts
<1>10. /\ DataOf(r, b) = x /\ DataOf(r, other) = 0
       /\ \A c \in Bufs : c \notin {b, other} => DataOf(r, c) = DataOf(m, c)
  BY <1>3, <1>8, <1>9 DEF DataOf
<1>11. d.heap[x] = m.heap[x] /\ r.heap[x] = m.heap[x] /\ x # 0
  BY <1>1, <1>2, <1>9, Shapes
<1>12. ASSUME NEW c \in Bufs, c \notin {b, other}, OnHeap(m, c)
       PROVE  r.heap[DataOf(m, c)] = m.heap[DataOf(m, c)]
  <2>1. DataOf(m, c) # DataOf(m, b) /\ DataOf(m, c) \in Blocks
    BY <1>12, BufferFacts DEF GoodMemory, BlocksAreExclusive
  <2> QED BY <1>1, <1>9, <2>1
<1>13. ASSUME NEW c \in Bufs
       PROVE  Len(r.buffers[c].store) = SizeOfStore(c) /\ BlockIsHeld(r, c)
  <2>1. Len(m.buffers[c].store) = SizeOfStore(c) /\ BlockIsHeld(m, c)
    BY DEF GoodMemory
  <2>2. CASE c = b
    BY <1>2, <1>3, <1>8, <1>9, <1>10, <1>11, <2>1, <2>2 DEF BlockIsHeld, to
  <2>3. CASE c = other
    BY <1>3, <1>8, <1>9, <1>10, <2>1, <2>3 DEF BlockIsHeld, OnHeap, from
  <2>4. CASE c \notin {b, other}
    BY <1>8, <1>9, <1>10, <1>12, <2>1, <2>4 DEF BlockIsHeld, OnHeap
  <2> QED BY <2>2, <2>3, <2>4
<1>14. BlocksAreExclusive(r)
  <2> SUFFICES ASSUME NEW c \in Bufs, NEW c2 \in Bufs, c # c2, OnHeap(r, c)
               PROVE  DataOf(r, c) # DataOf(r, c2)
    BY DEF BlocksAreExclusive
  <2>1. \A y, z \in Bufs : y # z /\ OnHeap(m, y) => DataOf(m, y) # DataOf(m, z)
    BY DEF GoodMemory, BlocksAreExclusive
  <2>2. c # other
    BY <1>10 DEF OnHeap
  <2>3. CASE c = b
    BY <1>2, <1>10, <1>11, <2>3
  <2>4. CASE c # b
    BY <1>2, <1>10, <2>1, <2>2, <2>4 DEF OnHeap
  <2> QED BY <2>3, <2>4
<1>15. NoBlockIsLost(r)
  <2> SUFFICES ASSUME NEW y \in Blocks, r.heap[y] # <<>>
               PROVE  \E c \in Bufs : DataOf(r, c) = y
    BY DEF NoBlockIsLost
  <2>1. CASE y = x
    BY <1>10, <2>1
  <2>2. CASE y # x
    <3>1. y # DataOf(m, b)
      BY <1>1, <1>9, Shapes DEF OnHeap
    <3>2. m.heap[y] # <<>>
      BY <1>1, <1>9, <3>1
    <3>3. PICK c \in Bufs : DataOf(m, c) = y
      BY <3>2 DEF GoodMemory, NoBlockIsLost
    <3>4. c \notin {b, other}
      BY <2>2, <3>1, <3>3 DEF x
    <3> QED BY <1>10, <3>3, <3>4
  <2> QED BY <2>1, <2>2
<1>16. GoodMemory(r)
  BY <1>9, <1>13, <1>14, <1>15 DEF GoodMemory
<1>17. ASSUME NEW c \in Bufs, c \notin {b, other}
       PROVE  r.buffers[c] = m.buffers[c] /\ Contents(r, c) = Contents(m, c)
  BY <1>8, <1>9, <1>12, <1>17 DEF Contents, OnHeap, DataOf
<1>18. r.buffers[b].capacity = from.capacity /\ Contents(r, b) = Contents(m, other)
  BY <1>2, <1>3, <1>8, <1>9, <1>11 DEF Contents
<1> QED BY <1>16, <1>17, <1>18 DEF from, r, e, d

(* Assigning by move: b has the other's text, wherever that was.           *)
LEMMA AssignMoves ==
    ASSUME NEW m, GoodMemory(m), NEW b \in Bufs, NEW other \in Bufs, b # other,
           SizeOfStore(b) = SizeOfStore(other), Sound(m, other)
    PROVE  LET r == Assign(m, b, other)
           IN /\ GoodMemory(r) /\ Sound(r, b) /\ Text(r, b) = Text(m, other)
              /\ \A c \in Bufs : c \notin {b, other} => r.buffers[c] = m.buffers[c]
                                                 /\ Contents(r, c) = Contents(m, c)
<1> DEFINE d == Deallocate(m, b)
           from == m.buffers[other]
           x == IF from.data = 0
                THEN Put(SetData(d, b, 0, from.capacity), b, 0, TextOf(d, other, from.size))
                ELSE SetData(SetData(d, b, from.data, from.capacity), other, 0, 0)
           r == Assign(m, b, other)
           Kept(y) == \A c \in Bufs : c \notin {b, other} => y.buffers[c] = m.buffers[c]
                                                     /\ Contents(y, c) = Contents(m, c)
<1>1. /\ d \in Memories /\ d.buffers = m.buffers /\ d.heap \in Heaps /\ d.misused = FALSE
      /\ \A y \in Blocks : y # DataOf(m, b) => d.heap[y] = m.heap[y]
  BY DeallocateFrees
<1>2. r = Resize(x, b, from.size)
  BY <1>1 DEF Assign, Move
<1>3. /\ from.size \in Nat /\ from.capacity \in Nat /\ from.size <= from.capacity
      /\ from.capacity = Len(Contents(m, other)) /\ Contents(m, other) \in Characters
      /\ ~OnHeap(m, other) => Len(Contents(m, other)) = SizeOfStore(other)
  BY BufferFacts DEF Sound
<1>4. TextOf(d, other, from.size) = Text(m, other)
  <2>1. Contents(d, other) = Contents(m, other)
    <3>1. OnHeap(m, other) => DataOf(m, other) \in Blocks /\ DataOf(m, other) # DataOf(m, b)
      BY BufferFacts DEF GoodMemory, BlocksAreExclusive
    <3> QED BY <1>1, <3>1 DEF Contents, OnHeap, DataOf
  <2> QED BY <2>1, SameText DEF Text
<1>5. /\ Text(m, other) \in Characters /\ Len(Text(m, other)) = from.size
      /\ \A k \in 1 .. from.size : Text(m, other)[k] = Contents(m, other)[k]
  BY <1>3, TextFacts DEF Text
<1>6. /\ GoodMemory(x) /\ Kept(x)
      /\ x.buffers[b].capacity = from.capacity
      /\ Len(Contents(x, b)) = from.capacity
      /\ \A k \in 1 .. from.size : Contents(x, b)[k] = Text(m, other)[k]
  <2>1. CASE OnHeap(m, other)
    <3>1. x = SetData(SetData(d, b, from.data, from.capacity), other, 0, 0)
      BY <2>1 DEF OnHeap, DataOf
    <3> HIDE DEF x
    <3>2. /\ GoodMemory(x) /\ Kept(x)
          /\ x.buffers[b].capacity = from.capacity /\ Contents(x, b) = Contents(m, other)
      BY <2>1, <3>1, BlockIsMoved
    <3> QED BY <1>3, <1>5, <3>2
  <2>2. CASE ~OnHeap(m, other)
    <3> DEFINE to == m.buffers[b]
               buffer == [data |-> 0, size |-> to.size, capacity |-> from.capacity,
                          store |-> to.store]
               e == SetData(d, b, 0, from.capacity)
    <3>1. x = Put(e, b, 0, Text(m, other))
      BY <1>4, <2>2 DEF OnHeap, DataOf
    <3>2. to \in BufferStates /\ Len(to.store) = SizeOfStore(b)
      BY BufferFacts DEF GoodMemory
    <3>3. /\ buffer \in BufferStates /\ buffer.data = 0 /\ buffer.capacity = from.capacity
          /\ Len(buffer.store) = SizeOfStore(b)
      BY <1>3, <3>2 DEF BufferStates
    <3> HIDE DEF x, from, d
    <3>4. e = Memory([m.buffers EXCEPT ![b] = buffer], d.heap, FALSE)
      <4>1. e = Memory([d.buffers EXCEPT ![b] =
                            [data |-> 0, size |-> d.buffers[b].size,
                             capacity |-> from.capacity, store |-> d.buffers[b].store]],
                       d.heap, d.misused)
        BY <1>1, SetDataIs
      <4> HIDE DEF e
      <4> QED BY <1>1, <4>1
    <3> HIDE DEF e, buffer, to
    <3>5. /\ GoodMemory(e) /\ OthersKept(m, e, b) /\ e.buffers[b] = buffer
      BY <3>3, <3>4, ReplacedBuffer DEF d
    <3>6. Contents(e, b) \in Characters /\ Len(Contents(e, b)) = from.capacity
      <4>1. ~OnHeap(e, b)
        BY <3>3, <3>5 DEF OnHeap, DataOf
      <4> QED BY <1>3, <2>2, <3>5, <4>1, BufferFacts
    <3>7. /\ GoodMemory(x) /\ OthersKept(e, x, b)
          /\ x.buffers[b].capacity = e.buffers[b].capacity
          /\ Len(Contents(x, b)) = Len(Contents(e, b))
          /\ \A k \in 1 .. Len(Contents(e, b)) :
                Contents(x, b)[k] = IF k \in 0 + 1 .. 0 + Len(Text(m, other))
                                    THEN Text(m, other)[k - 0] ELSE Contents(e, b)[k]
      <4>1. 0 \in Nat /\ 0 + Len(Text(m, other)) <= Len(Contents(e, b))
        BY <1>3, <1>5, <3>6
      <4> QED BY <1>5, <3>1, <3>5, <4>1, PutWrites
    <3>8. Kept(x)
      BY <3>5, <3>7 DEF OthersKept
    <3>9. ASSUME NEW k \in 1 .. from.size PROVE Contents(x, b)[k] = Text(m, other)[k]
      <4>1. /\ k \in 1 .. Len(Contents(e, b)) /\ k \in 0 + 1 .. 0 + Len(Text(m, other))
            /\ k - 0 = k
        BY <1>3, <1>5, <3>6
      <4> QED BY <3>7, <4>1
    <3> QED BY <3>3, <3>5, <3>6, <3>7, <3>8, <3>9
  <2> QED BY <2>1, <2>2
<1> HIDE DEF x
<1>7. r = [x EXCEPT !.buffers[b].size = from.size]
  BY <1>2, <1>3, <1>6 DEF Resize, Reserve
<1> HIDE DEF r, from
<1>8. /\ GoodMemory(r) /\ OthersKept(x, r, b) /\ r.buffers[b].size = from.size
      /\ r.buffers[b].capacity = x.buffers[b].capacity /\ Contents(r, b) = Contents(x, b)
  BY <1>3, <1>6, <1>7, SizeIsSet
<1>9. Kept(r)
  BY <1>6, <1>8 DEF OthersKept
<1>10. Sound(r, b)
  BY <1>3, <1>6, <1>8 DEF Sound
<1>11. Text(r, b) = Text(m, other)
  <2> DEFINE s == Text(m, other)
             t == Text(r, b)
  <2>1. t = TextOf(r, b, from.size)
    BY <1>8 DEF Text
  <2>2. Contents(r, b) \in Characters /\ from.size <= Len(Contents(r, b))
    BY <1>3, <1>6, <1>8, BufferFacts
  <2> HIDE DEF s, t
  <2>3. /\ TextOf(r, b, from.size) \in Characters /\ Len(TextOf(r, b, from.size)) = from.size
        /\ \A k \in 1 .. from.size : TextOf(r, b, from.size)[k] = Contents(r, b)[k]
    BY <1>3, <2>2, TextFacts
  <2>4. s \in Seq(Nat) /\ Len(s) = from.size /\ t \in Seq(Nat) /\ Len(t) = from.size
    BY <1>5, <2>1, <2>3 DEF Characters, s
  <2>5. \A k \in 1 .. from.size : t[k] = s[k]
    BY <1>6, <1>8, <2>1, <2>3 DEF s
  <2>6. t = s
    BY <2>4, <2>5, SeqEqual
  <2> QED BY <2>6 DEF s, t
<1> QED BY <1>8, <1>9, <1>10, <1>11 DEF r

------------------------------------------------------------------------------
(* A line of several pieces                                                *)

(* The memories in which msg can be written to and all else is as in m.    *)
Writing(m) == {y \in Memories : GoodMemory(y) /\ Sound(y, msg) /\ OthersKept(m, y, msg)}

(* The formatting of a line appends its pieces one by one,                 *)
LEMMA FormattingSteps ==
    ASSUME NEW m, m \in Writing(m), NEW pieces \in Seq(Characters)
    PROVE  LET F == FormattedInto(m, pieces)
           IN /\ F[0] = m
              /\ \A k \in 0 .. Len(pieces) : F[k] \in Writing(m)
              /\ \A k \in 1 .. Len(pieces) : F[k] = AppendText(F[k - 1], msg, pieces[k])
<1> DEFINE N == Len(pieces)
           X == Writing(m)
           step == [ks \in (1 .. N) \X X |-> AppendText(ks[2], msg, pieces[ks[1]])]
           Is(t) == t = [k \in 0 .. N |-> IF k = 0 THEN m
                                          ELSE AppendText(t[k - 1], msg, pieces[k])]
           c == CHOOSE t : Is(t)
<1>1. N \in Nat
  BY LenProperties
<1>2. \A k \in 1 .. N : pieces[k] \in Characters
  BY ElementOfSeq
<1>3. msg \in Bufs
  BY Shapes
<1>4. ASSUME NEW k \in 1 .. N, NEW y \in X PROVE AppendText(y, msg, pieces[k]) \in X
  <2>1. /\ GoodMemory(y) /\ Sound(y, msg) /\ OthersKept(m, y, msg)
        /\ pieces[k] \in Characters
    BY <1>2 DEF Writing
  <2> DEFINE r == AppendText(y, msg, pieces[k])
  <2>2. GoodMemory(r) /\ OthersKept(y, r, msg) /\ Sound(r, msg)
    BY <1>3, <2>1, AppendKeeps
  <2> HIDE DEF r
  <2>3. OthersKept(m, r, msg)
    BY <2>1, <2>2 DEF OthersKept
  <2>4. r \in Memories
    BY <2>2 DEF GoodMemory
  <2>5. r \in Writing(m)
    BY <2>2, <2>3, <2>4 DEF Writing
  <2> QED BY <2>5 DEF r
<1>5. FormattedInto(m, pieces) = c
  BY DEF FormattedInto
<1>6. \A k \in 1 .. N, y \in X : step[<<k, y>>] = AppendText(y, msg, pieces[k])
  OBVIOUS
<1>7. step \in StepsOn(N, X)
  BY <1>4 DEF StepsOn
<1> HIDE DEF step, N, X
<1>8. m \in X
  BY DEF X
<1>9. PICK t : Runs(t, N, X, m, step)
  BY <1>1, <1>7, <1>8, RecursionExists
<1>10. /\ t \in [0 .. N -> X] /\ t[0] = m
       /\ \A k \in 1 .. N : t[k] = AppendText(t[k - 1], msg, pieces[k])
  <2>1. /\ t \in [0 .. N -> X] /\ t[0] = m
        /\ \A k \in 1 .. N : t[k] = step[<<k, t[k - 1]>>]
    BY <1>9 DEF Runs
  <2>2. ASSUME NEW k \in 1 .. N PROVE t[k] = AppendText(t[k - 1], msg, pieces[k])
    <3>1. t[k - 1] \in X
      BY <1>1, <2>1
    <3>2. step[<<k, t[k - 1]>>] = AppendText(t[k - 1], msg, pieces[k])
      BY <1>6, <3>1
    <3> QED BY <2>1, <3>2
  <2> QED BY <2>1, <2>2
<1>11. Is(t)
  BY <1>1, <1>10
<1>12. Is(c)
  BY <1>11
<1> HIDE DEF c
<1>13. c[0] = m /\ \A k \in 1 .. N : c[k] = AppendText(c[k - 1], msg, pieces[k])
  BY <1>1, <1>12
<1>14. \A k \in 1 .. N : c[k - 1] \in X => c[k] \in X
  BY <1>4, <1>13
<1>15. \A k \in 0 .. N : c[k] \in X
  BY <1>1, <1>8, <1>13, <1>14, RecursionType
<1> QED BY <1>5, <1>13, <1>15 DEF N, X

(* and so does its text grow.                                              *)
LEMMA TextSteps ==
    ASSUME NEW pieces \in Seq(Characters)
    PROVE  LET W == TextUpTo(pieces)
           IN /\ W[0] = <<>>
              /\ \A k \in 0 .. Len(pieces) : W[k] \in Characters
              /\ \A k \in 1 .. Len(pieces) : W[k] = W[k - 1] \o pieces[k]
<1> DEFINE N == Len(pieces)
           step == [ks \in (1 .. N) \X Characters |-> ks[2] \o pieces[ks[1]]]
           Is(t) == t = [k \in 0 .. N |-> IF k = 0 THEN <<>> ELSE t[k - 1] \o pieces[k]]
           c == CHOOSE t : Is(t)
<1>1. N \in Nat
  BY LenProperties
<1>2. \A k \in 1 .. N : pieces[k] \in Characters
  BY ElementOfSeq
<1>3. <<>> \in Characters
  BY DEF Characters
<1>4. ASSUME NEW k \in 1 .. N, NEW y \in Characters PROVE y \o pieces[k] \in Characters
  BY <1>2, ConcatProperties DEF Characters
<1>5. TextUpTo(pieces) = c
  BY DEF TextUpTo
<1>6. \A k \in 1 .. N, y \in Characters : step[<<k, y>>] = y \o pieces[k]
  OBVIOUS
<1>7. step \in StepsOn(N, Characters)
  BY <1>4 DEF StepsOn
<1> HIDE DEF step, N
<1>8. PICK t : Runs(t, N, Characters, <<>>, step)
  BY <1>1, <1>3, <1>7, RecursionExists
<1>9. /\ t \in [0 .. N -> Characters] /\ t[0] = <<>>
      /\ \A k \in 1 .. N : t[k] = t[k - 1] \o pieces[k]
  <2>1. /\ t \in [0 .. N -> Characters] /\ t[0] = <<>>
        /\ \A k \in 1 .. N : t[k] = step[<<k, t[k - 1]>>]
    BY <1>8 DEF Runs
  <2>2. ASSUME NEW k \in 1 .. N PROVE t[k] = t[k - 1] \o pieces[k]
    <3>1. t[k - 1] \in Characters
      BY <1>1, <2>1
    <3>2. step[<<k, t[k - 1]>>] = t[k - 1] \o pieces[k]
      BY <1>6, <3>1
    <3> QED BY <2>1, <3>2
  <2> QED BY <2>1, <2>2
<1>10. Is(t)
  BY <1>1, <1>9
<1>11. Is(c)
  BY <1>10
<1> HIDE DEF c
<1>12. c[0] = <<>> /\ \A k \in 1 .. N : c[k] = c[k - 1] \o pieces[k]
  BY <1>1, <1>11
<1>13. \A k \in 1 .. N : c[k - 1] \in Characters => c[k] \in Characters
  BY <1>4, <1>12
<1>14. \A k \in 0 .. N : c[k] \in Characters
  BY <1>1, <1>3, <1>12, <1>13, RecursionType
<1> QED BY <1>5, <1>12, <1>14 DEF N

(* The pieces of a line, one after the other, are its text.                *)
LEMMA FormattingKeeps ==
    ASSUME NEW m, GoodMemory(m), m.buffers[msg] = NewBuffer(msg),
           NEW pieces \in Seq(Characters)
    PROVE  LET r == FormattedInto(m, pieces)[Len(pieces)]
           IN /\ GoodMemory(r) /\ OthersKept(m, r, msg) /\ Sound(r, msg)
              /\ Text(r, msg) = WholeText(pieces) /\ WholeText(pieces) \in Characters
<1> DEFINE N == Len(pieces)
           F == FormattedInto(m, pieces)
           W == TextUpTo(pieces)
           E == {k \in Nat : k <= N => Text(F[k], msg) = W[k]}
<1>1. msg \in Bufs /\ N \in Nat
  BY Shapes, LenProperties
<1>2. /\ m.buffers[msg].data = 0 /\ m.buffers[msg].size = 0
      /\ m.buffers[msg].capacity = SizeOfStore(msg)
  BY <1>1, NewBufferIs
<1>3. m \in Writing(m)
  <2>1. Len(Contents(m, msg)) = SizeOfStore(msg) /\ SizeOfStore(msg) \in Nat
    BY <1>1, <1>2, BufferFacts, Shapes DEF OnHeap, DataOf
  <2> QED BY <1>2, <2>1 DEF Writing, Sound, OthersKept, GoodMemory
<1>4. /\ F[0] = m
      /\ \A k \in 0 .. N : F[k] \in Writing(m)
      /\ \A k \in 1 .. N : F[k] = AppendText(F[k - 1], msg, pieces[k])
  BY <1>3, FormattingSteps
<1>5. /\ W[0] = <<>>
      /\ \A k \in 0 .. N : W[k] \in Characters
      /\ \A k \in 1 .. N : W[k] = W[k - 1] \o pieces[k]
  BY TextSteps
<1>6. \A k \in 1 .. N : pieces[k] \in Characters
  BY ElementOfSeq
<1> HIDE DEF F, W, N
<1>7. 0 \in E
  <2>1. Text(m, msg) = <<>>
    <3>1. 1 .. 0 = {} /\ Text(m, msg) = TextOf(m, msg, 0)
      BY <1>2 DEF Text
    <3>2. TextOf(m, msg, 0) = [k \in 1 .. 0 |-> IF k <= Len(Contents(m, msg))
                                                 THEN Contents(m, msg)[k] ELSE 0]
      BY DEF TextOf
    <3>3. DOMAIN TextOf(m, msg, 0) = {}
      BY <3>1, <3>2
    <3>4. Contents(m, msg) \in Characters /\ 0 <= Len(Contents(m, msg))
      BY <1>1, BufferFacts
    <3>5. TextOf(m, msg, 0) \in Characters /\ Len(TextOf(m, msg, 0)) = 0
      BY <3>4, TextFacts
    <3> QED BY <3>1, <3>5, EmptySeq DEF Characters
  <2> QED BY <1>4, <1>5, <2>1
<1>8. ASSUME NEW h \in Nat, h \in E PROVE h + 1 \in E
  <2> SUFFICES ASSUME h + 1 <= N PROVE Text(F[h + 1], msg) = W[h + 1]
    OBVIOUS
  <2>1. h + 1 \in 1 .. N /\ h \in 0 .. N /\ (h + 1) - 1 = h /\ Text(F[h], msg) = W[h]
    BY <1>1, <1>8
  <2>2. /\ GoodMemory(F[h]) /\ Sound(F[h], msg) /\ pieces[h + 1] \in Characters
        /\ F[h + 1] = AppendText(F[h], msg, pieces[h + 1])
    BY <1>4, <1>6, <2>1 DEF Writing
  <2>3. Text(F[h + 1], msg) = Text(F[h], msg) \o pieces[h + 1]
    BY <1>1, <2>2, AppendKeeps
  <2> QED BY <1>5, <2>1, <2>3
<1>9. Nat \subseteq E
  <2> HIDE DEF E
  <2> QED BY <1>7, <1>8, InductionOnNat
<1>10. Text(F[N], msg) = W[N] /\ W[N] \in Characters /\ F[N] \in Writing(m)
  BY <1>1, <1>4, <1>5, <1>9
<1> QED BY <1>10 DEF F, W, N, WholeText, Writing

------------------------------------------------------------------------------
(* A line through the queue                                                *)

(* A new buffer can be written to, and has no text.                        *)
LEMMA NewIsSound ==
    ASSUME NEW m, GoodMemory(m), NEW b \in Bufs, m.buffers[b] = NewBuffer(b)
    PROVE  Sound(m, b) /\ Text(m, b) = <<>>
<1>1. m.buffers[b].data = 0 /\ m.buffers[b].size = 0 /\ m.buffers[b].capacity = SizeOfStore(b)
  BY NewBufferIs
<1>2. /\ Contents(m, b) \in Characters /\ Len(Contents(m, b)) = SizeOfStore(b)
      /\ SizeOfStore(b) \in Nat
  BY <1>1, BufferFacts, Shapes DEF OnHeap, DataOf
<1>3. TextOf(m, b, 0) \in Characters /\ Len(TextOf(m, b, 0)) = 0
  BY <1>2, TextFacts
<1>4. TextOf(m, b, 0) = <<>>
  BY <1>3, EmptySeq DEF Characters
<1> QED BY <1>1, <1>2, <1>4 DEF Sound, Text

LocalsAreNew(m) == \A b \in Locals : m.buffers[b] = NewBuffer(b)

(* The slots of the queue but this one are as they were.                   *)
SlotsKept(m, r, slot) ==
    \A c \in QueueIndices : c # slot => r.buffers[c] = m.buffers[c]
                                     /\ Contents(r, c) = Contents(m, c)

(* Formatted, copied, and moved into a slot: the slot has the line.        *)
LEMMA Posting ==
    ASSUME NEW m, GoodMemory(m), LocalsAreNew(m), NEW pieces \in Seq(Characters),
           NEW slot \in QueueIndices
    PROVE  LET formatted == FormattedInto(m, pieces)[Len(pieces)]
               copied == AppendText(formatted, new_msg,
                                    TextOf(formatted, msg, formatted.buffers[msg].size))
               r == Destroy(Destroy(Assign(copied, slot, new_msg), new_msg), msg)
           IN /\ GoodMemory(r) /\ LocalsAreNew(r) /\ SlotsKept(m, r, slot)
              /\ Sound(r, slot) /\ Text(r, slot) = WholeText(pieces)
              /\ WholeText(pieces) \in Characters
<1> DEFINE formatted == FormattedInto(m, pieces)[Len(pieces)]
           text == Text(formatted, msg)
           copied == AppendText(formatted, new_msg, text)
           assigned == Assign(copied, slot, new_msg)
           between == Destroy(assigned, new_msg)
           r == Destroy(between, msg)
           whole == WholeText(pieces)
<1>1. /\ {msg, new_msg, slot} \subseteq Bufs /\ Locals \subseteq Bufs /\ QueueIndices \subseteq Bufs
      /\ msg \in Locals /\ new_msg \in Locals
      /\ msg # new_msg /\ slot # msg /\ slot # new_msg
      /\ \A c \in QueueIndices : c # msg /\ c # new_msg
      /\ \A c \in Locals : c # slot
      /\ SizeOfStore(slot) = SizeOfStore(new_msg)
  BY Shapes
<1>2. /\ GoodMemory(formatted) /\ OthersKept(m, formatted, msg)
      /\ text = whole /\ whole \in Characters
  BY <1>1, FormattingKeeps DEF LocalsAreNew
<1> HIDE DEF formatted, whole, text
<1>3. formatted.buffers[new_msg] = NewBuffer(new_msg)
  BY <1>1, <1>2 DEF LocalsAreNew, OthersKept
<1>4. Sound(formatted, new_msg) /\ Text(formatted, new_msg) = <<>>
  BY <1>1, <1>2, <1>3, NewIsSound
<1>5. /\ GoodMemory(copied) /\ OthersKept(formatted, copied, new_msg)
      /\ Sound(copied, new_msg) /\ Text(copied, new_msg) = <<>> \o text
  BY <1>1, <1>2, <1>4, AppendKeeps
<1>6. <<>> \o text = whole
  BY <1>2, ConcatEmptySeq DEF Characters
<1> HIDE DEF copied
<1>7. /\ GoodMemory(assigned) /\ Sound(assigned, slot) /\ Text(assigned, slot) = whole
      /\ \A c \in Bufs : c \notin {slot, new_msg} =>
            assigned.buffers[c] = copied.buffers[c] /\ Contents(assigned, c) = Contents(copied, c)
  BY <1>1, <1>5, <1>6, AssignMoves
<1> HIDE DEF assigned
<1>8. /\ GoodMemory(between) /\ OthersKept(assigned, between, new_msg)
      /\ between.buffers[new_msg] = NewBuffer(new_msg)
  BY <1>1, <1>7, DestroyKeeps
<1> HIDE DEF between
<1>9. /\ GoodMemory(r) /\ OthersKept(between, r, msg) /\ r.buffers[msg] = NewBuffer(msg)
  BY <1>1, <1>8, DestroyKeeps
<1> HIDE DEF r
<1>10. /\ r.buffers[slot] = assigned.buffers[slot]
       /\ Contents(r, slot) = Contents(assigned, slot)
  BY <1>1, <1>8, <1>9 DEF OthersKept
<1>11. Sound(r, slot) /\ Text(r, slot) = whole
  <2>1. TextOf(r, slot, assigned.buffers[slot].size)
        = TextOf(assigned, slot, assigned.buffers[slot].size)
    BY <1>10, SameText
  <2> QED BY <1>7, <1>10, <2>1 DEF Sound, Text
<1>12. ASSUME NEW c \in Bufs, c \notin {slot, msg, new_msg}
       PROVE  r.buffers[c] = m.buffers[c] /\ Contents(r, c) = Contents(m, c)
  BY <1>2, <1>5, <1>7, <1>8, <1>9, <1>12 DEF OthersKept
<1>13. LocalsAreNew(r)
  <2>1. r.buffers[new_msg] = NewBuffer(new_msg)
    BY <1>1, <1>8, <1>9 DEF OthersKept
  <2>2. ASSUME NEW b \in Locals, b \notin {msg, new_msg} PROVE r.buffers[b] = NewBuffer(b)
    <3>1. b \in Bufs /\ b \notin {slot, msg, new_msg}
      BY <1>1, <2>2
    <3> QED BY <1>12, <3>1 DEF LocalsAreNew
  <2> QED BY <1>9, <2>1, <2>2 DEF LocalsAreNew
<1>14. SlotsKept(m, r, slot)
  BY <1>1, <1>12 DEF SlotsKept
<1> QED BY <1>2, <1>9, <1>11, <1>13, <1>14 DEF r, between, assigned, copied, text, formatted, whole, Text

(* Moved out of its slot and copied: the worker has what the slot held.    *)
LEMMA Taking ==
    ASSUME NEW m, GoodMemory(m), LocalsAreNew(m), NEW slot \in QueueIndices, Sound(m, slot)
    PROVE  LET taken == Assign(m, incoming, slot)
               copied == AppendText(taken, out,
                                    TextOf(taken, incoming, taken.buffers[incoming].size))
               r == Destroy(Destroy(copied, out), incoming)
           IN /\ GoodMemory(r) /\ LocalsAreNew(r) /\ SlotsKept(m, r, slot)
              /\ TextOf(copied, out, copied.buffers[out].size) = Text(m, slot)
<1> DEFINE taken == Assign(m, incoming, slot)
           text == Text(taken, incoming)
           copied == AppendText(taken, out, text)
           between == Destroy(copied, out)
           r == Destroy(between, incoming)
           was == Text(m, slot)
<1>1. /\ {incoming, out, slot} \subseteq Bufs /\ Locals \subseteq Bufs /\ QueueIndices \subseteq Bufs
      /\ incoming \in Locals /\ out \in Locals
      /\ incoming # out /\ slot # incoming /\ slot # out
      /\ \A c \in QueueIndices : c # incoming /\ c # out
      /\ \A c \in Locals : c # slot
      /\ SizeOfStore(slot) = SizeOfStore(incoming)
  BY Shapes
<1>2. /\ GoodMemory(taken) /\ Sound(taken, incoming) /\ text = was
      /\ \A c \in Bufs : c \notin {incoming, slot} =>
            taken.buffers[c] = m.buffers[c] /\ Contents(taken, c) = Contents(m, c)
  BY <1>1, AssignMoves
<1>3. was \in Characters
  <2>1. /\ Contents(m, slot) \in Characters /\ m.buffers[slot].size \in Nat
        /\ m.buffers[slot].size <= Len(Contents(m, slot))
    BY <1>1, BufferFacts DEF Sound
  <2> QED BY <2>1, TextFacts DEF Text
<1> HIDE DEF taken, text, was
<1>4. taken.buffers[out] = NewBuffer(out)
  BY <1>1, <1>2 DEF LocalsAreNew
<1>5. Sound(taken, out) /\ Text(taken, out) = <<>>
  BY <1>1, <1>2, <1>4, NewIsSound
<1>6. /\ GoodMemory(copied) /\ OthersKept(taken, copied, out)
      /\ Text(copied, out) = <<>> \o text
  BY <1>1, <1>2, <1>3, <1>5, AppendKeeps
<1>7. <<>> \o text = was
  BY <1>2, <1>3, ConcatEmptySeq DEF Characters
<1> HIDE DEF copied
<1>8. /\ GoodMemory(between) /\ OthersKept(copied, between, out)
      /\ between.buffers[out] = NewBuffer(out)
  BY <1>1, <1>6, DestroyKeeps
<1> HIDE DEF between
<1>9. /\ GoodMemory(r) /\ OthersKept(between, r, incoming)
      /\ r.buffers[incoming] = NewBuffer(incoming)
  BY <1>1, <1>8, DestroyKeeps
<1> HIDE DEF r
<1>10. ASSUME NEW c \in Bufs, c \notin {slot, incoming, out}
       PROVE  r.buffers[c] = m.buffers[c] /\ Contents(r, c) = Contents(m, c)
  BY <1>2, <1>6, <1>8, <1>9, <1>10 DEF OthersKept
<1>11. LocalsAreNew(r)
  <2>1. r.buffers[out] = NewBuffer(out)
    BY <1>1, <1>8, <1>9 DEF OthersKept
  <2>2. ASSUME NEW b \in Locals, b \notin {incoming, out} PROVE r.buffers[b] = NewBuffer(b)
    <3>1. b \in Bufs /\ b \notin {slot, incoming, out}
      BY <1>1, <2>2
    <3> QED BY <1>10, <3>1 DEF LocalsAreNew
  <2> QED BY <1>9, <2>1, <2>2 DEF LocalsAreNew
<1>12. SlotsKept(m, r, slot)
  BY <1>1, <1>10 DEF SlotsKept
<1>13. TextOf(copied, out, copied.buffers[out].size) = was
  BY <1>6, <1>7 DEF Text
<1> QED BY <1>9, <1>11, <1>12, <1>13 DEF r, between, taken, copied, text, was, Text

------------------------------------------------------------------------------
(* The slots of the queue                                                  *)

(* The slot of the k-th line of a queue whose oldest line is at h.         *)
Slot(h, k) == (h + k - 1) % QueueSlots

(* The remainders that circular_q computes.                                *)
LEMMA Remainder ==
    ASSUME NEW n \in Nat, n > 0, NEW x \in Nat, x < n + n
    PROVE  x % n = IF x < n THEN x ELSE x - n
<1>1. CASE x < n
  BY <1>1
<1>2. CASE ~(x < n)
  <2> DEFINE y == x - n
  <2>1. y \in Nat /\ y < n /\ x = n * 1 + y
    BY <1>2
  <2> QED BY <1>2, <2>1
<1> QED BY <1>1, <1>2

(* The k-th slot from one of the queue, and the next slot.                 *)
LEMMA SlotIs ==
    ASSUME NEW h \in QueueIndices, NEW k \in 1 .. QueueSlots
    PROVE  /\ Slot(h, k) \in QueueIndices
           /\ Slot(h, k) = IF h + k - 1 < QueueSlots THEN h + k - 1 ELSE h + k - 1 - QueueSlots
<1>1. /\ QueueSlots \in Nat /\ QueueSlots > 1 /\ h \in Nat /\ h < QueueSlots
      /\ h + k - 1 \in Nat /\ h + k - 1 < QueueSlots + QueueSlots
  BY Shapes DEF QueueIndices
<1>2. Slot(h, k) = IF h + k - 1 < QueueSlots THEN h + k - 1 ELSE h + k - 1 - QueueSlots
  BY <1>1, Remainder DEF Slot
<1> QED BY <1>1, <1>2 DEF QueueIndices

(* The slot after a slot of the queue.                                     *)
LEMMA After1Is ==
    ASSUME NEW i \in QueueIndices
    PROVE  /\ After1(i) \in QueueIndices
           /\ After1(i) = IF i + 1 < QueueSlots THEN i + 1 ELSE 0
<1>1. /\ QueueSlots \in Nat /\ QueueSlots > 1 /\ i \in Nat /\ i < QueueSlots
      /\ i + 1 \in Nat /\ i + 1 < QueueSlots + QueueSlots
  BY Shapes DEF QueueIndices
<1>2. After1(i) = IF i + 1 < QueueSlots THEN i + 1 ELSE i + 1 - QueueSlots
  BY <1>1, Remainder DEF After1
<1> QED BY <1>1, <1>2 DEF QueueIndices

(* The lines of a queue are in slots of their own.                         *)
LEMMA SlotsAreDistinct ==
    ASSUME NEW h \in QueueIndices, NEW j \in 1 .. QueueSlots, NEW k \in 1 .. QueueSlots, j # k
    PROVE  Slot(h, j) # Slot(h, k)
<1>1. QueueSlots \in Nat /\ h \in Nat /\ h < QueueSlots /\ j \in Nat /\ k \in Nat
  BY Shapes DEF QueueIndices
<1> QED BY <1>1, SlotIs

(* The k-th line but one is the k-th of a queue without the oldest one.    *)
LEMMA NextSlots ==
    ASSUME NEW h \in QueueIndices, NEW k \in 1 .. QueueSlots - 1
    PROVE  /\ Slot(After1(h), k) = Slot(h, k + 1)
           /\ After1(Slot(h, k)) = Slot(h, k + 1)
           /\ Slot(h, 1) = h
<1>1. /\ QueueSlots \in Nat /\ QueueSlots > 1 /\ h \in Nat /\ h < QueueSlots
      /\ k \in Nat /\ k \in 1 .. QueueSlots /\ k + 1 \in 1 .. QueueSlots
      /\ 1 \in 1 .. QueueSlots /\ k + 1 - 1 = k
  BY Shapes DEF QueueIndices
<1>2. /\ Slot(h, k + 1) = IF h + k < QueueSlots THEN h + k ELSE h + k - QueueSlots
      /\ Slot(h, k) = IF h + k - 1 < QueueSlots THEN h + k - 1 ELSE h + k - 1 - QueueSlots
      /\ Slot(h, k) \in QueueIndices /\ Slot(h, 1) = h
  <2>1. Slot(h, k + 1) = IF h + (k + 1) - 1 < QueueSlots THEN h + (k + 1) - 1
                         ELSE h + (k + 1) - 1 - QueueSlots
    BY <1>1, SlotIs
  <2>2. Slot(h, 1) = IF h + 1 - 1 < QueueSlots THEN h + 1 - 1 ELSE h + 1 - 1 - QueueSlots
    BY <1>1, SlotIs
  <2>3. Slot(h, k) \in QueueIndices
        /\ Slot(h, k) = IF h + k - 1 < QueueSlots THEN h + k - 1 ELSE h + k - 1 - QueueSlots
    BY <1>1, SlotIs
  <2> QED BY <1>1, <2>1, <2>2, <2>3
<1>3. After1(h) \in QueueIndices /\ After1(h) = IF h + 1 < QueueSlots THEN h + 1 ELSE 0
  BY After1Is
<1>4. Slot(After1(h), k) = IF After1(h) + k - 1 < QueueSlots THEN After1(h) + k - 1
                           ELSE After1(h) + k - 1 - QueueSlots
  BY <1>1, <1>3, SlotIs
<1>5. After1(Slot(h, k)) = IF Slot(h, k) + 1 < QueueSlots THEN Slot(h, k) + 1 ELSE 0
  BY <1>2, After1Is
<1> QED BY <1>1, <1>2, <1>3, <1>4, <1>5

------------------------------------------------------------------------------
(* The inductive invariant                                                 *)

(* Each line that is queued is in its slot, in a buffer nobody moved from. *)
LinesAreInTheirSlots ==
    \A k \in 1 .. Len(queued) : /\ Sound(memory, Slot(head, k))
                                /\ Text(memory, Slot(head, k)) = queued[k]

QueueTypes ==
    /\ head \in QueueIndices /\ posted \in Nat
    /\ queued \in Seq(Characters) /\ Len(queued) < QueueSlots
    /\ tail = Slot(head, Len(queued) + 1)

BuffersInductive ==
    /\ GoodMemory(memory) /\ LocalsAreNew(memory)
    /\ QueueTypes
    /\ handed.text = handed.line
    /\ LinesAreInTheirSlots

(* The inductive invariant of the buffers holds at first.                  *)
LEMMA BuffersStart == BuffersInit => BuffersInductive
<1> SUFFICES ASSUME BuffersInit PROVE BuffersInductive
  OBVIOUS
<1> DEFINE buffers == [b \in Bufs |-> NewBuffer(b)]
           heap == [block \in Blocks |-> <<>>]
<1>1. memory = [buffers |-> buffers, heap |-> heap, misused |-> FALSE]
  BY DEF BuffersInit, Bufs
<1>2. \A b \in Bufs : /\ NewBuffer(b) \in BufferStates /\ NewBuffer(b).data = 0
                      /\ Len(NewBuffer(b).store) = SizeOfStore(b)
  BY NewBufferIs
<1>3. buffers \in [Bufs -> BufferStates] /\ heap \in [Blocks -> Characters]
  BY <1>2 DEF Characters
<1>4. \A b \in Bufs : buffers[b] = NewBuffer(b)
  OBVIOUS
<1>5. \A block \in Blocks : heap[block] = <<>>
  OBVIOUS
<1> HIDE DEF buffers, heap
<1>6. memory \in Memories /\ memory.buffers = buffers /\ memory.heap = heap /\ ~memory.misused
  BY <1>1, <1>3 DEF Memories
<1>7. GoodMemory(memory)
  BY <1>2, <1>4, <1>5, <1>6
     DEF GoodMemory, BlockIsHeld, BlocksAreExclusive, NoBlockIsLost, OnHeap, DataOf
<1>8. LocalsAreNew(memory)
  BY <1>4, <1>6, Shapes DEF LocalsAreNew
<1>9. 0 \in QueueIndices /\ QueueSlots \in Nat /\ QueueSlots > 1
  BY Shapes DEF QueueIndices
<1>10. /\ head = 0 /\ tail = 0 /\ posted = 0 /\ queued = <<>> /\ handed.text = handed.line
  BY DEF BuffersInit
<1>11. Len(queued) = 0 /\ queued \in Seq(Characters)
  BY <1>10
<1>12. Slot(0, 1) = 0
  <2>1. 1 \in 1 .. QueueSlots - 1
    BY <1>9
  <2> QED BY <1>9, <2>1, NextSlots
<1>13. QueueTypes
  BY <1>9, <1>10, <1>11, <1>12 DEF QueueTypes
<1>14. LinesAreInTheirSlots
  BY <1>11 DEF LinesAreInTheirSlots
<1> QED BY <1>7, <1>8, <1>10, <1>13, <1>14 DEF BuffersInductive

(* The pieces of a line are texts.                                         *)
LEMMA PiecesAreText ==
    ASSUME NEW n \in Nat, NEW line \in Lines
    PROVE  PiecesOf(n, line) \in Seq(Characters) /\ Len(PiecesOf(n, line)) = Len(line)
<1>1. PICK len \in 1 .. MaxPieces : line \in [1 .. len -> Pieces]
  BY DEF Lines
<1>2. len \in Nat
  BY <1>1, BufferBounds
<1> DEFINE piece(k) == [c \in 1 .. line[k] |-> 100 * n + 10 * k + c]
<1>3. ASSUME NEW k \in 1 .. len PROVE piece(k) \in Characters
  <2>1. line[k] \in Nat /\ k \in Nat
    <3>1. line[k] \in Pieces
      BY <1>1
    <3>2. Pieces \subseteq Nat
      BY BufferParameters
    <3>3. k \in Nat
      BY <1>2
    <3> QED BY <3>1, <3>2, <3>3
  <2>2. piece(k) \in [1 .. line[k] -> Nat]
    BY <2>1
  <2> HIDE DEF piece
  <2> QED BY <2>1, <2>2, CharactersFrom
<1>4. PiecesOf(n, line) = [k \in 1 .. len |-> piece(k)]
  BY <1>1 DEF PiecesOf
<1> HIDE DEF piece
<1>5. Len(line) = len
  BY <1>1, <1>2
<1> QED BY <1>2, <1>3, <1>4, <1>5

(* A line that is queued stays as it is when another slot is written.      *)
LEMMA LineIsKept ==
    ASSUME NEW m, NEW r, NEW slot, SlotsKept(m, r, slot), NEW c \in QueueIndices, c # slot,
           Sound(m, c)
    PROVE  Sound(r, c) /\ Text(r, c) = Text(m, c)
<1>1. r.buffers[c] = m.buffers[c] /\ Contents(r, c) = Contents(m, c)
  BY DEF SlotsKept
<1>2. TextOf(r, c, m.buffers[c].size) = TextOf(m, c, m.buffers[c].size)
  BY <1>1, SameText
<1> QED BY <1>1, <1>2 DEF Sound, Text

(* Posting a line and taking one keep the invariant.                       *)
LEMMA PostLineKeeps == BuffersInductive /\ PostLine => BuffersInductive'
<1> SUFFICES ASSUME BuffersInductive, PostLine PROVE BuffersInductive'
  OBVIOUS
<1> DEFINE L == Len(queued)
           Q == QueueSlots
           full == After1(tail) = head
<1>1. /\ GoodMemory(memory) /\ LocalsAreNew(memory) /\ QueueTypes
      /\ handed.text = handed.line /\ LinesAreInTheirSlots
  BY DEF BuffersInductive
<1>2. /\ Q \in Nat /\ Q > 1 /\ L \in Nat /\ L < Q /\ head \in QueueIndices
      /\ queued \in Seq(Characters) /\ tail = Slot(head, L + 1) /\ posted \in Nat
      /\ L + 1 \in 1 .. Q
  BY <1>1, Shapes, LenProperties DEF QueueTypes
<1>3. tail \in QueueIndices
  BY <1>2, SlotIs
<1>4. posted' \in Nat /\ tail' = After1(tail) /\ handed' = handed
  BY <1>2 DEF PostLine
<1>5. PICK line \in Lines :
         /\ memory' = LET formatted == FormattedInto(memory, PiecesOf(posted', line))[Len(line)]
                          copied == AppendText(formatted, new_msg,
                                     TextOf(formatted, msg, formatted.buffers[msg].size))
                      IN Destroy(Destroy(Assign(copied, tail, new_msg), new_msg), msg)
         /\ head' = IF full THEN After1(head) ELSE head
         /\ queued' = Append(IF full THEN Tail(queued) ELSE queued,
                             WholeText(PiecesOf(posted', line)))
  BY DEF PostLine
<1> DEFINE pieces == PiecesOf(posted', line)
           whole == WholeText(pieces)
<1>6. pieces \in Seq(Characters) /\ Len(pieces) = Len(line)
  BY <1>4, PiecesAreText
<1>7. /\ GoodMemory(memory') /\ LocalsAreNew(memory') /\ SlotsKept(memory, memory', tail)
      /\ Sound(memory', tail) /\ Text(memory', tail) = whole /\ whole \in Characters
  <2> HIDE DEF pieces
  <2> DEFINE formatted == FormattedInto(memory, pieces)[Len(pieces)]
             copied == AppendText(formatted, new_msg,
                                  TextOf(formatted, msg, formatted.buffers[msg].size))
             r == Destroy(Destroy(Assign(copied, tail, new_msg), new_msg), msg)
  <2>1. memory' = r
    BY <1>5, <1>6 DEF pieces
  <2>2. /\ GoodMemory(r) /\ LocalsAreNew(r) /\ SlotsKept(memory, r, tail)
        /\ Sound(r, tail) /\ Text(r, tail) = WholeText(pieces) /\ WholeText(pieces) \in Characters
    BY <1>1, <1>3, <1>6, Posting
  <2> QED BY <2>1, <2>2
<1>8. queued' = Append(IF full THEN Tail(queued) ELSE queued, whole)
  BY <1>5
<1> HIDE DEF pieces, whole
<1>9. ASSUME NEW k \in 1 .. L
      PROVE  /\ Sound(memory', Slot(head, k))
             /\ Text(memory', Slot(head, k)) = queued[k]
  <2>1. k \in 1 .. Q /\ k # L + 1
    BY <1>2
  <2>2. Slot(head, k) # tail /\ Slot(head, k) \in QueueIndices
    BY <1>2, <2>1, SlotsAreDistinct, SlotIs
  <2>3. Sound(memory, Slot(head, k)) /\ Text(memory, Slot(head, k)) = queued[k]
    BY <1>1 DEF LinesAreInTheirSlots
  <2> QED BY <1>7, <2>2, <2>3, LineIsKept
<1>10. CASE L + 1 < Q
  <2>1. L + 1 \in 1 .. Q - 1 /\ L + 1 + 1 \in 1 .. Q /\ 1 \in 1 .. Q /\ 1 \in 1 .. Q - 1
        /\ L + 1 + 1 # 1
    BY <1>2, <1>10
  <2>2. After1(tail) = Slot(head, L + 1 + 1) /\ Slot(head, 1) = head
    BY <1>2, <2>1, NextSlots
  <2>3. ~full
    BY <1>2, <2>1, <2>2, SlotsAreDistinct
  <2> HIDE DEF full
  <2>4. head' = head /\ queued' = Append(queued, whole)
    BY <1>5, <1>8, <2>3 DEF full
  <2>5. /\ queued' \in Seq(Characters) /\ Len(queued') = L + 1
        /\ \A k \in 1 .. L : queued'[k] = queued[k]
        /\ queued'[L + 1] = whole
    BY <1>2, <1>7, <2>4, AppendProperties
  <2> HIDE DEF L
  <2>6. QueueTypes'
    BY <1>2, <1>4, <1>10, <2>2, <2>4, <2>5 DEF QueueTypes
  <2>7. LinesAreInTheirSlots'
    <3> SUFFICES ASSUME NEW k \in 1 .. L + 1
                 PROVE  /\ Sound(memory', Slot(head, k))
                        /\ Text(memory', Slot(head, k)) = queued'[k]
      BY <2>4, <2>5 DEF LinesAreInTheirSlots
    <3>1. CASE k = L + 1
      BY <1>2, <1>7, <2>5, <3>1
    <3>2. CASE k # L + 1
      <4>1. k \in 1 .. L
        BY <1>2, <3>2
      <4> QED BY <1>9, <2>5, <4>1
    <3> QED BY <3>1, <3>2
  <2> QED BY <1>1, <1>4, <1>7, <2>6, <2>7 DEF BuffersInductive
<1>11. CASE L + 1 = Q
  <2>1. L \in 1 .. Q - 1 /\ Q \in 1 .. Q /\ L >= 1 /\ queued # <<>>
    BY <1>2, <1>11
  <2>2. After1(tail) = head
    <3>1. tail = IF head + Q - 1 < Q THEN head + Q - 1 ELSE head + Q - 1 - Q
      BY <1>2, <1>11, <2>1, SlotIs
    <3>2. After1(tail) = IF tail + 1 < Q THEN tail + 1 ELSE 0
      BY <1>3, After1Is
    <3> QED BY <1>2, <3>1, <3>2 DEF QueueIndices
  <2>3. head' = After1(head) /\ queued' = Append(Tail(queued), whole)
    BY <1>5, <1>8, <2>2
  <2>4. /\ Tail(queued) \in Seq(Characters) /\ Len(Tail(queued)) = L - 1
        /\ \A k \in 1 .. L - 1 : Tail(queued)[k] = queued[k + 1]
    BY <1>2, <2>1, HeadTailProperties
  <2>5. /\ queued' \in Seq(Characters) /\ Len(queued') = L - 1 + 1
        /\ \A k \in 1 .. L - 1 : queued'[k] = queued[k + 1]
        /\ queued'[L - 1 + 1] = whole
    <3> DEFINE rest == Tail(queued)
    <3>1. rest \in Seq(Characters) /\ whole \in Characters
      BY <1>7, <2>4
    <3> HIDE DEF rest
    <3>2. /\ Append(rest, whole) \in Seq(Characters) /\ Len(Append(rest, whole)) = Len(rest) + 1
          /\ \A k \in 1 .. Len(rest) : Append(rest, whole)[k] = rest[k]
          /\ Append(rest, whole)[Len(rest) + 1] = whole
      BY <3>1, AppendProperties
    <3> QED BY <2>3, <2>4, <3>2 DEF rest
  <2> HIDE DEF L
  <2>6. Len(queued') = L /\ queued'[L] = whole
    BY <1>2, <2>5
  <2>7. /\ After1(head) \in QueueIndices
        /\ \A k \in 1 .. L : Slot(After1(head), k) = Slot(head, k + 1)
    BY <1>2, <1>11, After1Is, NextSlots
  <2>8. After1(tail) = Slot(After1(head), L + 1)
    <3>1. Slot(After1(head), Q) = IF After1(head) + Q - 1 < Q THEN After1(head) + Q - 1
                                  ELSE After1(head) + Q - 1 - Q
      BY <2>1, <2>7, SlotIs
    <3>2. After1(head) = IF head + 1 < Q THEN head + 1 ELSE 0
      BY <1>2, After1Is
    <3> QED BY <1>2, <1>11, <2>2, <3>1, <3>2 DEF QueueIndices
  <2>9. QueueTypes'
    BY <1>2, <1>4, <2>3, <2>5, <2>6, <2>7, <2>8 DEF QueueTypes
  <2>10. LinesAreInTheirSlots'
    <3> SUFFICES ASSUME NEW k \in 1 .. L
                 PROVE  /\ Sound(memory', Slot(After1(head), k))
                        /\ Text(memory', Slot(After1(head), k)) = queued'[k]
      BY <2>3, <2>6 DEF LinesAreInTheirSlots
    <3>1. Slot(After1(head), k) = Slot(head, k + 1)
      BY <2>7
    <3>2. CASE k = L
      BY <1>2, <1>7, <2>6, <3>1, <3>2
    <3>3. CASE k # L
      <4>1. k \in 1 .. L - 1 /\ k + 1 \in 1 .. L
        BY <1>2, <3>3
      <4> QED BY <1>9, <2>5, <3>1, <4>1
    <3> QED BY <3>2, <3>3
  <2> QED BY <1>1, <1>4, <1>7, <2>9, <2>10 DEF BuffersInductive
<1> QED BY <1>2, <1>10, <1>11

(* Taking a line leaves its text in the message that is handed on.         *)
LEMMA TakeLineKeeps == BuffersInductive /\ TakeLine => BuffersInductive'
<1> SUFFICES ASSUME BuffersInductive, TakeLine PROVE BuffersInductive'
  OBVIOUS
<1> DEFINE L == Len(queued)
           Q == QueueSlots
<1>1. /\ GoodMemory(memory) /\ LocalsAreNew(memory) /\ QueueTypes
      /\ handed.text = handed.line /\ LinesAreInTheirSlots
  BY DEF BuffersInductive
<1>2. /\ Q \in Nat /\ Q > 1 /\ L \in Nat /\ L < Q /\ head \in QueueIndices
      /\ queued \in Seq(Characters) /\ tail = Slot(head, L + 1) /\ posted \in Nat
  BY <1>1, Shapes, LenProperties DEF QueueTypes
<1>3. 1 \in 1 .. Q - 1 /\ Slot(head, 1) = head
  BY <1>2, NextSlots
<1>4. L >= 1 /\ queued # <<>>
  BY <1>2, <1>3 DEF TakeLine
<1>5. 1 \in 1 .. L /\ Sound(memory, head) /\ Text(memory, head) = queued[1]
  BY <1>1, <1>2, <1>3, <1>4 DEF LinesAreInTheirSlots
<1>6. /\ GoodMemory(memory') /\ LocalsAreNew(memory') /\ SlotsKept(memory, memory', head)
      /\ handed' = [line |-> Head(queued), text |-> queued[1]]
  <2> DEFINE taken == Assign(memory, incoming, head)
             copied == AppendText(taken, out,
                                  TextOf(taken, incoming, taken.buffers[incoming].size))
             r == Destroy(Destroy(copied, out), incoming)
             text == TextOf(copied, out, copied.buffers[out].size)
  <2>1. memory' = r /\ handed' = [line |-> Head(queued), text |-> text]
    BY DEF TakeLine
  <2>2. /\ GoodMemory(r) /\ LocalsAreNew(r) /\ SlotsKept(memory, r, head)
        /\ text = Text(memory, head)
    BY <1>1, <1>2, <1>5, Taking
  <2> QED BY <1>5, <2>1, <2>2
<1>7. /\ Head(queued) = queued[1]
      /\ Tail(queued) \in Seq(Characters) /\ Len(Tail(queued)) = L - 1
      /\ \A k \in 1 .. L - 1 : Tail(queued)[k] = queued[k + 1]
  BY <1>2, <1>4, HeadTailProperties
<1>8. handed'.text = handed'.line
  BY <1>6, <1>7
<1>9. head' = After1(head) /\ queued' = Tail(queued) /\ tail' = tail /\ posted' = posted
  BY DEF TakeLine
<1> HIDE DEF L
<1>10. /\ After1(head) \in QueueIndices
       /\ \A k \in 1 .. L : Slot(After1(head), k) = Slot(head, k + 1)
  BY <1>2, After1Is, NextSlots
<1>11. QueueTypes'
  <2>1. tail = Slot(After1(head), L) /\ (L - 1) + 1 = L
    BY <1>2, <1>4, <1>10
  <2> QED BY <1>2, <1>7, <1>9, <1>10, <2>1 DEF QueueTypes
<1>12. LinesAreInTheirSlots'
  <2> SUFFICES ASSUME NEW k \in 1 .. L - 1
               PROVE  /\ Sound(memory', Slot(After1(head), k))
                      /\ Text(memory', Slot(After1(head), k)) = queued[k + 1]
    BY <1>7, <1>9 DEF LinesAreInTheirSlots
  <2>1. /\ k \in 1 .. L /\ k + 1 \in 1 .. L /\ k + 1 \in 1 .. Q /\ 1 \in 1 .. Q /\ k + 1 # 1
    BY <1>2
  <2>2. Slot(After1(head), k) = Slot(head, k + 1)
    BY <1>10, <2>1
  <2>3. Slot(head, k + 1) # head /\ Slot(head, k + 1) \in QueueIndices
    BY <1>2, <1>3, <2>1, SlotsAreDistinct, SlotIs
  <2>4. Sound(memory, Slot(head, k + 1)) /\ Text(memory, Slot(head, k + 1)) = queued[k + 1]
    BY <1>1, <2>1 DEF LinesAreInTheirSlots, L
  <2> QED BY <1>6, <2>2, <2>3, <2>4, LineIsKept
<1> QED BY <1>6, <1>8, <1>11, <1>12 DEF BuffersInductive

(* The inductive invariant of the buffers that log_msg, async_msg and      *)
(* circular_q hold: no block is shared, lost or too small, and the slots   *)
(* between head_ and tail_ have the lines that are queued.                 *)
THEOREM BuffersInvariant == BuffersSpec => []BuffersInductive
<1>1. BuffersInit => BuffersInductive
  BY BuffersStart
<1>2. BuffersInductive /\ [BuffersNext]_buffer_vars => BuffersInductive'
  <2> SUFFICES ASSUME BuffersInductive, [BuffersNext]_buffer_vars PROVE BuffersInductive'
    OBVIOUS
  <2>1. CASE PostLine
    BY <2>1, PostLineKeeps
  <2>2. CASE TakeLine
    BY <2>2, TakeLineKeeps
  <2>3. CASE UNCHANGED buffer_vars
    BY <2>3 DEF buffer_vars, BuffersInductive, QueueTypes, LinesAreInTheirSlots
  <2> QED BY <2>1, <2>2, <2>3 DEF BuffersNext
<1> QED BY <1>1, <1>2, PTL DEF BuffersSpec

(* No line changes on its way through the queue, whichever of the buffers  *)
(* it moved through needed the heap, and no block of the heap is leaked,   *)
(* shared, freed twice or written beyond its end (basic_memory_buffer's    *)
(* move, circular_q's push_back and pop_front).                            *)
THEOREM LinesSurviveTheQueue == BuffersSpec => []BuffersKeepTheirText
<1>1. BuffersInductive => BuffersKeepTheirText
  <2> SUFFICES ASSUME BuffersInductive PROVE BuffersKeepTheirText
    OBVIOUS
  <2>1. /\ ~memory.misused /\ memory \in Memories /\ handed.text = handed.line
        /\ queued \in Seq(Characters)
    BY DEF BuffersInductive, GoodMemory, QueueTypes
  <2>2. ASSUME NEW k \in DOMAIN queued
        PROVE  LET slot == (head + k - 1) % QueueSlots
               IN TextOf(memory, slot, memory.buffers[slot].size) = queued[k]
    <3>1. k \in 1 .. Len(queued)
      BY <2>1, LenProperties
    <3>2. Text(memory, Slot(head, k)) = queued[k]
      BY <3>1 DEF BuffersInductive, LinesAreInTheirSlots
    <3> QED BY <3>2 DEF Text, Slot
  <2>3. ASSUME NEW block \in Blocks
        PROVE  LET owners == {b \in DOMAIN memory.buffers : memory.buffers[b].data = block}
               IN Cardinality(owners) = (IF memory.heap[block] = <<>> THEN 0 ELSE 1)
    <3> DEFINE owners == {b \in DOMAIN memory.buffers : memory.buffers[b].data = block}
    <3>1. DOMAIN memory.buffers = Bufs
      BY <2>1 DEF Memories
    <3>2. owners = {b \in Bufs : DataOf(memory, b) = block}
      BY <3>1 DEF DataOf
    <3> HIDE DEF owners
    <3>3. CASE memory.heap[block] = <<>>
      <4>1. \A b \in Bufs : OnHeap(memory, b) => memory.heap[DataOf(memory, b)] # <<>>
        BY DEF BuffersInductive, GoodMemory, BlockIsHeld
      <4>2. owners = {}
        BY <3>2, <3>3, <4>1, Shapes DEF OnHeap
      <4> QED BY <3>3, <4>2, FS_EmptySet DEF owners
    <3>4. CASE memory.heap[block] # <<>>
      <4>1. PICK b \in Bufs : DataOf(memory, b) = block
        BY <3>4 DEF BuffersInductive, GoodMemory, NoBlockIsLost
      <4>2. \A c \in Bufs : DataOf(memory, c) = block => c = b
        BY <4>1, Shapes DEF BuffersInductive, GoodMemory, BlocksAreExclusive, OnHeap
      <4>3. owners = {b}
        BY <3>2, <4>1, <4>2
      <4> QED BY <3>4, <4>3, FS_Singleton DEF owners
    <3> QED BY <3>3, <3>4
  <2> QED BY <2>1, <2>2, <2>3 DEF BuffersKeepTheirText
<1> QED BY <1>1, BuffersInvariant, PTL

------------------------------------------------------------------------------
(* The arguments of a call                                                 *)

(* The codes of the types are distinct, and none of them is "none"'s.      *)
LEMMA CodesAre ==
    /\ DOMAIN Codes = 1 .. 13
    /\ \A i, j \in 1 .. 13 : Codes[i] = Codes[j] => i = j
    /\ \A i \in 1 .. 13 : Codes[i] # "none" /\ (Codes[i] = "named" <=> i = 1)
  BY DEF Codes

(* The types are numbered as the enumeration numbers them.                 *)
LEMMA CodeIs == \A i \in 1 .. 13 : Code(Codes[i]) = i
<1> TAKE i \in 1 .. 13
<1>1. i \in DOMAIN Codes /\ Codes[i] = Codes[i]
  BY CodesAre
<1>2. Code(Codes[i]) \in DOMAIN Codes /\ Codes[Code(Codes[i])] = Codes[i]
  BY <1>1 DEF Code
<1> QED BY <1>2, CodesAre

(* What the call is given, of an argument.                                 *)
Plain(a) == [type |-> a.type, value |-> a.value]

(* What is stored of an argument tells what it is.                         *)
LEMMA MadeIs ==
    ASSUME NEW a \in Arguments
    PROVE  /\ Code(MakeArg(a).type) \in 1 .. 13
           /\ Codes[Code(MakeArg(a).type)] = MakeArg(a).type
           /\ MakeArg(a).type # "none"
           /\ MakeArg(a).type = "named" <=> a.name # <<>>
           /\ a.name # <<>> => MakeArg(a).value = a
           /\ MakeArg(a) = [type |-> MakeArg(a).type, value |-> MakeArg(a).value]
           /\ Deserialize(MakeArg(a)) = Plain(a)
<1>1. PICK i \in 2 .. 13 : a.type = Codes[i]
  BY ArgumentsAssumption
<1>2. i \in 1 .. 13 /\ i # 1 /\ 1 \in 1 .. 13
  BY <1>1
<1>3. a.type # "named" /\ a.type # "none" /\ Code(a.type) = i /\ Codes[i] = a.type
  BY <1>1, <1>2, CodesAre, CodeIs
<1>4. "named" # "none" /\ Code("named") = 1 /\ Codes[1] = "named"
  BY <1>2, CodesAre, CodeIs
<1>5. CASE a.name = <<>>
  BY <1>2, <1>3, <1>5 DEF MakeArg, Deserialize, Plain
<1>6. CASE a.name # <<>>
  BY <1>2, <1>4, <1>6 DEF MakeArg, Deserialize, Plain
<1> QED BY <1>5, <1>6

(* The powers of sixteen.                                                  *)
LEMMA SixteenToIs ==
    /\ SixteenTo[0] = 1
    /\ \A n \in 1 .. MaxPacked + 1 : SixteenTo[n] = 16 * SixteenTo[n - 1]
    /\ \A n \in 0 .. MaxPacked + 1 : SixteenTo[n] \in Nat /\ SixteenTo[n] > 0
<1> DEFINE N == MaxPacked + 1
<1>1. N \in Nat
  BY MaxPackedAssumption
<1> HIDE DEF N
<1>2. 16 \in Nat \ {0}
  OBVIOUS
<1>3. /\ PowersOf(16, N)[0] = 1
      /\ \A n \in 1 .. N : PowersOf(16, N)[n] = 16 * PowersOf(16, N)[n - 1]
      /\ \A n \in 0 .. N : PowersOf(16, N)[n] \in Nat \ {0}
  BY <1>1, <1>2, PowersAre
<1> QED BY <1>3 DEF SixteenTo, N

(* A larger shift is no smaller power.                                     *)
LEMMA SixteenToGrows ==
    ASSUME NEW i \in 0 .. MaxPacked + 1, NEW j \in 0 .. MaxPacked + 1, i <= j
    PROVE  SixteenTo[i] <= SixteenTo[j]
<1> DEFINE S == {n \in Nat : i <= n /\ n <= MaxPacked + 1 => SixteenTo[i] <= SixteenTo[n]}
<1>1. 0 \in S
  BY SixteenToIs
<1>2. ASSUME NEW n \in Nat, n \in S PROVE n + 1 \in S
  <2> SUFFICES ASSUME i <= n + 1, n + 1 <= MaxPacked + 1 PROVE SixteenTo[i] <= SixteenTo[n + 1]
    OBVIOUS
  <2>0. MaxPacked \in Nat
    BY MaxPackedAssumption
  <2>1. CASE i = n + 1
    BY <2>1, <2>0, SixteenToIs
  <2>2. CASE i # n + 1
    <3>1. i <= n /\ n <= MaxPacked + 1 /\ n + 1 \in 1 .. MaxPacked + 1 /\ n \in 0 .. MaxPacked + 1
          /\ (n + 1) - 1 = n
      BY <2>0, <2>2
    <3>2. SixteenTo[i] <= SixteenTo[n]
      BY <3>1, <1>2
    <3>3. SixteenTo[n + 1] = 16 * SixteenTo[n]
      BY <3>1, SixteenToIs
    <3> QED BY <3>1, <3>2, <3>3, SixteenToIs
  <2> QED BY <2>1, <2>2
<1>3. Nat \subseteq S
  <2> HIDE DEF S
  <2> QED BY <1>1, <1>2, InductionOnNat
<1> QED BY <1>3, MaxPackedAssumption

(* To divide by sixteen times b is to divide by b and then by sixteen.     *)
LEMMA DividedTwice ==
    ASSUME NEW x \in Nat, NEW b \in Nat, b > 0
    PROVE  x \div (16 * b) = (x \div b) \div 16
<1> DEFINE q == x \div b
           r == x % b
           p == q \div 16
           d == q % 16
           n == 16 * b
           y == b * d + r
<1>1. q \in Nat /\ r \in Nat /\ r < b /\ x = b * q + r
  BY DivisionIs
<1> HIDE DEF q, r
<1>2. p \in Nat /\ d \in Nat /\ d < 16 /\ q = 16 * p + d
  BY <1>1, DivisionIs
<1> HIDE DEF p, d
<1>3. b * (16 * p + d) = (16 * b) * p + b * d
  BY <1>2
<1>4. b * d \in Nat /\ b * d <= b * 15
  BY <1>2
<1>5. x = n * p + y /\ y \in Nat /\ y < n /\ n \in Nat /\ n > 0
  BY <1>1, <1>2, <1>3, <1>4
<1> HIDE DEF n, y
<1>6. x \div n = p
  BY <1>2, <1>5, DivisionIsUnique
<1> QED BY <1>6 DEF n, p, q

(* The word of the types of the last n arguments.                          *)
LEMMA TypesOfLastAre ==
    ASSUME NEW args \in Seq(Arguments)
    PROVE  /\ TypesOfLast(args)[0] = 0
           /\ \A n \in 1 .. Len(args) :
                 TypesOfLast(args)[n] =
                     (Code(MakeArg(args[Len(args) - n + 1]).type)
                         + TypesOfLast(args)[n - 1] * 16) % TypeWord
           /\ \A n \in 0 .. Len(args) : TypesOfLast(args)[n] \in Nat
<1> DEFINE N == Len(args)
           CodeOf(n) == Code(MakeArg(args[N - n + 1]).type)
           step == [ky \in (1 .. N) \X Nat |-> (CodeOf(ky[1]) + ky[2] * 16) % TypeWord]
           Is(t) == t = [n \in 0 .. N |->
                            IF n = 0 THEN 0 ELSE (CodeOf(n) + t[n - 1] * 16) % TypeWord]
           c == CHOOSE t : Is(t)
<1>1. N \in Nat /\ TypeWord \in Nat /\ TypeWord > 0
  BY MaxPackedAssumption, SixteenToIs DEF TypeWord
<1>2. \A n \in 1 .. N : CodeOf(n) \in Nat
  <2> TAKE n \in 1 .. N
  <2>1. args[N - n + 1] \in Arguments
    BY <1>1
  <2> HIDE DEF N
  <2>2. CodeOf(n) \in 1 .. 13
    BY <2>1, MadeIs
  <2> QED BY <2>2
<1>3. TypesOfLast(args) = c
  BY DEF TypesOfLast
<1> HIDE DEF CodeOf, N
<1>4. \A k \in 1 .. N, y \in Nat : step[<<k, y>>] = (CodeOf(k) + y * 16) % TypeWord
  OBVIOUS
<1>5. ASSUME NEW k \in 1 .. N, NEW y \in Nat PROVE (CodeOf(k) + y * 16) % TypeWord \in Nat
  <2> DEFINE x == CodeOf(k) + y * 16
  <2>1. x \in Nat
    BY <1>2
  <2> HIDE DEF x
  <2>2. x % TypeWord \in Nat
    BY <2>1, <1>1, DivisionIs
  <2> QED BY <2>2 DEF x
<1>6. step \in StepsOn(N, Nat)
  BY <1>5 DEF StepsOn
<1> HIDE DEF step
<1>7. PICK t : Runs(t, N, Nat, 0, step)
  BY <1>1, <1>6, RecursionExists
<1>8. /\ t \in [0 .. N -> Nat] /\ t[0] = 0
      /\ \A k \in 1 .. N : t[k] = (CodeOf(k) + t[k - 1] * 16) % TypeWord
  <2>1. /\ t \in [0 .. N -> Nat] /\ t[0] = 0
        /\ \A k \in 1 .. N : t[k] = step[<<k, t[k - 1]>>]
    BY <1>7 DEF Runs
  <2>2. ASSUME NEW k \in 1 .. N PROVE t[k] = (CodeOf(k) + t[k - 1] * 16) % TypeWord
    <3>1. t[k - 1] \in Nat
      BY <1>1, <2>1
    <3>2. step[<<k, t[k - 1]>>] = (CodeOf(k) + t[k - 1] * 16) % TypeWord
      BY <1>4, <3>1
    <3> QED BY <2>1, <3>2
  <2> QED BY <2>1, <2>2
<1>9. Is(t)
  BY <1>1, <1>8
<1>10. Is(c)
  BY <1>9
<1> HIDE DEF c
<1>11. c[0] = 0 /\ \A k \in 1 .. N : c[k] = (CodeOf(k) + c[k - 1] * 16) % TypeWord
  BY <1>1, <1>10
<1>12. c[0] \in Nat /\ \A k \in 1 .. N : c[k - 1] \in Nat => c[k] \in Nat
  BY <1>5, <1>11
<1>13. \A k \in 0 .. N : c[k] \in Nat
  BY <1>1, <1>12, RecursionType
<1> QED BY <1>3, <1>11, <1>13 DEF N, CodeOf

(* The arguments of a call                                                 *)
ArgLists == {args \in Seq(Arguments) : Len(args) <= MaxArgs}

(* Fewer arguments than the word has nibbles do not overflow it.           *)
LEMMA TypesFit ==
    ASSUME NEW args \in Seq(Arguments), Len(args) <= MaxPacked
    PROVE  /\ \A n \in 0 .. Len(args) : TypesOfLast(args)[n] < SixteenTo[n]
           /\ \A n \in 1 .. Len(args) :
                 TypesOfLast(args)[n] =
                     16 * TypesOfLast(args)[n - 1] + Code(MakeArg(args[Len(args) - n + 1]).type)
<1> DEFINE N == Len(args)
           T == TypesOfLast(args)
           CodeOf(n) == Code(MakeArg(args[N - n + 1]).type)
           S == {n \in Nat : n <= N =>
                    /\ T[n] < SixteenTo[n]
                    /\ n # 0 => T[n] = 16 * T[n - 1] + CodeOf(n)}
<1>1. N \in Nat /\ MaxPacked \in Nat /\ N <= MaxPacked
  BY MaxPackedAssumption
<1>2. \A n \in 1 .. N : CodeOf(n) \in 1 .. 13
  <2> TAKE n \in 1 .. N
  <2>1. args[N - n + 1] \in Arguments
    BY <1>1
  <2> HIDE DEF N
  <2> QED BY <2>1, MadeIs
<1>3. /\ T[0] = 0
      /\ \A n \in 1 .. N : T[n] = (CodeOf(n) + T[n - 1] * 16) % TypeWord
      /\ \A n \in 0 .. N : T[n] \in Nat
  BY TypesOfLastAre
<1> HIDE DEF N, T, CodeOf
<1>4. 0 \in S
  BY <1>3, SixteenToIs
<1>5. ASSUME NEW n \in Nat, n \in S PROVE n + 1 \in S
  <2> SUFFICES ASSUME n + 1 <= N
               PROVE  /\ T[n + 1] < SixteenTo[n + 1]
                      /\ T[n + 1] = 16 * T[(n + 1) - 1] + CodeOf(n + 1)
    OBVIOUS
  <2>1. /\ n + 1 \in 1 .. N /\ n \in 0 .. N /\ (n + 1) - 1 = n
        /\ n \in 0 .. MaxPacked + 1 /\ n + 1 \in 1 .. MaxPacked + 1
        /\ n + 1 \in 0 .. MaxPacked + 1
    BY <1>1
  <2>2. /\ T[n] < SixteenTo[n] /\ T[n] \in Nat /\ SixteenTo[n] \in Nat
        /\ CodeOf(n + 1) \in 1 .. 13
        /\ SixteenTo[n + 1] = 16 * SixteenTo[n]
    BY <2>1, <1>2, <1>3, <1>5, SixteenToIs
  <2> DEFINE t == T[n]
             y == CodeOf(n + 1)
             b == SixteenTo[n]
             x == y + t * 16
  <2>0. t < b /\ t \in Nat /\ b \in Nat /\ y \in 1 .. 13 /\ SixteenTo[n + 1] = 16 * b
    BY <2>2
  <2> HIDE DEF t, y, b
  <2>3. x \in Nat /\ x < SixteenTo[n + 1]
    BY <2>0
  <2>4. SixteenTo[n + 1] <= TypeWord
    <3>1. MaxPacked + 1 \in 0 .. MaxPacked + 1 /\ n + 1 <= MaxPacked + 1
      BY <1>1, <2>1
    <3> QED BY <2>1, <3>1, SixteenToGrows DEF TypeWord
  <2>5. TypeWord \in Nat /\ SixteenTo[n + 1] \in Nat
    BY <1>1, <2>1, SixteenToIs DEF TypeWord
  <2>6. T[n + 1] = x % TypeWord
    BY <1>3, <2>1 DEF t, y
  <2>7. x = 16 * t + y
    BY <2>0
  <2> HIDE DEF x
  <2>8. x % TypeWord = x
    BY <2>3, <2>4, <2>5
  <2> QED BY <2>1, <2>3, <2>6, <2>7, <2>8 DEF t, y
<1>6. Nat \subseteq S
  <2> HIDE DEF S
  <2> QED BY <1>4, <1>5, InductionOnNat
<1>7. \A n \in 0 .. N : T[n] < SixteenTo[n]
  BY <1>6
<1>8. \A n \in 1 .. N : T[n] = 16 * T[n - 1] + CodeOf(n)
  BY <1>6
<1> QED BY <1>7, <1>8 DEF N, T, CodeOf

(* Their word, shifted by i nibbles, is that of the last but i.            *)
LEMMA TypesShifted ==
    ASSUME NEW args \in Seq(Arguments), Len(args) <= MaxPacked
    PROVE  \A i \in 0 .. Len(args) :
              GetTypes(args) \div SixteenTo[i] = TypesOfLast(args)[Len(args) - i]
<1> DEFINE N == Len(args)
           T == TypesOfLast(args)
           CodeOf(n) == Code(MakeArg(args[N - n + 1]).type)
           S == {i \in Nat : i <= N => T[N] \div SixteenTo[i] = T[N - i]}
<1>1. N \in Nat /\ MaxPacked \in Nat /\ N <= MaxPacked
  BY MaxPackedAssumption
<1>2. \A n \in 1 .. N : CodeOf(n) \in 1 .. 13
  <2> TAKE n \in 1 .. N
  <2>1. args[N - n + 1] \in Arguments
    BY <1>1
  <2> HIDE DEF N
  <2> QED BY <2>1, MadeIs
<1>3. /\ \A n \in 1 .. N : T[n] = 16 * T[n - 1] + CodeOf(n)
      /\ \A n \in 0 .. N : T[n] \in Nat
  BY TypesFit, TypesOfLastAre
<1>4. GetTypes(args) = T[N]
  BY DEF GetTypes
<1> HIDE DEF N, T, CodeOf
<1>5. 0 \in S
  BY <1>1, <1>3, SixteenToIs
<1>6. ASSUME NEW i \in Nat, i \in S PROVE i + 1 \in S
  <2> SUFFICES ASSUME i + 1 <= N PROVE T[N] \div SixteenTo[i + 1] = T[N - (i + 1)]
    OBVIOUS
  <2> DEFINE b == SixteenTo[i]
             x == T[N]
             k == N - i
             q == T[k - 1]
             y == CodeOf(k)
  <2>1. /\ i \in 0 .. MaxPacked + 1 /\ i + 1 \in 1 .. MaxPacked + 1 /\ (i + 1) - 1 = i
        /\ k \in 1 .. N /\ k - 1 \in 0 .. N /\ N \in 0 .. N /\ k - 1 = N - (i + 1)
        /\ i <= N
    BY <1>1
  <2>2. b \in Nat /\ b > 0 /\ SixteenTo[i + 1] = 16 * b
    BY <2>1, SixteenToIs
  <2>3. x \in Nat /\ x \div b = T[k]
    BY <2>1, <1>3, <1>6
  <2>4. T[k] = 16 * q + y /\ q \in Nat /\ y \in Nat /\ y < 16
    <3>1. CodeOf(k) \in 1 .. 13
      BY <2>1, <1>2
    <3>2. T[k] = 16 * T[k - 1] + CodeOf(k)
      BY <2>1, <1>3
    <3>3. T[k - 1] \in Nat
      BY <2>1, <1>3
    <3> QED BY <3>1, <3>2, <3>3, SMTT(30)
  <2>5. T[N - (i + 1)] = q
    BY <2>1
  <2> HIDE DEF b, x, q, y, k
  <2>6. (16 * q + y) \div 16 = q
    BY <2>4, DivisionIsUnique
  <2>7. x \div (16 * b) = (x \div b) \div 16
    BY <2>2, <2>3, DividedTwice
  <2>8. T[N] \div SixteenTo[i + 1] = x \div (16 * b)
    BY <2>2 DEF x
  <2> QED BY <2>3, <2>4, <2>5, <2>6, <2>7, <2>8
<1>7. Nat \subseteq S
  <2> HIDE DEF S
  <2> QED BY <1>5, <1>6, InductionOnNat
<1>8. \A i \in 0 .. N : T[N] \div SixteenTo[i] = T[N - i]
  BY <1>7
<1> QED BY <1>4, <1>8 DEF N, T

(* The store of a few arguments has their types in its word.               *)
LEMMA PackedStore ==
    ASSUME NEW args \in Seq(Arguments), Len(args) < MaxPacked, NEW store,
           store = ArgStore(args)
    PROVE  /\ ~Negative(store) /\ Len(store.data) = Len(args)
           /\ \A i \in 0 .. Len(args) - 1 :
                 /\ TypeAt(store, i) = MakeArg(args[i + 1]).type
                 /\ DataAt(store, i) = MakeArg(args[i + 1]).value
           /\ \A i \in Len(args) .. MaxPacked + 1 : TypeAt(store, i) = "none"
<1> DEFINE N == Len(args)
           T == TypesOfLast(args)
           CodeOf(n) == Code(MakeArg(args[N - n + 1]).type)
<1>1. N \in Nat /\ MaxPacked \in Nat /\ N < MaxPacked /\ N <= MaxPacked
  BY MaxPackedAssumption
<1>2. /\ store.types = GetTypes(args)
      /\ store.data = [i \in DOMAIN args |-> MakeArg(args[i]).value]
  BY DEF ArgStore, IsPacked
<1>3. DOMAIN args = 1 .. N /\ \A i \in 1 .. N : args[i] \in Arguments
  OBVIOUS
<1>4. Len(store.data) = N
  BY <1>1, <1>2, <1>3
<1>5. \A i \in 0 .. N - 1 : DataAt(store, i) = MakeArg(args[i + 1]).value
  <2> TAKE i \in 0 .. N - 1
  <2>1. i + 1 \in DOMAIN args /\ i < Len(store.data)
    BY <1>1, <1>3, <1>4
  <2> QED BY <1>2, <2>1 DEF DataAt
<1>6. /\ \A n \in 0 .. N : T[n] < SixteenTo[n] /\ T[n] \in Nat
      /\ \A n \in 1 .. N : T[n] = 16 * T[n - 1] + CodeOf(n)
      /\ \A i \in 0 .. N : store.types \div SixteenTo[i] = T[N - i]
      /\ store.types = T[N]
  BY <1>1, <1>2, TypesFit, TypesShifted, TypesOfLastAre DEF GetTypes
<1>7. \A i \in 0 .. N - 1 : TypeAt(store, i) = MakeArg(args[i + 1]).type
  <2> TAKE i \in 0 .. N - 1
  <2> DEFINE k == N - i
             y == CodeOf(k)
             q == T[k - 1]
  <2>1. /\ k \in 1 .. N /\ k - 1 \in 0 .. N /\ N - k + 1 = i + 1 /\ i + 1 \in 1 .. N
        /\ i \in 0 .. N
    BY <1>1
  <2>2. /\ y = Code(MakeArg(args[i + 1]).type) /\ y \in 1 .. 13
        /\ Codes[y] = MakeArg(args[i + 1]).type
    BY <2>1, <1>3, MadeIs
  <2>3. q \in Nat
    BY <2>1, <1>6
  <2>4. T[k] = 16 * q + y
    BY <2>1, <1>6
  <2>5. store.types \div SixteenTo[i] = T[k]
    BY <2>1, <1>6
  <2> HIDE DEF T, k, q, y
  <2>6. (16 * q + y) % 16 = y
    <3>1. 16 \in Nat /\ 16 > 0 /\ y \in Nat /\ y < 16
      BY <2>2, SMTT(30)
    <3> QED BY <2>3, <3>1, DivisionIsUnique
  <2>7. (store.types \div SixteenTo[i]) % 16 = y
    BY <2>4, <2>5, <2>6
  <2>8. y # 0 /\ y \in DOMAIN Codes
    BY <2>2, CodesAre
  <2> QED BY <2>2, <2>7, <2>8 DEF TypeAt
<1>8. SixteenTo[N] \in Nat /\ T[N] < SixteenTo[N] /\ T[N] \in Nat
  BY <1>1, <1>6, SixteenToIs
<1>9. \A i \in N .. MaxPacked + 1 : TypeAt(store, i) = "none"
  <2> TAKE i \in N .. MaxPacked + 1
  <2> DEFINE x == T[N]
             b == SixteenTo[i]
  <2>1. i \in 0 .. MaxPacked + 1 /\ N \in 0 .. MaxPacked + 1 /\ N <= i
    BY <1>1
  <2>2. b \in Nat /\ b > 0 /\ SixteenTo[N] <= b
    BY <2>1, SixteenToIs, SixteenToGrows
  <2>3. x \in Nat /\ x < b /\ store.types = x
    BY <1>6, <1>8, <2>2
  <2> HIDE DEF x, b
  <2>4. x \div b = 0
    BY <2>2, <2>3
  <2>5. (store.types \div SixteenTo[i]) % 16 = 0
    BY <2>3, <2>4 DEF b
  <2>6. ~(0 \in DOMAIN Codes)
    BY CodesAre
  <2> QED BY <2>5, <2>6 DEF TypeAt
<1>10. ~Negative(store)
  <2> DEFINE x == T[N]
             b == SixteenTo[N]
             c == SixteenTo[MaxPacked]
             w == TypeWord
  <2>1. N \in 0 .. MaxPacked + 1 /\ MaxPacked \in 0 .. MaxPacked + 1 /\ N <= MaxPacked
        /\ MaxPacked + 1 \in 1 .. MaxPacked + 1 /\ (MaxPacked + 1) - 1 = MaxPacked
    BY <1>1
  <2>2. b <= c /\ c \in Nat /\ b \in Nat /\ w = 16 * c /\ x < b /\ x \in Nat /\ store.types = x
    BY <1>6, <1>8, <2>1, SixteenToIs, SixteenToGrows DEF TypeWord
  <2> HIDE DEF x, b, c, w
  <2>3. w \div 2 = 8 * c
    BY <2>2
  <2>4. ~(x >= w \div 2)
    BY <2>2, <2>3
  <2> QED BY <2>2, <2>4 DEF Negative, w
<1> QED BY <1>4, <1>5, <1>7, <1>9, <1>10

(* That of many has their number, and each is stored with its type.        *)
LEMMA LongStore ==
    ASSUME NEW args \in Seq(Arguments), ~(Len(args) < MaxPacked), Len(args) <= MaxArgs,
           NEW store, store = ArgStore(args)
    PROVE  /\ Negative(store) /\ Len(store.data) = Len(args) + 1
           /\ TypeWord - store.types = Len(args)
           /\ TypeAt(store, MaxPacked - 1) # "none"
           /\ \A i \in 0 .. Len(args) - 1 : DataAt(store, i) = MakeArg(args[i + 1])
           /\ DataAt(store, Len(args)) = NoArg
<1> DEFINE N == Len(args)
           p == SixteenTo[MaxPacked - 1]
           w == TypeWord
           made == [i \in DOMAIN args |-> MakeArg(args[i])]
<1>1. N \in Nat /\ MaxPacked \in Nat /\ MaxPacked > 0 /\ N >= MaxPacked /\ MaxArgs \in Nat
      /\ N <= MaxArgs
  BY MaxPackedAssumption, ArgsBound
<1>2. store.types = w - N /\ store.data = Append(made, NoArg)
  BY DEF ArgStore, IsPacked
<1>3. DOMAIN args = 1 .. N /\ DOMAIN made = 1 .. N /\ \A i \in 1 .. N : made[i] = MakeArg(args[i])
  OBVIOUS
<1> DEFINE X == {MakeArg(args[i]) : i \in DOMAIN args} \cup {NoArg}
           long == Append(made, NoArg)
<1>4. made \in Seq(X) /\ Len(made) = N /\ NoArg \in X
  BY <1>1, <1>3
<1> HIDE DEF made, X, N
<1>5. /\ Len(store.data) = N + 1 /\ store.data[N + 1] = NoArg
      /\ \A i \in 1 .. N : store.data[i] = MakeArg(args[i])
  <2>1. /\ Len(long) = N + 1 /\ long[N + 1] = NoArg
        /\ \A i \in 1 .. N : long[i] = made[i]
    BY <1>1, <1>4, AppendProperties
  <2> QED BY <1>2, <1>3, <2>1
<1>6. \A i \in 0 .. N - 1 : DataAt(store, i) = MakeArg(args[i + 1])
  BY <1>1, <1>5 DEF DataAt
<1>7. DataAt(store, N) = NoArg
  BY <1>1, <1>5 DEF DataAt
<1>8. p \in Nat /\ p > 0 /\ w = 256 * p /\ N <= p /\ w \in Nat
  <2>1. /\ MaxPacked - 1 \in 0 .. MaxPacked + 1 /\ MaxPacked \in 1 .. MaxPacked + 1
        /\ MaxPacked + 1 \in 1 .. MaxPacked + 1 /\ (MaxPacked + 1) - 1 = MaxPacked
    BY <1>1
  <2>2. p \in Nat /\ p > 0 /\ SixteenTo[MaxPacked] = 16 * p
    BY <2>1, SixteenToIs
  <2>3. w = 16 * SixteenTo[MaxPacked]
    BY <2>1, SixteenToIs DEF TypeWord
  <2>4. N <= p
    <3>1. MaxArgs <= p
      BY ArgsBound
    <3> HIDE DEF p, N
    <3> QED BY <1>1, <2>2, <3>1
  <2> HIDE DEF p, w
  <2> QED BY <2>2, <2>3, <2>4
<1>9. Negative(store) /\ w - store.types = N
  <2> HIDE DEF p, w, N
  <2>1. w \div 2 = 128 * p
    BY <1>8
  <2>2. w - N >= w \div 2 /\ w - (w - N) = N
    BY <1>1, <1>8, <2>1
  <2> QED BY <1>2, <2>2 DEF Negative, w
<1>10. TypeAt(store, MaxPacked - 1) # "none"
  <2> DEFINE y == p - N
  <2>1. y \in Nat /\ y < p /\ store.types = p * 255 + y
    <3> HIDE DEF p, w, N
    <3> QED BY <1>1, <1>2, <1>8
  <2> HIDE DEF y, p
  <2>2. (p * 255 + y) \div p = 255
    BY <1>8, <2>1, DivisionIsUnique
  <2>3. store.types \div p = 255 /\ 255 % 16 = 15
    BY <2>1, <2>2
  <2>4. 15 # 0 /\ ~(15 \in DOMAIN Codes)
    BY CodesAre
  <2> QED BY <2>3, <2>4 DEF TypeAt, p
<1> QED BY <1>5, <1>6, <1>7, <1>9, <1>10 DEF N

(* Either way an argument is at its place, and nothing is after the last.  *)
LEMMA StoreIs ==
    ASSUME NEW args \in ArgLists, NEW store, store = ArgStore(args)
    PROVE  /\ \A i \in 0 .. Len(args) - 1 : ArgAt(store, i) = MakeArg(args[i + 1])
           /\ ArgAt(store, Len(args)).type = "none"
           /\ Len(args) <= Len(store.data)
           /\ Len(store.data) \in Nat
           /\ Len(args) <= MaxSize(store)
<1> DEFINE N == Len(args)
<1>1. args \in Seq(Arguments) /\ N <= MaxArgs /\ N \in Nat /\ MaxPacked \in Nat /\ MaxPacked > 0
  BY MaxPackedAssumption DEF ArgLists
<1>2. \A i \in 0 .. N - 1 : args[i + 1] \in Arguments
  BY <1>1
<1>3. \A i \in 0 .. N - 1 :
         MakeArg(args[i + 1]) = [type |-> MakeArg(args[i + 1]).type,
                                 value |-> MakeArg(args[i + 1]).value]
  BY <1>2, MadeIs
<1>4. CASE N < MaxPacked
  <2>1. /\ ~Negative(store) /\ Len(store.data) = N
        /\ \A i \in 0 .. N - 1 : /\ TypeAt(store, i) = MakeArg(args[i + 1]).type
                                 /\ DataAt(store, i) = MakeArg(args[i + 1]).value
        /\ \A i \in N .. MaxPacked + 1 : TypeAt(store, i) = "none"
    BY <1>1, <1>4, PackedStore
  <2> HIDE DEF N
  <2>2. TypeAt(store, MaxPacked - 1) = "none" /\ TypeAt(store, N) = "none"
    BY <1>1, <1>4, <2>1
  <2>3. \A i \in 0 .. N - 1 : ArgAt(store, i) = MakeArg(args[i + 1])
    BY <1>3, <2>1, <2>2 DEF ArgAt
  <2>4. ArgAt(store, N).type = "none"
    BY <2>2 DEF ArgAt
  <2>5. N <= MaxSize(store)
    BY <1>1, <1>4, <2>1 DEF MaxSize
  <2> QED BY <1>1, <2>1, <2>3, <2>4, <2>5 DEF N
<1>5. CASE ~(N < MaxPacked)
  <2>1. /\ Negative(store) /\ Len(store.data) = N + 1
        /\ TypeWord - store.types = N
        /\ TypeAt(store, MaxPacked - 1) # "none"
        /\ \A i \in 0 .. N - 1 : DataAt(store, i) = MakeArg(args[i + 1])
        /\ DataAt(store, N) = NoArg
    BY <1>1, <1>5, LongStore
  <2> HIDE DEF N
  <2>2. \A i \in 0 .. N - 1 : ArgAt(store, i) = MakeArg(args[i + 1])
    BY <2>1 DEF ArgAt
  <2>3. ArgAt(store, N).type = "none"
    BY <2>1 DEF ArgAt, NoArg
  <2>4. N <= MaxSize(store)
    BY <1>1, <2>1 DEF MaxSize
  <2> QED BY <1>1, <2>1, <2>2, <2>3, <2>4 DEF N
<1> QED BY <1>4, <1>5

(* The search for the end finds it.                                        *)
LEMMA EndIs ==
    ASSUME NEW args \in ArgLists, NEW store, store = ArgStore(args)
    PROVE  EndOf(store) = Len(args)
<1> DEFINE N == Len(args)
           L == MaxPacked + Len(store.data)
           Ends(i) == /\ ArgAt(store, i).type = "none"
                      /\ \A j \in 0 .. i - 1 : ArgAt(store, j).type # "none"
<1>1. /\ \A i \in 0 .. N - 1 : ArgAt(store, i) = MakeArg(args[i + 1])
      /\ ArgAt(store, N).type = "none"
      /\ N <= Len(store.data) /\ Len(store.data) \in Nat
  BY StoreIs
<1>2. args \in Seq(Arguments) /\ N \in Nat /\ MaxPacked \in Nat
  BY MaxPackedAssumption DEF ArgLists
<1>3. \A i \in 0 .. N - 1 : ArgAt(store, i).type # "none"
  <2> TAKE i \in 0 .. N - 1
  <2>1. args[i + 1] \in Arguments
    BY <1>2
  <2> QED BY <1>1, <2>1, MadeIs
<1> HIDE DEF N
<1>4. N \in 0 .. L /\ L \in Nat
  BY <1>1, <1>2
<1>5. Ends(N)
  BY <1>1, <1>3
<1>6. ASSUME NEW i \in 0 .. L, Ends(i) PROVE i = N
  <2>1. CASE i < N
    BY <1>2, <1>3, <1>4, <1>6, <2>1
  <2>2. CASE N < i
    BY <1>1, <1>2, <1>4, <1>6, <2>2
  <2> QED BY <1>2, <1>4, <2>1, <2>2
<1>7. EndOf(store) = CHOOSE i \in 0 .. L : Ends(i)
  BY DEF EndOf
<1> HIDE DEF Ends, L
<1>8. EndOf(store) = N
  BY <1>4, <1>5, <1>6, <1>7
<1> QED BY <1>8 DEF N

(* Each argument is found by its index.                                    *)
LEMMA FoundByIndex ==
    ASSUME NEW args \in ArgLists, NEW store, store = ArgStore(args), NEW index \in Nat
    PROVE  Get(store, index) = IF index < Len(args) THEN Plain(args[index + 1]) ELSE NoArg
<1> DEFINE N == Len(args)
<1>1. args \in Seq(Arguments) /\ N <= MaxArgs /\ N \in Nat /\ MaxPacked \in Nat
  BY MaxPackedAssumption DEF ArgLists
<1>2. Deserialize(NoArg) = NoArg
  BY DEF Deserialize, NoArg
<1>3. DoGet(store, index) = IF index < N THEN MakeArg(args[index + 1]) ELSE NoArg
  <2>1. CASE N < MaxPacked
    <3>1. /\ ~Negative(store)
          /\ \A i \in 0 .. N - 1 : /\ TypeAt(store, i) = MakeArg(args[i + 1]).type
                                   /\ DataAt(store, i) = MakeArg(args[i + 1]).value
          /\ \A i \in N .. MaxPacked + 1 : TypeAt(store, i) = "none"
      BY <1>1, <2>1, PackedStore
    <3>2. CASE index < N
      <4>1. index \in 0 .. N - 1 /\ index <= MaxPacked /\ args[index + 1] \in Arguments
        BY <1>1, <2>1, <3>2
      <4>2. /\ MakeArg(args[index + 1]) = [type |-> MakeArg(args[index + 1]).type,
                                           value |-> MakeArg(args[index + 1]).value]
            /\ MakeArg(args[index + 1]).type # "none"
        BY <4>1, MadeIs
      <4> HIDE DEF N
      <4>3. /\ TypeAt(store, index) = MakeArg(args[index + 1]).type
            /\ DataAt(store, index) = MakeArg(args[index + 1]).value
        BY <3>1, <4>1
      <4> QED BY <3>1, <3>2, <4>1, <4>2, <4>3 DEF DoGet
    <3>3. CASE ~(index < N)
      <4> HIDE DEF N
      <4>1. ~(index <= MaxPacked /\ TypeAt(store, index) # "none")
        BY <1>1, <3>1, <3>3
      <4> QED BY <3>1, <3>3, <4>1 DEF DoGet
    <3> QED BY <3>2, <3>3
  <2>2. CASE ~(N < MaxPacked)
    <3>1. /\ Negative(store) /\ TypeWord - store.types = N
          /\ \A i \in 0 .. N - 1 : DataAt(store, i) = MakeArg(args[i + 1])
      BY <1>1, <2>2, LongStore
    <3> HIDE DEF N
    <3>2. index < N => DataAt(store, index) = MakeArg(args[index + 1])
      BY <1>1, <3>1
    <3> QED BY <3>1, <3>2 DEF DoGet
  <2> QED BY <2>1, <2>2
<1>4. CASE index < N
  <2>1. args[index + 1] \in Arguments
    BY <1>1, <1>4
  <2> QED BY <1>3, <1>4, <2>1, MadeIs DEF Get
<1>5. CASE ~(index < N)
  BY <1>2, <1>3, <1>5 DEF Get
<1> QED BY <1>4, <1>5

(* What the map holds of a named argument.                                 *)
Entry(a) == [name |-> a.name, arg |-> Plain(a)]
Entries == {Entry(a) : a \in Arguments}
ArgMaps == Seq(Entries)

WithArg(map, a) == IF a.name # <<>> THEN Append(map, Entry(a)) ELSE map

(* The map is collected from one argument after the other.                 *)
LEMMA NamedUpToIs ==
    ASSUME NEW args \in ArgLists, NEW store, store = ArgStore(args)
    PROVE  /\ NamedUpTo(store)[0] = <<>>
           /\ \A i \in 1 .. Len(args) :
                 NamedUpTo(store)[i] = WithArg(NamedUpTo(store)[i - 1], args[i])
           /\ \A i \in 0 .. Len(args) : NamedUpTo(store)[i] \in ArgMaps
<1> DEFINE N == Len(args)
           E(i) == [name |-> ArgAt(store, i - 1).value.name,
                    arg |-> Deserialize(ArgAt(store, i - 1))]
           Named(i) == ArgAt(store, i - 1).type = "named"
           step == [ky \in (1 .. N) \X ArgMaps |-> WithArg(ky[2], args[ky[1]])]
           Is(t) == t = [i \in 0 .. EndOf(store) |->
                            IF i = 0 THEN <<>>
                            ELSE IF Named(i) THEN Append(t[i - 1], E(i)) ELSE t[i - 1]]
           c == CHOOSE t : Is(t)
<1>1. args \in Seq(Arguments) /\ N \in Nat /\ EndOf(store) = N
  BY EndIs DEF ArgLists
<1>2. \A i \in 1 .. N : args[i] \in Arguments
  BY <1>1
<1>3. \A i \in 1 .. N : /\ Named(i) <=> args[i].name # <<>>
                        /\ args[i].name # <<>> => E(i) = Entry(args[i])
  <2> TAKE i \in 1 .. N
  <2>1. i - 1 \in 0 .. N - 1 /\ (i - 1) + 1 = i
    BY <1>1
  <2>2. ArgAt(store, i - 1) = MakeArg(args[i])
    <3>1. ArgAt(store, i - 1) = MakeArg(args[(i - 1) + 1])
      BY <2>1, StoreIs
    <3> QED BY <2>1, <3>1
  <2>3. /\ MakeArg(args[i]).type = "named" <=> args[i].name # <<>>
        /\ args[i].name # <<>> => MakeArg(args[i]).value = args[i]
        /\ Deserialize(MakeArg(args[i])) = Plain(args[i])
    BY <1>2, MadeIs
  <2> QED BY <2>2, <2>3 DEF Entry
<1>4. NamedUpTo(store) = c
  BY DEF NamedUpTo
<1> HIDE DEF N, E, Named
<1>5. ASSUME NEW k \in 1 .. N, NEW y \in ArgMaps PROVE WithArg(y, args[k]) \in ArgMaps
  <2>1. Entry(args[k]) \in Entries
    BY <1>2 DEF Entries
  <2>2. Append(y, Entry(args[k])) \in ArgMaps
    <3> HIDE DEF Entries
    <3> QED BY <2>1, AppendProperties DEF ArgMaps
  <2> QED BY <2>2 DEF WithArg
<1>6. \A k \in 1 .. N, y \in ArgMaps : step[<<k, y>>] = WithArg(y, args[k])
  OBVIOUS
<1>7. step \in StepsOn(N, ArgMaps)
  BY <1>5 DEF StepsOn
<1>8. <<>> \in ArgMaps
  BY DEF ArgMaps
<1> HIDE DEF step
<1>9. PICK t : Runs(t, N, ArgMaps, <<>>, step)
  BY <1>1, <1>7, <1>8, RecursionExists
<1>10. /\ t \in [0 .. N -> ArgMaps] /\ t[0] = <<>>
       /\ \A k \in 1 .. N : t[k] = step[<<k, t[k - 1]>>]
  BY <1>9 DEF Runs
<1>11. ASSUME NEW k \in 1 .. N
       PROVE  t[k] = IF Named(k) THEN Append(t[k - 1], E(k)) ELSE t[k - 1]
  <2>1. t[k - 1] \in ArgMaps
    BY <1>1, <1>10
  <2>2. t[k] = WithArg(t[k - 1], args[k])
    BY <1>6, <1>10, <2>1
  <2> QED BY <1>3, <2>2 DEF WithArg
<1>12. t = [i \in 0 .. N |-> IF i = 0 THEN <<>>
                             ELSE IF Named(i) THEN Append(t[i - 1], E(i)) ELSE t[i - 1]]
  <2> DEFINE u == [i \in 0 .. N |-> IF i = 0 THEN <<>>
                             ELSE IF Named(i) THEN Append(t[i - 1], E(i)) ELSE t[i - 1]]
  <2>1. ASSUME NEW i \in 0 .. N PROVE u[i] = t[i]
    <3>1. CASE i = 0
      BY <1>1, <1>10, <3>1
    <3>2. CASE i # 0
      <4>1. i \in 1 .. N
        BY <1>1, <3>2
      <4> QED BY <1>11, <3>2, <4>1
    <3> QED BY <3>1, <3>2
  <2>2. DOMAIN u = 0 .. N /\ DOMAIN t = 0 .. N
    BY <1>10
  <2>3. u = [i \in DOMAIN u |-> u[i]] /\ t = [i \in DOMAIN t |-> t[i]]
    BY <1>10
  <2> HIDE DEF u
  <2>4. t = u
    BY <2>1, <2>2, <2>3
  <2> QED BY <2>4 DEF u
<1>13. Is(t)
  BY <1>1, <1>12
<1>14. Is(c)
  BY <1>13
<1> HIDE DEF c
<1>15. /\ c[0] = <<>>
       /\ \A k \in 1 .. N : c[k] = IF Named(k) THEN Append(c[k - 1], E(k)) ELSE c[k - 1]
  <2>1. c = [i \in 0 .. N |-> IF i = 0 THEN <<>>
                              ELSE IF Named(i) THEN Append(c[i - 1], E(i)) ELSE c[i - 1]]
    BY <1>1, <1>14
  <2>2. c[0] = <<>>
    BY <2>1, <1>1
  <2>3. ASSUME NEW k \in 1 .. N
        PROVE  c[k] = IF Named(k) THEN Append(c[k - 1], E(k)) ELSE c[k - 1]
    <3>1. k \in 0 .. N /\ k # 0
      BY <1>1
    <3> QED BY <2>1, <3>1
  <2> QED BY <2>2, <2>3
<1>16. \A k \in 1 .. N : c[k] = WithArg(c[k - 1], args[k])
  BY <1>3, <1>15 DEF WithArg
<1>17. c[0] \in ArgMaps /\ \A k \in 1 .. N : c[k - 1] \in ArgMaps => c[k] \in ArgMaps
  BY <1>5, <1>8, <1>15, <1>16
<1>18. \A k \in 0 .. N : c[k] \in ArgMaps
  BY <1>1, <1>17, RecursionType
<1> QED BY <1>4, <1>15, <1>16, <1>18 DEF N

(* The first argument of a name is the first entry of that name.           *)
Unnamed(map, args, n, name) ==
    /\ \A j \in 1 .. n : args[j].name # name
    /\ \A k \in DOMAIN map : map[k].name # name
FirstNamed(map, args, n, name, j, k) ==
    /\ j \in 1 .. n /\ args[j].name = name /\ \A i \in 1 .. j - 1 : args[i].name # name
    /\ k \in DOMAIN map /\ map[k] = Entry(args[j]) /\ \A i \in 1 .. k - 1 : map[i].name # name
Collected(map, args, n) ==
    /\ Len(map) <= n
    /\ \A name : name # <<>> =>
          \/ Unnamed(map, args, n, name)
          \/ \E j \in 1 .. n, k \in DOMAIN map : FirstNamed(map, args, n, name, j, k)

(* One more argument is entered under its name, if that is new.            *)
LEMMA OneMoreArg ==
    ASSUME NEW args \in Seq(Arguments), NEW n \in Nat, n + 1 <= Len(args),
           NEW map \in ArgMaps, Collected(map, args, n)
    PROVE  Collected(WithArg(map, args[n + 1]), args, n + 1)
<1> DEFINE a == args[n + 1]
           new == WithArg(map, a)
           L == Len(map)
<1>1. a \in Arguments /\ L \in Nat /\ L <= n /\ DOMAIN map = 1 .. L
  BY DEF Collected, ArgMaps
<1>2. Entry(a) \in Entries /\ Entry(a).name = a.name
  BY <1>1 DEF Entries, Entry
<1>3. a.name # <<>> =>
         /\ Len(new) = L + 1 /\ DOMAIN new = 1 .. L + 1 /\ new[L + 1] = Entry(a)
         /\ \A k \in 1 .. L : new[k] = map[k]
  <2> SUFFICES ASSUME a.name # <<>>
               PROVE  /\ Len(new) = L + 1 /\ DOMAIN new = 1 .. L + 1 /\ new[L + 1] = Entry(a)
                      /\ \A k \in 1 .. L : new[k] = map[k]
    OBVIOUS
  <2>1. new = Append(map, Entry(a))
    BY DEF WithArg
  <2> HIDE DEF a, new
  <2>2. map \in Seq(Entries)
    BY DEF ArgMaps
  <2> HIDE DEF Entries
  <2>3. Append(map, Entry(a)) \in Seq(Entries)
    BY <1>2, <2>2, AppendProperties
  <2>4. /\ Len(Append(map, Entry(a))) = L + 1
        /\ \A k \in 1 .. L : Append(map, Entry(a))[k] = map[k]
        /\ Append(map, Entry(a))[L + 1] = Entry(a)
    BY <1>2, <2>2, AppendProperties
  <2> QED BY <2>1, <2>3, <2>4
<1>4. a.name = <<>> => new = map
  BY DEF WithArg
<1>5. \A j \in 1 .. n + 1 : j \in 1 .. n \/ j = n + 1
  OBVIOUS
<1>6. a = args[n + 1]
  OBVIOUS
<1> HIDE DEF a, new, L
<1>7. Len(new) <= n + 1
  BY <1>1, <1>3, <1>4 DEF L
<1>8. ASSUME NEW name, name # <<>>, Unnamed(map, args, n, name)
      PROVE  \/ Unnamed(new, args, n + 1, name)
             \/ \E j \in 1 .. n + 1, k \in DOMAIN new : FirstNamed(new, args, n + 1, name, j, k)
  <2>1. /\ \A j \in 1 .. n : args[j].name # name
        /\ \A k \in 1 .. L : map[k].name # name
    BY <1>1, <1>8 DEF Unnamed
  <2>2. CASE a.name = name
    <3> DEFINE j == n + 1
               k == L + 1
    <3>0. a.name # <<>>
      BY <1>8, <2>2
    <3>1. k \in DOMAIN new /\ new[k] = Entry(a) /\ DOMAIN new = 1 .. k
      BY <1>1, <1>3, <3>0
    <3>2. j \in 1 .. n + 1 /\ args[j].name = name /\ args[j] = a
      BY <1>6, <2>2
    <3>3. \A i \in 1 .. j - 1 : args[i].name # name
      BY <2>1
    <3>4. \A i \in 1 .. k - 1 : new[i].name # name
      BY <1>1, <1>3, <2>1, <3>0
    <3> HIDE DEF j, k
    <3>5. FirstNamed(new, args, n + 1, name, j, k)
      BY <3>1, <3>2, <3>3, <3>4 DEF FirstNamed
    <3> QED BY <3>1, <3>2, <3>5
  <2>3. CASE a.name # name
    <3>1. \A j \in 1 .. n + 1 : args[j].name # name
      BY <1>5, <1>6, <2>1, <2>3
    <3>2. \A k \in DOMAIN new : new[k].name # name
      <4>1. CASE a.name = <<>>
        BY <1>1, <1>4, <2>1, <4>1
      <4>2. CASE a.name # <<>>
        <5> TAKE k \in DOMAIN new
        <5>1. k \in 1 .. L \/ k = L + 1
          BY <1>1, <1>3, <4>2
        <5> QED BY <1>2, <1>3, <2>1, <2>3, <4>2, <5>1
      <4> QED BY <4>1, <4>2
    <3> QED BY <3>1, <3>2 DEF Unnamed
  <2> QED BY <2>2, <2>3
<1>9. ASSUME NEW name, NEW j \in 1 .. n, NEW k \in DOMAIN map,
             FirstNamed(map, args, n, name, j, k)
      PROVE  \E m \in 1 .. n + 1, l \in DOMAIN new : FirstNamed(new, args, n + 1, name, m, l)
  <2>1. k \in DOMAIN new /\ new[k] = map[k] /\ \A i \in 1 .. k - 1 : new[i] = map[i]
    <3>1. k \in 1 .. L /\ \A i \in 1 .. k - 1 : i \in 1 .. L
      BY <1>1
    <3>2. CASE a.name = <<>>
      BY <1>4, <3>2
    <3>3. CASE a.name # <<>>
      BY <1>1, <1>3, <3>1, <3>3
    <3> QED BY <3>2, <3>3
  <2>2. j \in 1 .. n + 1
    OBVIOUS
  <2>3. FirstNamed(new, args, n + 1, name, j, k)
    BY <1>9, <2>1, <2>2 DEF FirstNamed
  <2> QED BY <2>1, <2>2, <2>3
<1>10. ASSUME NEW name, name # <<>>
       PROVE  \/ Unnamed(new, args, n + 1, name)
              \/ \E j \in 1 .. n + 1, k \in DOMAIN new : FirstNamed(new, args, n + 1, name, j, k)
  <2>1. \/ Unnamed(map, args, n, name)
        \/ \E j \in 1 .. n, k \in DOMAIN map : FirstNamed(map, args, n, name, j, k)
    BY <1>10 DEF Collected
  <2> QED BY <1>8, <1>9, <1>10, <2>1
<1> QED BY <1>7, <1>10 DEF Collected, new, a

(* The map of the names holds every name once, with its first place.       *)
LEMMA MapIsCollected ==
    ASSUME NEW args \in ArgLists, NEW store, store = ArgStore(args)
    PROVE  InitMap(store) \in ArgMaps /\ Collected(InitMap(store), args, Len(args))
<1> DEFINE N == Len(args)
           m == NamedUpTo(store)
           S == {i \in Nat : i <= N => Collected(m[i], args, i)}
<1>1. args \in Seq(Arguments) /\ N \in Nat /\ EndOf(store) = N
  BY EndIs DEF ArgLists
<1>2. /\ m[0] = <<>>
      /\ \A i \in 1 .. N : m[i] = WithArg(m[i - 1], args[i])
      /\ \A i \in 0 .. N : m[i] \in ArgMaps
  BY NamedUpToIs
<1>3. InitMap(store) = m[N]
  BY <1>1 DEF InitMap
<1> HIDE DEF m
<1>4. 0 \in S
  <2>1. Collected(<<>>, args, 0)
    BY DEF Collected, Unnamed
  <2> QED BY <1>2, <2>1
<1>5. ASSUME NEW i \in Nat, i \in S PROVE i + 1 \in S
  <2> SUFFICES ASSUME i + 1 <= N PROVE Collected(m[i + 1], args, i + 1)
    OBVIOUS
  <2>1. i \in 0 .. N /\ i + 1 \in 1 .. N /\ (i + 1) - 1 = i
    BY <1>1
  <2>2. m[i] \in ArgMaps /\ Collected(m[i], args, i) /\ m[i + 1] = WithArg(m[i], args[i + 1])
    BY <1>2, <1>5, <2>1
  <2> QED BY <1>1, <2>1, <2>2, OneMoreArg
<1>6. Nat \subseteq S
  <2> HIDE DEF S
  <2> QED BY <1>4, <1>5, InductionOnNat
<1>7. Collected(m[N], args, N)
  BY <1>1, <1>6
<1> QED BY <1>1, <1>2, <1>3, <1>7

(* The search of the map finds the first entry of the name.                *)
LEMMA FindsTheFirst ==
    ASSUME NEW args, NEW n, NEW map \in ArgMaps, NEW name, NEW j, NEW k,
           FirstNamed(map, args, n, name, j, k)
    PROVE  FindNamed(map, name) = Plain(args[j])
<1> DEFINE found == {i \in DOMAIN map : map[i].name = name}
           Least(i) == \A l \in found : i <= l
<1>1. /\ k \in DOMAIN map /\ map[k] = Entry(args[j]) /\ \A i \in 1 .. k - 1 : map[i].name # name
      /\ args[j].name = name
  BY DEF FirstNamed
<1>2. Len(map) \in Nat /\ DOMAIN map = 1 .. Len(map)
  BY DEF ArgMaps
<1>3. k \in found
  BY <1>1 DEF Entry
<1>4. \A l \in found : l \in 1 .. Len(map) /\ ~(l \in 1 .. k - 1)
  BY <1>1, <1>2
<1>5. \A l \in found : k <= l
  BY <1>1, <1>2, <1>4
<1>6. \A i \in found : Least(i) => i = k
  BY <1>1, <1>2, <1>3, <1>5
<1>7. found # {} /\ FindNamed(map, name) = map[CHOOSE i \in found : Least(i)].arg
  BY <1>3 DEF FindNamed
<1> HIDE DEF found
<1>8. (CHOOSE i \in found : Least(i)) = k
  BY <1>3, <1>5, <1>6
<1>9. map[k].arg = Plain(args[j])
  BY <1>1 DEF Entry
<1> HIDE DEF Least
<1> QED BY <1>7, <1>8, <1>9

(* What was given.                                                         *)
ArgsInductive == given \in ArgLists

(* Any list of arguments that a call is given is one of these.             *)
THEOREM ArgsInvariant == ArgsSpec => []ArgsInductive
<1>1. ArgsInit => ArgsInductive
  BY ArgsBound DEF ArgsInit, ArgsInductive, ArgLists
<1>2. ArgsInductive /\ [GiveArg]_given => ArgsInductive'
  <2> SUFFICES ASSUME ArgsInductive, GiveArg PROVE ArgsInductive'
    BY DEF ArgsInductive
  <2>1. PICK a \in Arguments : given' = Append(given, a)
    BY DEF GiveArg
  <2>2. given \in Seq(Arguments) /\ Len(given) < MaxArgs /\ MaxArgs \in Nat
    BY ArgsBound DEF ArgsInductive, ArgLists, GiveArg
  <2>3. given' \in Seq(Arguments) /\ Len(given') = Len(given) + 1
    BY <2>1, <2>2, AppendProperties
  <2>4. Len(given') <= MaxArgs
    BY <2>2, <2>3
  <2> QED BY <2>3, <2>4 DEF ArgsInductive, ArgLists
<1> QED BY <1>1, <1>2, PTL DEF ArgsSpec

(* Whatever the arguments and however many, packed into a word or not,     *)
(* get and arg_map::find return what was given.                            *)
THEOREM ArgumentsAreFound == ArgsSpec => []ArgsKeepTheirTypes
<1>1. ArgsInductive => ArgsKeepTheirTypes
  <2> SUFFICES ASSUME ArgsInductive PROVE ArgsKeepTheirTypes
    OBVIOUS
  <2> DEFINE store == ArgStore(given)
             map == InitMap(store)
             names == {given[i].name : i \in DOMAIN given} \ {<<>>}
             Found(name) ==
                 \/ name \notin names /\ FindNamed(map, name) = NoArg
                 \/ \E i \in DOMAIN given :
                       /\ given[i].name = name
                       /\ \A j \in 1 .. i - 1 : given[j].name # name
                       /\ FindNamed(map, name) = Plain(given[i])
  <2>1. given \in ArgLists
    BY DEF ArgsInductive
  <2>2. given \in Seq(Arguments) /\ Len(given) \in Nat /\ DOMAIN given = 1 .. Len(given)
    BY <2>1 DEF ArgLists
  <2>3. map \in ArgMaps /\ Collected(map, given, Len(given))
    BY <2>1, MapIsCollected
  <2>4. \A index \in Nat :
           Get(store, index) = IF index < Len(given) THEN Plain(given[index + 1]) ELSE NoArg
    BY <2>1, FoundByIndex
  <2>5. Len(map) <= MaxSize(store)
    <3>1. Len(given) <= MaxSize(store)
      BY <2>1, StoreIs
    <3>2. Len(map) <= Len(given) /\ Len(map) \in Nat
      BY <2>3 DEF Collected, ArgMaps
    <3>3. MaxSize(store) \in Int
      <4>1. TypeWord \in Nat
        BY MaxPackedAssumption, SixteenToIs DEF TypeWord
      <4>2. CASE Len(given) < MaxPacked
        BY <2>2, <4>2, PackedStore, MaxPackedAssumption DEF MaxSize
      <4>3. CASE ~(Len(given) < MaxPacked)
        <5>1. Len(given) <= MaxArgs
          BY <2>1 DEF ArgLists
        <5>2. Negative(store) /\ TypeWord - store.types = Len(given)
          BY <2>2, <4>3, <5>1, LongStore
        <5> QED BY <2>2, <5>2 DEF MaxSize
      <4> QED BY <4>2, <4>3
    <3> HIDE DEF map, store
    <3> QED BY <2>2, <3>1, <3>2, <3>3
  <2>6. ASSUME NEW name, name # <<>> PROVE Found(name)
    <3> HIDE DEF map
    <3>1. CASE Unnamed(map, given, Len(given), name)
      <4>1. {i \in DOMAIN map : map[i].name = name} = {}
        BY <3>1 DEF Unnamed
      <4>2. name \notin names
        BY <2>2, <3>1 DEF Unnamed
      <4> QED BY <4>1, <4>2 DEF FindNamed
    <3>2. CASE \E j \in 1 .. Len(given), k \in DOMAIN map :
                  FirstNamed(map, given, Len(given), name, j, k)
      <4>1. PICK j \in 1 .. Len(given), k \in DOMAIN map :
                FirstNamed(map, given, Len(given), name, j, k)
        BY <3>2
      <4>2. FindNamed(map, name) = Plain(given[j])
        BY <2>3, <4>1, FindsTheFirst
      <4>3. j \in DOMAIN given /\ given[j].name = name
            /\ \A i \in 1 .. j - 1 : given[i].name # name
        BY <2>2, <4>1 DEF FirstNamed
      <4> QED BY <4>2, <4>3
    <3> QED BY <2>3, <2>6, <3>1, <3>2 DEF Collected
  <2>7. \A name \in names \cup {<<"s">>} : Found(name)
    <3>1. <<"s">> # <<>>
      OBVIOUS
    <3> HIDE DEF Found
    <3> QED BY <2>6, <3>1
  <2>8. \A index \in 0 .. 2 * MaxPacked :
           Get(store, index) = IF index < Len(given) THEN Plain(given[index + 1]) ELSE NoArg
    BY <2>4
  <2> HIDE DEF map
  <2> QED BY <2>5, <2>7, <2>8 DEF ArgsKeepTheirTypes, Plain, map
<1> QED BY <1>1, ArgsInvariant, PTL

------------------------------------------------------------------------------
(* The limits of the buckets                                               *)

(* The digits of the numbers up to n.                                      *)
DigitsUpTo(f, n) ==
    /\ f \in [0 .. n -> Nat]
    /\ \A k \in 0 .. n : f[k] = IF k \div 10 > 10 THEN 10 * f[k \div 10] ELSE k

(* Division by ten, as TwoDigits uses it.                                  *)
LEMMA Tenth ==
    ASSUME NEW k \in Nat
    PROVE  k \div 10 \in Nat /\ k \div 10 <= k /\ (k > 0 => k \div 10 < k)
           /\ 10 * (k \div 10) <= k /\ k < 10 * (k \div 10) + 10
  OBVIOUS

(* TwoDigits is defined by recursion on what is left of a number: there is *)
(* such a function up to every number,                                     *)
LEMMA DigitsExist == \A n \in Nat : \E f : DigitsUpTo(f, n)
<1> DEFINE S == {n \in Nat : \E f : DigitsUpTo(f, n)}
<1>1. 0 \in S
  <2> DEFINE f == [k \in 0 .. 0 |-> k]
  <2>1. DigitsUpTo(f, 0)
    <3>1. f \in [0 .. 0 -> Nat] /\ \A k \in 0 .. 0 : k = 0 /\ f[k] = 0
      OBVIOUS
    <3> HIDE DEF f
    <3> QED BY <3>1 DEF DigitsUpTo
  <2> QED BY <2>1
<1>2. ASSUME NEW n \in Nat, n \in S PROVE n + 1 \in S
  <2>1. PICK f : DigitsUpTo(f, n)
    BY <1>2
  <2> DEFINE m == n + 1
             y == IF m \div 10 > 10 THEN 10 * f[m \div 10] ELSE m
             g == [k \in 0 .. m |-> IF k = m THEN y ELSE f[k]]
  <2>2. m \in Nat /\ m > n /\ \A k \in 0 .. m : k = m \/ k \in 0 .. n
    OBVIOUS
  <2>3. m \div 10 \in 0 .. n
    <3> HIDE DEF m
    <3>1. m \div 10 \in Nat /\ m \div 10 < m
      BY <2>2, Tenth
    <3> QED BY <3>1 DEF m
  <2>4. y \in Nat
    BY <2>1, <2>2, <2>3 DEF DigitsUpTo
  <2>5. g \in [0 .. m -> Nat] /\ g[m] = y /\ \A k \in 0 .. n : g[k] = f[k]
    <3> HIDE DEF y
    <3>1. \A k \in 0 .. n : f[k] \in Nat /\ k # m /\ k \in 0 .. m
      BY <2>1 DEF DigitsUpTo
    <3>2. m \in 0 .. m
      BY <2>2
    <3> QED BY <2>2, <2>4, <3>1, <3>2
  <2> HIDE DEF g
  <2>6. ASSUME NEW k \in 0 .. m
        PROVE  g[k] = IF k \div 10 > 10 THEN 10 * g[k \div 10] ELSE k
    <3>1. CASE k = m
      BY <2>3, <2>5, <3>1
    <3>2. CASE k # m
      <4>1. k \in 0 .. n
        BY <2>2, <3>2
      <4>2. k \div 10 \in 0 .. n
        BY <4>1, Tenth
      <4>3. f[k] = IF k \div 10 > 10 THEN 10 * f[k \div 10] ELSE k
        BY <2>1, <4>1 DEF DigitsUpTo
      <4> QED BY <2>5, <4>1, <4>2, <4>3
    <3> QED BY <3>1, <3>2
  <2>7. DigitsUpTo(g, m)
    BY <2>5, <2>6 DEF DigitsUpTo
  <2> QED BY <2>2, <2>7
<1>3. Nat \subseteq S
  <2> HIDE DEF S
  <2> QED BY <1>1, <1>2, InductionOnNat
<1> QED BY <1>3

(* and any two agree where both are defined.                               *)
LEMMA DigitsAgree ==
    ASSUME NEW n \in Nat, NEW m \in Nat, NEW f, NEW g,
           DigitsUpTo(f, n), DigitsUpTo(g, m), NEW k \in Nat, k <= n, k <= m
    PROVE  f[k] = g[k]
<1> DEFINE S == {i \in Nat : \A j \in 0 .. i : j <= n /\ j <= m => f[j] = g[j]}
<1>1. 0 \in S
  <2>1. 0 \in 0 .. n /\ 0 \in 0 .. m /\ ~(0 \div 10 > 10)
    OBVIOUS
  <2>2. f[0] = 0 /\ g[0] = 0
    BY <2>1 DEF DigitsUpTo
  <2>3. \A j \in 0 .. 0 : f[j] = g[j]
    BY <2>2
  <2> QED BY <2>3
<1>2. ASSUME NEW i \in Nat, i \in S PROVE i + 1 \in S
  <2>1. ASSUME NEW j \in 0 .. i + 1, j <= n, j <= m PROVE f[j] = g[j]
    <3>1. CASE j \in 0 .. i
      BY <1>2, <2>1, <3>1
    <3>2. CASE j = i + 1
      <4>1. j \in 0 .. n /\ j \in 0 .. m /\ j \in Nat
        BY <2>1
      <4>2. j \div 10 \in 0 .. i /\ j \div 10 <= n /\ j \div 10 <= m
        <5>1. j > 0
          BY <3>2
        <5>2. j \div 10 \in Nat /\ j \div 10 < j
          BY <4>1, <5>1, Tenth
        <5> QED BY <2>1, <3>2, <5>2
      <4>3. f[j \div 10] = g[j \div 10]
        BY <1>2, <4>2
      <4>4. /\ f[j] = IF j \div 10 > 10 THEN 10 * f[j \div 10] ELSE j
            /\ g[j] = IF j \div 10 > 10 THEN 10 * g[j \div 10] ELSE j
        BY <4>1 DEF DigitsUpTo
      <4> QED BY <4>3, <4>4
    <3> QED BY <3>1, <3>2
  <2> QED BY <2>1
<1>3. Nat \subseteq S
  <2> HIDE DEF S
  <2> QED BY <1>1, <1>2, InductionOnNat
<1> QED BY <1>3

(* What the loop that drops digits and counts them computes.               *)
LEMMA TwoDigitsIs ==
    \A n \in Nat :
        /\ TwoDigits[n] = IF n \div 10 > 10 THEN 10 * TwoDigits[n \div 10] ELSE n
        /\ TwoDigits[n] \in Nat
<1> DEFINE upto(n) == CHOOSE f : DigitsUpTo(f, n)
           t == [n \in Nat |-> upto(n)[n]]
           Is(u) == u = [n \in Nat |-> IF n \div 10 > 10 THEN 10 * u[n \div 10] ELSE n]
           c == CHOOSE u : Is(u)
<1>1. TwoDigits = c
  BY DEF TwoDigits
<1>2. \A n \in Nat : DigitsUpTo(upto(n), n)
  BY DigitsExist
<1> HIDE DEF upto
<1>3. \A n \in Nat : t[n] = upto(n)[n]
  OBVIOUS
<1>4. ASSUME NEW n \in Nat PROVE t[n] = IF n \div 10 > 10 THEN 10 * t[n \div 10] ELSE n
  <2>1. n \div 10 \in Nat /\ n \div 10 <= n /\ n \in 0 .. n /\ n \div 10 <= n \div 10
    BY Tenth
  <2>2. upto(n)[n] = IF n \div 10 > 10 THEN 10 * upto(n)[n \div 10] ELSE n
    BY <1>2, <2>1 DEF DigitsUpTo
  <2> DEFINE k == n \div 10
  <2>3. k \in Nat /\ k <= n
    BY <2>1
  <2>4. DigitsUpTo(upto(n), n) /\ DigitsUpTo(upto(k), k)
    BY <1>2, <2>3
  <2> HIDE DEF k, t
  <2>5. upto(n)[k] = upto(k)[k]
    BY <2>3, <2>4, DigitsAgree
  <2> QED BY <1>3, <2>2, <2>3, <2>5 DEF k
<1> HIDE DEF t
<1>5. t = [n \in Nat |-> IF n \div 10 > 10 THEN 10 * t[n \div 10] ELSE n]
  <2> DEFINE u == [n \in Nat |-> IF n \div 10 > 10 THEN 10 * t[n \div 10] ELSE n]
  <2>1. \A n \in Nat : u[n] = t[n]
    BY <1>4
  <2>2. DOMAIN u = Nat /\ u = [n \in DOMAIN u |-> u[n]]
    OBVIOUS
  <2>3. DOMAIN t = Nat /\ t = [n \in DOMAIN t |-> t[n]]
    BY DEF t
  <2> HIDE DEF u
  <2>4. t = u
    BY <2>1, <2>2, <2>3
  <2> QED BY <2>4 DEF u
<1>6. Is(c)
  BY <1>5
<1> HIDE DEF c
<1>7. \A n \in Nat : c[n] = IF n \div 10 > 10 THEN 10 * c[n \div 10] ELSE n
  BY <1>6
<1> DEFINE S == {i \in Nat : \A j \in 0 .. i : c[j] \in Nat}
<1>8. 0 \in S
  <2>1. ~(0 \div 10 > 10) /\ \A j \in 0 .. 0 : j = 0
    OBVIOUS
  <2>2. c[0] = 0
    BY <1>7, <2>1
  <2> QED BY <2>1, <2>2
<1>9. ASSUME NEW i \in Nat, i \in S PROVE i + 1 \in S
  <2>1. ASSUME NEW j \in 0 .. i + 1 PROVE c[j] \in Nat
    <3>1. CASE j \in 0 .. i
      BY <1>9, <3>1
    <3>2. CASE j = i + 1
      <4>1. j \in Nat /\ j > 0
        BY <3>2
      <4>2. j \div 10 \in Nat /\ j \div 10 < j
        BY <4>1, Tenth
      <4>3. j \div 10 \in 0 .. i
        BY <3>2, <4>2
      <4>4. c[j \div 10] \in Nat
        BY <1>9, <4>3
      <4> QED BY <1>7, <4>1, <4>4
    <3> QED BY <3>1, <3>2
  <2> QED BY <2>1
<1>10. Nat \subseteq S
  <2> HIDE DEF S
  <2> QED BY <1>8, <1>9, InductionOnNat
<1>11. \A n \in Nat : c[n] \in Nat
  BY <1>10
<1> QED BY <1>1, <1>7, <1>11

(* Numbers below 110 are left alone, the others lose a digit.              *)
LEMMA DigitsOf ==
    ASSUME NEW n \in Nat
    PROVE  /\ n <= 109 => TwoDigits[n] = n
           /\ n >= 110 => /\ TwoDigits[n] = 10 * TwoDigits[n \div 10]
                          /\ n \div 10 >= 11
<1>1. n \div 10 \in Nat /\ 10 * (n \div 10) <= n /\ n < 10 * (n \div 10) + 10
  BY Tenth
<1>2. n <= 109 => ~(n \div 10 > 10)
  BY <1>1
<1>3. n >= 110 => n \div 10 > 10 /\ n \div 10 >= 11
  BY <1>1
<1> QED BY <1>2, <1>3, TwoDigitsIs

(* Dropping digits keeps the order.                                        *)
LEMMA DigitsKeepOrder ==
    ASSUME NEW m \in Nat, NEW n \in Nat, n <= m
    PROVE  TwoDigits[n] <= TwoDigits[m]
<1> DEFINE S == {k \in Nat : \A i \in 0 .. k : \A j \in 0 .. i : TwoDigits[j] <= TwoDigits[i]}
<1>1. 0 \in S
  BY TwoDigitsIs
<1>2. ASSUME NEW k \in Nat, k \in S PROVE k + 1 \in S
  <2>1. ASSUME NEW i \in 0 .. k + 1, NEW j \in 0 .. i PROVE TwoDigits[j] <= TwoDigits[i]
    <3>1. CASE i \in 0 .. k
      BY <1>2, <3>1
    <3>2. CASE i = k + 1 /\ i <= 109
      <4>1. TwoDigits[i] = i /\ TwoDigits[j] = j
        BY <3>2, DigitsOf
      <4> QED BY <4>1
    <3>3. CASE i = k + 1 /\ i >= 110
      <4> DEFINE a == i \div 10
                 b == j \div 10
      <4>0. i \in Nat /\ j \in Nat /\ i > 0
        BY <3>3
      <4>1. /\ TwoDigits[i] = 10 * TwoDigits[a] /\ a >= 11 /\ a \in Nat /\ a < i
            /\ 10 * a <= i /\ i < 10 * a + 10
        BY <3>3, <4>0, DigitsOf, Tenth
      <4>2. a \in 0 .. k
        BY <3>3, <4>1
      <4>3. TwoDigits[a] \in Nat /\ TwoDigits[j] \in Nat
        BY <4>0, <4>1, TwoDigitsIs
      <4>4. CASE j <= 109
        <5>1. TwoDigits[j] = j /\ TwoDigits[11] = 11
          BY <4>4, DigitsOf
        <5>2. TwoDigits[11] <= TwoDigits[a]
          BY <1>2, <4>1, <4>2
        <5> QED BY <4>1, <4>3, <4>4, <5>1, <5>2
      <4>5. CASE j >= 110
        <5>1. /\ TwoDigits[j] = 10 * TwoDigits[b] /\ b \in Nat
              /\ 10 * b <= j /\ j < 10 * b + 10
          BY <4>0, <4>5, DigitsOf, Tenth
        <5>2. TwoDigits[b] \in Nat
          BY <5>1, TwoDigitsIs
        <5>3. b <= a
          <6> HIDE DEF a, b
          <6> QED BY <4>0, <4>1, <5>1
        <5>4. TwoDigits[b] <= TwoDigits[a]
          <6>1. b \in 0 .. a
            BY <4>1, <5>1, <5>3
          <6> HIDE DEF a, b
          <6> QED BY <1>2, <4>2, <6>1
        <5> QED BY <4>1, <4>3, <5>1, <5>2, <5>4
      <4>6. j <= 109 \/ j >= 110
        BY <4>0
      <4> QED BY <4>4, <4>5, <4>6
    <3>4. (i \in 0 .. k) \/ (i = k + 1 /\ i <= 109) \/ (i = k + 1 /\ i >= 110)
      OBVIOUS
    <3> QED BY <3>1, <3>2, <3>3, <3>4
  <2> QED BY <2>1
<1>3. Nat \subseteq S
  <2> HIDE DEF S
  <2> QED BY <1>1, <1>2, InductionOnNat
<1> QED BY <1>3

(* Half as much again is more, with two digits kept of both.               *)
LEMMA DigitsGrow ==
    ASSUME NEW n \in Nat, n >= 2
    PROVE  TwoDigits[n] < TwoDigits[n + n \div 2]
<1> DEFINE S == {k \in Nat : \A i \in 2 .. k : TwoDigits[i] < TwoDigits[i + i \div 2]}
<1>1. 0 \in S
  OBVIOUS
<1>2. ASSUME NEW k \in Nat, k \in S PROVE k + 1 \in S
  <2>1. ASSUME NEW i \in 2 .. k + 1 PROVE TwoDigits[i] < TwoDigits[i + i \div 2]
    <3> DEFINE m == i + i \div 2
               a == i \div 10
               b == m \div 10
    <3>0. /\ i \in Nat /\ i > 0 /\ m \in Nat /\ 2 * m + 1 >= 3 * i /\ 2 * m <= 3 * i /\ m > i
      OBVIOUS
    <3> HIDE DEF m
    <3>1. /\ a \in Nat /\ a < i /\ 10 * a <= i /\ i < 10 * a + 10
          /\ b \in Nat /\ 10 * b <= m /\ m < 10 * b + 10
      BY <3>0, Tenth
    <3>2. CASE i \in 2 .. k
      BY <1>2, <3>2 DEF m
    <3>3. CASE i = k + 1 /\ m <= 109
      <4>1. TwoDigits[i] = i /\ TwoDigits[m] = m
        BY <3>0, <3>3, DigitsOf
      <4> QED BY <3>0, <4>1 DEF m
    <3>4. CASE i = k + 1 /\ m >= 110 /\ i <= 109
      <4>1. TwoDigits[i] = i /\ TwoDigits[m] = 10 * TwoDigits[b]
        BY <3>0, <3>4, DigitsOf
      <4>2. b <= 109
        BY <3>0, <3>1, <3>4
      <4>3. TwoDigits[b] = b
        BY <3>1, <4>2, DigitsOf
      <4>4. 10 * b > i
        BY <3>0, <3>1, <3>4
      <4> HIDE DEF a, b
      <4>5. TwoDigits[i] < TwoDigits[m]
        BY <4>1, <4>3, <4>4
      <4> QED BY <4>5 DEF m
    <3>5. CASE i = k + 1 /\ m >= 110 /\ i >= 110
      <4>1. /\ TwoDigits[i] = 10 * TwoDigits[a] /\ a >= 11
            /\ TwoDigits[m] = 10 * TwoDigits[b]
        BY <3>0, <3>5, DigitsOf
      <4> DEFINE c == a + a \div 2
      <4>2. c \in Nat /\ 2 * c <= 3 * a
        BY <3>1
      <4>3. a \in 2 .. k
        BY <3>1, <3>5, <4>1
      <4>4. TwoDigits[a] < TwoDigits[c]
        BY <1>2, <4>3
      <4> HIDE DEF a, b, c
      <4>5. c <= b
        BY <3>0, <3>1, <4>2
      <4>6. TwoDigits[c] <= TwoDigits[b]
        BY <3>1, <4>2, <4>5, DigitsKeepOrder
      <4>7. TwoDigits[a] \in Nat /\ TwoDigits[b] \in Nat /\ TwoDigits[c] \in Nat
        BY <3>1, <4>2, TwoDigitsIs
      <4>8. TwoDigits[i] < TwoDigits[m]
        BY <4>1, <4>4, <4>6, <4>7
      <4> QED BY <4>8 DEF m
    <3>6. \/ i \in 2 .. k
          \/ i = k + 1 /\ m <= 109
          \/ i = k + 1 /\ m >= 110 /\ i <= 109
          \/ i = k + 1 /\ m >= 110 /\ i >= 110
      BY <3>0
    <3> QED BY <3>2, <3>3, <3>4, <3>5, <3>6
  <2> QED BY <2>1
<1>3. Nat \subseteq S
  <2> HIDE DEF S
  <2> QED BY <1>1, <1>2, InductionOnNat
<1> QED BY <1>3

(* Rounding down half as much again.                                       *)
LEMMA HalfAgain ==
    ASSUME NEW x \in Nat, NEW y \in Nat, y > 0
    PROVE  x \div y + (x \div y) \div 2 <= (3 * x) \div (2 * y)
<1> DEFINE q == x \div y
           r == x % y
           a == q \div 2
           e == q % 2
           n == 2 * y
           w == 3 * x
           d == w \div n
           f == w % n
<1>1. q \in Nat /\ r \in Nat /\ x = y * q + r
  BY DivisionIs
<1>2. a \in Nat /\ (e = 0 \/ e = 1) /\ q = 2 * a + e
  <2> HIDE DEF q
  <2> QED BY <1>1
<1>3. n \in Nat /\ n > 0 /\ w \in Nat
  OBVIOUS
<1>4. d \in Nat /\ f \in Nat /\ f < n /\ w = n * d + f
  <2> HIDE DEF n, w
  <2> QED BY <1>3, DivisionIs
<1>5. n * (3 * a + e) <= w
  <2> HIDE DEF q, r, a, e
  <2>1. y * (2 * a + e) = 2 * (y * a) + y * e
    BY <1>1, <1>2
  <2>2. (2 * y) * (3 * a + e) = 6 * (y * a) + 2 * (y * e)
    BY <1>1, <1>2
  <2>3. y * e \in Nat /\ y * a \in Nat
    BY <1>2
  <2> QED BY <1>1, <1>2, <2>1, <2>2, <2>3
<1> HIDE DEF q, r, a, e, d, f, n, w
<1> DEFINE g == 3 * a + e
<1>6. g \in Nat
  BY <1>2
<1>7. g <= d
  <2> SUFFICES ASSUME g >= d + 1 PROVE FALSE
    BY <1>4, <1>6
  <2> HIDE DEF g
  <2>1. n * g >= n * (d + 1)
    BY <1>3, <1>4, <1>6
  <2>2. n * (d + 1) = n * d + n
    BY <1>3, <1>4
  <2>3. n * g <= w
    BY <1>5 DEF g
  <2>4. n * g \in Nat /\ n * d \in Nat
    BY <1>3, <1>4, <1>6
  <2> QED BY <1>3, <1>4, <2>1, <2>2, <2>3, <2>4
<1>8. q + a = g
  BY <1>2
<1>9. q + a <= d
  BY <1>7, <1>8
<1> QED BY <1>9 DEF q, a, d, n, w

------------------------------------------------------------------------------
(* The limits of the buckets grow from one to the next,                    *)
LEMMA LimitsAre ==
    /\ \A b \in Buckets : BucketLimit(b) \in Nat /\ BucketLimit(b) > 0
    /\ \A b \in Buckets : b + 1 \in Buckets => BucketLimit(b) < BucketLimit(b + 1)
<1> DEFINE N == NumBuckets
           E(b) == ThreeTo[b - 1] \div TwoTo[b - 2]
<1>1. N \in Nat /\ N > 1
  BY HistogramParameters
<1>2. /\ ThreeTo[0] = 1 /\ TwoTo[0] = 1
      /\ \A n \in 1 .. N : ThreeTo[n] = 3 * ThreeTo[n - 1] /\ TwoTo[n] = 2 * TwoTo[n - 1]
      /\ \A n \in 0 .. N : ThreeTo[n] \in Nat \ {0} /\ TwoTo[n] \in Nat \ {0}
  <2> HIDE DEF N
  <2>1. 3 \in Nat \ {0} /\ 2 \in Nat \ {0}
    OBVIOUS
  <2>2. /\ PowersOf(3, N)[0] = 1
        /\ \A n \in 1 .. N : PowersOf(3, N)[n] = 3 * PowersOf(3, N)[n - 1]
        /\ \A n \in 0 .. N : PowersOf(3, N)[n] \in Nat \ {0}
    BY <1>1, <2>1, PowersAre
  <2>3. /\ PowersOf(2, N)[0] = 1
        /\ \A n \in 1 .. N : PowersOf(2, N)[n] = 2 * PowersOf(2, N)[n - 1]
        /\ \A n \in 0 .. N : PowersOf(2, N)[n] \in Nat \ {0}
    BY <1>1, <2>1, PowersAre
  <2> QED BY <2>2, <2>3 DEF ThreeTo, TwoTo, N
<1>3. \A b \in Buckets : b \in Nat /\ b <= N /\ (b >= 2 => b - 1 \in 0 .. N /\ b - 2 \in 0 .. N)
  BY <1>1 DEF Buckets
<1>4. BucketLimit(0) = 1 /\ BucketLimit(1) = 2 /\ \A b \in Nat : b >= 2 => BucketLimit(b) = TwoDigits[E(b)]
  BY DEF BucketLimit
<1>5. \A b \in Buckets : b >= 2 => E(b) \in Nat
  <2> TAKE b \in Buckets
  <2> HAVE b >= 2
  <2> DEFINE x == ThreeTo[b - 1]
             y == TwoTo[b - 2]
  <2>1. x \in Nat /\ y \in Nat /\ y > 0
    BY <1>2, <1>3
  <2> HIDE DEF x, y
  <2>2. x \div y \in Nat
    BY <2>1, DivisionIs
  <2> QED BY <2>2 DEF x, y
<1>6. 2 \in Buckets => E(2) = 3
  <2> SUFFICES ASSUME 2 \in Buckets PROVE E(2) = 3
    OBVIOUS
  <2>1. 1 \in 1 .. N
    BY <1>1
  <2>2. ThreeTo[2 - 1] = 3 /\ TwoTo[2 - 2] = 1
    BY <1>2, <2>1
  <2>3. 3 \div 1 = 3
    OBVIOUS
  <2> QED BY <2>2, <2>3
<1>7. ASSUME NEW b \in Buckets, b >= 2, b + 1 \in Buckets
      PROVE  E(b) + E(b) \div 2 <= E(b + 1)
  <2> DEFINE x == ThreeTo[b - 1]
             y == TwoTo[b - 2]
  <2>1. x \in Nat /\ y \in Nat /\ y > 0
    BY <1>2, <1>3, <1>7
  <2>2. b \in 1 .. N /\ b - 1 \in 1 .. N /\ (b + 1) - 1 = b /\ (b + 1) - 2 = b - 1
        /\ (b - 1) - 1 = b - 2
    BY <1>1, <1>3, <1>7
  <2>3. ThreeTo[b] = 3 * x /\ TwoTo[b - 1] = 2 * y
    BY <1>2, <2>2
  <2>4. E(b + 1) = (3 * x) \div (2 * y)
    BY <2>2, <2>3
  <2>5. E(b) = x \div y
    OBVIOUS
  <2> HIDE DEF x, y, E
  <2> QED BY <2>1, <2>4, <2>5, HalfAgain
<1> HIDE DEF E
<1> DEFINE S == {b \in Nat : b \in Buckets /\ b >= 2 => E(b) >= 2}
<1>8. 0 \in S
  OBVIOUS
<1>9. ASSUME NEW b \in Nat, b \in S PROVE b + 1 \in S
  <2> SUFFICES ASSUME b + 1 \in Buckets, b + 1 >= 2 PROVE E(b + 1) >= 2
    OBVIOUS
  <2>1. CASE b = 1
    BY <1>6, <2>1
  <2>2. CASE b >= 2
    <3>1. b \in Buckets
      BY <1>1 DEF Buckets
    <3>2. E(b) >= 2 /\ E(b) + E(b) \div 2 <= E(b + 1) /\ E(b) \in Nat /\ E(b + 1) \in Nat
      BY <1>5, <1>7, <1>9, <2>2, <3>1
    <3> QED BY <3>2
  <2>3. b = 1 \/ b >= 2
    OBVIOUS
  <2> QED BY <2>1, <2>2, <2>3
<1>10. Nat \subseteq S
  <2> HIDE DEF S
  <2> QED BY <1>8, <1>9, InductionOnNat
<1>11. \A b \in Buckets : b >= 2 => E(b) \in Nat /\ E(b) >= 2
  BY <1>3, <1>5, <1>10
<1>12. ASSUME NEW b \in Buckets PROVE BucketLimit(b) \in Nat /\ BucketLimit(b) > 0
  <2>1. b \in Nat /\ (b = 0 \/ b = 1 \/ b >= 2)
    BY <1>3
  <2>2. CASE b >= 2
    <3>1. BucketLimit(b) = TwoDigits[E(b)] /\ E(b) \in Nat /\ E(b) >= 2
      BY <1>4, <1>11, <2>1, <2>2
    <3>2. TwoDigits[2] = 2 /\ TwoDigits[2] <= TwoDigits[E(b)] /\ TwoDigits[E(b)] \in Nat
      BY <3>1, DigitsOf, DigitsKeepOrder, TwoDigitsIs
    <3> QED BY <3>1, <3>2
  <2> QED BY <1>4, <2>1, <2>2
<1>13. ASSUME NEW b \in Buckets, b + 1 \in Buckets PROVE BucketLimit(b) < BucketLimit(b + 1)
  <2>1. b \in Nat /\ (b = 0 \/ b = 1 \/ b >= 2)
    BY <1>3
  <2>2. CASE b >= 2
    <3> DEFINE p == E(b) + E(b) \div 2
               q == E(b + 1)
    <3>1. E(b) \in Nat /\ E(b) >= 2 /\ q \in Nat
      BY <1>11, <1>13, <2>1, <2>2
    <3>2. TwoDigits[E(b)] < TwoDigits[p] /\ p \in Nat
      BY <3>1, DigitsGrow
    <3>3. p <= q
      BY <1>7, <1>13, <2>2
    <3>4. BucketLimit(b) = TwoDigits[E(b)] /\ BucketLimit(b + 1) = TwoDigits[q]
      BY <1>4, <2>1, <2>2
    <3> HIDE DEF p, q
    <3>5. TwoDigits[p] <= TwoDigits[q]
      BY <3>1, <3>2, <3>3, DigitsKeepOrder
    <3>6. TwoDigits[p] \in Nat /\ TwoDigits[q] \in Nat /\ TwoDigits[E(b)] \in Nat
      BY <3>1, <3>2, TwoDigitsIs
    <3> QED BY <3>2, <3>4, <3>5, <3>6
  <2>3. CASE b = 1
    <3>1. BucketLimit(2) = TwoDigits[3] /\ TwoDigits[3] = 3
      BY <1>4, <1>6, <1>13, <2>3, DigitsOf
    <3> QED BY <1>4, <2>3, <3>1
  <2>4. CASE b = 0
    BY <1>4, <2>4
  <2> QED BY <2>1, <2>2, <2>3, <2>4
<1> QED BY <1>12, <1>13

(* and so from any to any later one.                                       *)
LEMMA LimitsGrow ==
    ASSUME NEW i \in Buckets, NEW j \in Buckets, i < j
    PROVE  BucketLimit(i) < BucketLimit(j)
<1> DEFINE S == {k \in Nat : k \in Buckets /\ i < k => BucketLimit(i) < BucketLimit(k)}
<1>0. NumBuckets \in Nat /\ i \in Nat /\ j \in Nat
  BY HistogramParameters DEF Buckets
<1>1. 0 \in S
  BY <1>0
<1>2. ASSUME NEW k \in Nat, k \in S PROVE k + 1 \in S
  <2> SUFFICES ASSUME k + 1 \in Buckets, i < k + 1 PROVE BucketLimit(i) < BucketLimit(k + 1)
    OBVIOUS
  <2>1. k \in Buckets
    BY <1>0 DEF Buckets
  <2>2. BucketLimit(k) < BucketLimit(k + 1)
    BY <2>1, LimitsAre
  <2>3. CASE i = k
    BY <2>2, <2>3
  <2>4. CASE i # k
    <3>1. BucketLimit(i) < BucketLimit(k)
      BY <1>0, <1>2, <2>1, <2>4
    <3>2. BucketLimit(i) \in Nat /\ BucketLimit(k) \in Nat /\ BucketLimit(k + 1) \in Nat
      BY <2>1, LimitsAre
    <3> QED BY <2>2, <3>1, <3>2
  <2> QED BY <2>3, <2>4
<1>3. Nat \subseteq S
  <2> HIDE DEF S
  <2> QED BY <1>1, <1>2, InductionOnNat
<1> QED BY <1>0, <1>3

(* The bucket of a value is the only one it belongs to.                    *)
LEMMA IndexIs ==
    ASSUME NEW v \in Nat
    PROVE  /\ IndexForValue(v) \in Buckets
           /\ \A b \in Buckets : Belongs(v, b) <=> b = IndexForValue(v)
<1>1. /\ NumBuckets \in Nat /\ NumBuckets > 1 /\ LastBucket = NumBuckets - 1
      /\ Buckets = 0 .. LastBucket /\ LastBucket \in Buckets /\ 0 \in Buckets
      /\ LastBucket \in Nat
  BY HistogramParameters DEF Buckets, LastBucket
<1>2. \A b \in Buckets : BucketLimit(b) \in Nat /\ BucketLimit(b) > 0
  BY LimitsAre
<1>3. ASSUME NEW c \in Buckets, Belongs(v, c), NEW b \in Buckets, Belongs(v, b)
      PROVE  b = c
  <2>1. ASSUME NEW i \in Buckets, NEW j \in Buckets, i < j, Belongs(v, i), Belongs(v, j)
        PROVE  FALSE
    <3>1. i \in Nat /\ j \in Nat /\ j - 1 \in Buckets /\ i # LastBucket /\ i <= j - 1
      BY <1>1, <2>1
    <3>2. v <= BucketLimit(i) /\ v > BucketLimit(j - 1)
      BY <1>1, <2>1, <3>1 DEF Belongs
    <3>3. BucketLimit(i) <= BucketLimit(j - 1)
      <4>1. CASE i = j - 1
        BY <1>2, <4>1
      <4>2. CASE i < j - 1
        BY <1>2, <3>1, <4>2, LimitsGrow
      <4> QED BY <3>1, <4>1, <4>2
    <3> QED BY <1>2, <3>1, <3>2, <3>3
  <2>2. b \in Int /\ c \in Int
    BY <1>1
  <2>3. ~(b < c) /\ ~(c < b)
    BY <1>3, <2>1
  <2> QED BY <2>2, <2>3
<1>4. IndexForValue(v) \in Buckets /\ Belongs(v, IndexForValue(v))
  <2>1. CASE v >= BucketLimit(LastBucket)
    <3>1. IndexForValue(v) = LastBucket
      BY <2>1 DEF IndexForValue
    <3>2. LastBucket - 1 \in Buckets /\ LastBucket # 0
      BY <1>1
    <3>3. BucketLimit(LastBucket - 1) < BucketLimit(LastBucket)
      BY <1>1, <3>2, LimitsGrow
    <3>4. v > BucketLimit(LastBucket - 1)
      BY <1>1, <1>2, <2>1, <3>2, <3>3
    <3> QED BY <1>1, <3>1, <3>4 DEF Belongs
  <2>2. CASE ~(v >= BucketLimit(LastBucket)) /\ v < BucketLimit(0)
    <3>1. IndexForValue(v) = 0
      BY <2>2 DEF IndexForValue
    <3>2. v <= BucketLimit(0)
      BY <1>1, <1>2, <2>2
    <3> QED BY <1>1, <3>1, <3>2 DEF Belongs
  <2>3. CASE ~(v >= BucketLimit(LastBucket)) /\ ~(v < BucketLimit(0))
    <3> DEFINE limits == {l \in {BucketLimit(b) : b \in Buckets} : l >= v}
               same(l) == {b \in Buckets : BucketLimit(b) = l}
    <3>1. limits \subseteq Nat /\ BucketLimit(LastBucket) \in limits
      BY <1>1, <1>2, <2>3
    <3>2. PICK m \in limits : \A k \in limits : m <= k
      <4> HIDE DEF limits
      <4>1. limits # {}
        BY <3>1
      <4> QED BY <3>1, <4>1, LeastExists
    <3>3. Min(limits) = m
      <4>1. \A k \in limits : (\A y \in limits : k <= y) => k = m
        <5> HIDE DEF limits
        <5>1. m \in Nat /\ \A k \in limits : k \in Nat
          BY <3>1, <3>2
        <5> QED BY <3>2, <5>1
      <4> HIDE DEF limits
      <4> QED BY <3>2, <4>1 DEF Min
    <3>4. PICK b \in Buckets : m = BucketLimit(b) /\ m >= v
      BY <3>2
    <3>5. \A k \in Buckets : BucketLimit(k) = m => k = b
      <4> SUFFICES ASSUME NEW k \in Buckets, BucketLimit(k) = m PROVE k = b
        OBVIOUS
      <4>1. k < b \/ b < k \/ k = b
        BY <1>1
      <4>2. k < b => BucketLimit(k) < BucketLimit(b)
        BY LimitsGrow
      <4>3. b < k => BucketLimit(b) < BucketLimit(k)
        BY LimitsGrow
      <4> QED BY <1>2, <3>4, <4>1, <4>2, <4>3
    <3>6. same(m) = {b}
      BY <3>4, <3>5
    <3>7. Max({b}) = b
      BY <1>1 DEF Max
    <3>8. IndexForValue(v) = Max(same(Min(limits)))
      BY <2>3 DEF IndexForValue
    <3> HIDE DEF limits, same
    <3>9. IndexForValue(v) = b
      BY <3>3, <3>6, <3>7, <3>8
    <3>10. b = 0 \/ v > BucketLimit(b - 1)
      <4> SUFFICES ASSUME b # 0, ~(v > BucketLimit(b - 1)) PROVE FALSE
        OBVIOUS
      <4>1. b - 1 \in Buckets /\ b - 1 < b
        BY <1>1
      <4>2. BucketLimit(b - 1) \in Nat /\ BucketLimit(b - 1) >= v
        BY <1>2, <4>1
      <4>3. BucketLimit(b - 1) < BucketLimit(b)
        BY <4>1, LimitsGrow
      <4>4. BucketLimit(b - 1) \in limits
        BY <4>1, <4>2 DEF limits
      <4>5. m <= BucketLimit(b - 1)
        BY <3>2, <4>4
      <4> QED BY <1>2, <3>4, <4>2, <4>3, <4>5
    <3>11. v <= BucketLimit(b)
      BY <1>2, <3>4
    <3> QED BY <3>9, <3>10, <3>11 DEF Belongs
  <2> QED BY <2>1, <2>2, <2>3
<1> QED BY <1>3, <1>4

------------------------------------------------------------------------------
(* Sums: what FoldFunctionOnSet makes of addition.                         *)

Chosen(s) == CHOOSE x \in s : TRUE
SumStep(f, S, t) == [s \in SUBSET S |-> IF s = {} THEN 0
                                        ELSE f[Chosen(s)] + t[s \ {Chosen(s)}]]
SumOn(f, S) == CHOOSE t : t = SumStep(f, S, t)

(* A fold that adds is the value of the recursive function above.          *)
LEMMA SumUnfolds ==
    ASSUME NEW f, NEW S
    PROVE  SumFunctionOnSet(f, S) = SumOn(f, S)[S]
  BY DEF SumFunctionOnSet, FoldFunctionOnSet, MapThenFoldSet, SumOn, SumStep, Chosen

IsSummable(f, S) == IsFiniteSet(S) /\ \A x \in S : f[x] \in Int
Sums(t, f, S) == t = SumStep(f, S, t)

(* What an element less leaves of a finite set.                            *)
LEMMA SmallerSet ==
    ASSUME NEW S, IsFiniteSet(S), NEW s \in SUBSET S
    PROVE  /\ IsFiniteSet(s) /\ Cardinality(s) \in Nat
           /\ (s = {} <=> Cardinality(s) = 0)
           /\ \A x \in s : /\ s \ {x} \in SUBSET S
                           /\ Cardinality(s \ {x}) = Cardinality(s) - 1
           /\ s # {} => Chosen(s) \in s
<1>1. IsFiniteSet(s)
  BY FS_Subset
<1>2. Cardinality(s) \in Nat /\ (s = {} <=> Cardinality(s) = 0)
  BY <1>1, FS_CardinalityType, FS_EmptySet
<1>3. \A x \in s : Cardinality(s \ {x}) = Cardinality(s) - 1
  BY <1>1, FS_RemoveElement
<1>4. s # {} => Chosen(s) \in s
  BY DEF Chosen
<1> QED BY <1>1, <1>2, <1>3, <1>4

(* Adding an element a step, every sum is reached.                         *)
LEMMA SumsExist ==
    ASSUME NEW f, NEW S, IsSummable(f, S)
    PROVE  Sums(SumOn(f, S), f, S)
<1> DEFINE X == [SUBSET S -> Int]
           base == [s \in SUBSET S |-> 0]
           N == Cardinality(S) + 1
           step == [kt \in (1 .. N) \X X |-> SumStep(f, S, kt[2])]
<1>1. IsFiniteSet(S) /\ N \in Nat /\ N - 1 = Cardinality(S) /\ N - 1 \in Nat
  BY FS_CardinalityType DEF IsSummable
<1>2. base \in X
  OBVIOUS
<1>3. ASSUME NEW t \in X PROVE SumStep(f, S, t) \in X
  <2>1. \A s \in SUBSET S : (IF s = {} THEN 0 ELSE f[Chosen(s)] + t[s \ {Chosen(s)}]) \in Int
    <3> TAKE s \in SUBSET S
    <3>1. CASE s = {}
      BY <3>1
    <3>2. CASE s # {}
      <4> DEFINE c == Chosen(s)
                 r == s \ {c}
      <4>1. c \in S /\ r \in SUBSET S
        BY <3>2 DEF Chosen
      <4> HIDE DEF c, r
      <4>2. f[c] \in Int /\ t[r] \in Int
        BY <4>1 DEF IsSummable
      <4>3. f[c] + t[r] \in Int
        BY <4>2
      <4> QED BY <3>2, <4>3 DEF c, r
    <3> QED BY <3>1, <3>2
  <2> QED BY <2>1 DEF SumStep
<1>4. \A k \in 1 .. N, t \in X : step[<<k, t>>] = SumStep(f, S, t)
  OBVIOUS
<1> HIDE DEF N, base
<1>5. step \in StepsOn(N, X)
  <2> HIDE DEF X
  <2> QED BY <1>3 DEF StepsOn
<1> HIDE DEF step, X
<1>6. PICK t : Runs(t, N, X, base, step)
  BY <1>1, <1>2, <1>5, RecursionExists
<1>7. /\ t \in [0 .. N -> X] /\ t[0] = base
      /\ \A k \in 1 .. N : t[k] = SumStep(f, S, t[k - 1])
  <2>1. /\ t \in [0 .. N -> X] /\ t[0] = base
        /\ \A k \in 1 .. N : t[k] = step[<<k, t[k - 1]>>]
    BY <1>6 DEF Runs
  <2>2. ASSUME NEW k \in 1 .. N PROVE t[k] = SumStep(f, S, t[k - 1])
    <3>1. t[k - 1] \in X
      BY <1>1, <2>1
    <3>2. step[<<k, t[k - 1]>>] = SumStep(f, S, t[k - 1])
      BY <1>4, <3>1
    <3> QED BY <2>1, <3>2
  <2> QED BY <2>1, <2>2
<1> DEFINE P == {k \in Nat : k + 1 <= N => \A s \in SUBSET S :
                    Cardinality(s) <= k => t[k + 1][s] = t[k][s]}
<1>8. 0 \in P
  <2> SUFFICES ASSUME 0 + 1 <= N, NEW s \in SUBSET S, Cardinality(s) <= 0
               PROVE  t[0 + 1][s] = t[0][s]
    OBVIOUS
  <2>1. s = {}
    BY <1>1, SmallerSet
  <2>2. 1 \in 1 .. N /\ 1 - 1 = 0
    BY <1>1
  <2>3. t[1] = SumStep(f, S, t[0])
    BY <1>7, <2>2
  <2>4. t[1][s] = 0
    BY <2>1, <2>3 DEF SumStep
  <2>5. t[0][s] = 0
    BY <1>7 DEF base
  <2> QED BY <2>4, <2>5
<1>9. ASSUME NEW k \in Nat, k \in P PROVE k + 1 \in P
  <2> SUFFICES ASSUME (k + 1) + 1 <= N, NEW s \in SUBSET S, Cardinality(s) <= k + 1
               PROVE  t[(k + 1) + 1][s] = t[k + 1][s]
    OBVIOUS
  <2> DEFINE m == k + 1
             n == m + 1
  <2>1. m \in 1 .. N /\ n \in 1 .. N /\ m - 1 = k /\ n - 1 = m
    BY <1>1
  <2>2. t[n] = SumStep(f, S, t[m]) /\ t[m] = SumStep(f, S, t[k])
    BY <1>7, <2>1
  <2>3. k + 1 <= N
    BY <1>1
  <2> HIDE DEF n
  <2>4. CASE s = {}
    BY <2>2, <2>4 DEF SumStep, n
  <2>5. CASE s # {}
    <3> DEFINE r == s \ {Chosen(s)}
    <3>1. r \in SUBSET S /\ Cardinality(r) = Cardinality(s) - 1 /\ Cardinality(s) \in Nat
      BY <1>1, <2>5, SmallerSet
    <3>2. t[m][r] = t[k][r]
      <4> HIDE DEF r
      <4>1. Cardinality(r) <= k
        BY <3>1
      <4> QED BY <1>9, <2>3, <3>1, <4>1
    <3>3. t[n][s] = f[Chosen(s)] + t[m][r]
      BY <2>2, <2>5 DEF SumStep
    <3>4. t[m][s] = f[Chosen(s)] + t[k][r]
      BY <2>2, <2>5 DEF SumStep
    <3> QED BY <3>2, <3>3, <3>4 DEF n
  <2> QED BY <2>4, <2>5
<1>10. Nat \subseteq P
  <2> HIDE DEF P
  <2> QED BY <1>8, <1>9, InductionOnNat
<1>11. \A s \in SUBSET S : Cardinality(s) <= N - 1
  <2> TAKE s \in SUBSET S
  <2>1. Cardinality(s) <= Cardinality(S)
    BY <1>1, FS_Subset
  <2> QED BY <1>1, <2>1
<1>12. \A s \in SUBSET S : t[N][s] = t[N - 1][s]
  <2>1. N - 1 \in Nat /\ (N - 1) + 1 <= N /\ (N - 1) + 1 = N
    BY <1>1
  <2>2. N - 1 \in P
    BY <1>10, <2>1
  <2> QED BY <1>11, <2>1, <2>2
<1>13. t[N] \in X /\ t[N - 1] \in X /\ t[N] = SumStep(f, S, t[N - 1])
  <2>1. N \in 0 .. N /\ N - 1 \in 0 .. N /\ N \in 1 .. N
    BY <1>1
  <2> QED BY <1>7, <2>1
<1>14. t[N] = t[N - 1]
  <2> DEFINE a == t[N]
             b == t[N - 1]
  <2>1. a \in [SUBSET S -> Int] /\ b \in [SUBSET S -> Int]
    BY <1>13 DEF X
  <2>2. \A s \in SUBSET S : a[s] = b[s]
    BY <1>12
  <2> HIDE DEF a, b
  <2>3. a = b
    BY <2>1, <2>2
  <2> QED BY <2>3 DEF a, b
<1>15. \E u : u = SumStep(f, S, u)
  BY <1>13, <1>14
<1> QED BY <1>15 DEF Sums, SumOn

(* A set's sum depends on nothing but its elements' values.                *)
LEMMA SumsAgree ==
    ASSUME NEW f, NEW S, NEW t, Sums(t, f, S), IsFiniteSet(S),
           NEW g, NEW T, NEW u, Sums(u, g, T),
           NEW s \in SUBSET S, s \in SUBSET T, \A x \in s : f[x] = g[x]
    PROVE  t[s] = u[s]
<1> DEFINE P == {n \in Nat : \A r \in SUBSET s : Cardinality(r) = n => t[r] = u[r]}
<1>0. \A r \in SUBSET s : r \in SUBSET S /\ r \in SUBSET T
  OBVIOUS
<1>1. 0 \in P
  <2> SUFFICES ASSUME NEW r \in SUBSET s, Cardinality(r) = 0 PROVE t[r] = u[r]
    OBVIOUS
  <2>1. r = {}
    BY <1>0, SmallerSet
  <2> QED BY <1>0, <2>1 DEF Sums, SumStep
<1>2. ASSUME NEW n \in Nat, n \in P PROVE n + 1 \in P
  <2> SUFFICES ASSUME NEW r \in SUBSET s, Cardinality(r) = n + 1 PROVE t[r] = u[r]
    OBVIOUS
  <2> DEFINE c == Chosen(r)
             q == r \ {c}
  <2>1. r # {} /\ c \in r /\ Cardinality(q) = n /\ q \in SUBSET s
    <3>1. r \in SUBSET S
      BY <1>0
    <3>2. r # {} /\ Chosen(r) \in r
      BY <3>1, SmallerSet
    <3>3. Cardinality(r \ {Chosen(r)}) = (n + 1) - 1
      BY <3>1, <3>2, SmallerSet
    <3> QED BY <3>2, <3>3
  <2> HIDE DEF c, q
  <2>2. t[q] = u[q] /\ f[c] = g[c]
    BY <1>2, <2>1
  <2>3. t[r] = f[c] + t[q]
    BY <1>0, <2>1 DEF Sums, SumStep, c, q
  <2>4. u[r] = g[c] + u[q]
    BY <1>0, <2>1 DEF Sums, SumStep, c, q
  <2> QED BY <2>2, <2>3, <2>4
<1>3. Nat \subseteq P
  <2> HIDE DEF P
  <2> QED BY <1>1, <1>2, InductionOnNat
<1>4. Cardinality(s) \in Nat
  BY SmallerSet
<1> QED BY <1>3, <1>4

(* Sums of integers are integers.                                          *)
LEMMA SumsAreInt ==
    ASSUME NEW f, NEW S, NEW t, Sums(t, f, S), IsSummable(f, S)
    PROVE  \A s \in SUBSET S : t[s] \in Int
<1> DEFINE P == {n \in Nat : \A r \in SUBSET S : Cardinality(r) = n => t[r] \in Int}
<1>0. IsFiniteSet(S)
  BY DEF IsSummable
<1>1. 0 \in P
  <2> SUFFICES ASSUME NEW r \in SUBSET S, Cardinality(r) = 0 PROVE t[r] \in Int
    OBVIOUS
  <2>1. r = {}
    BY <1>0, SmallerSet
  <2>2. t[r] = 0
    BY <2>1 DEF Sums, SumStep
  <2> QED BY <2>2
<1>2. ASSUME NEW n \in Nat, n \in P PROVE n + 1 \in P
  <2> SUFFICES ASSUME NEW r \in SUBSET S, Cardinality(r) = n + 1 PROVE t[r] \in Int
    OBVIOUS
  <2> DEFINE c == Chosen(r)
             q == r \ {c}
  <2>1. r # {} /\ c \in r /\ Cardinality(q) = (n + 1) - 1 /\ q \in SUBSET S
    <3>1. r # {} /\ Chosen(r) \in r
      BY <1>0, SmallerSet
    <3>2. Cardinality(r \ {Chosen(r)}) = (n + 1) - 1
      BY <1>0, <3>1, SmallerSet
    <3> QED BY <3>1, <3>2
  <2> HIDE DEF c, q
  <2>2. f[c] \in Int /\ t[q] \in Int
    BY <1>2, <2>1 DEF IsSummable
  <2>3. t[r] = f[c] + t[q]
    BY <2>1 DEF Sums, SumStep, c, q
  <2> QED BY <2>2, <2>3
<1>3. Nat \subseteq P
  <2> HIDE DEF P
  <2> QED BY <1>1, <1>2, InductionOnNat
<1>4. \A s \in SUBSET S : Cardinality(s) \in Nat
  BY <1>0, SmallerSet
<1> QED BY <1>3, <1>4

(* Whichever element is added last, the sum is the same.                   *)
LEMMA AnyElementLast ==
    ASSUME NEW f, NEW S, NEW t, Sums(t, f, S), IsSummable(f, S)
    PROVE  \A s \in SUBSET S : \A x \in s : t[s] = f[x] + t[s \ {x}]
<1> DEFINE P == {n \in Nat : \A r \in SUBSET S : Cardinality(r) = n =>
                                \A x \in r : t[r] = f[x] + t[r \ {x}]}
<1>0. IsFiniteSet(S) /\ (\A s \in SUBSET S : t[s] \in Int) /\ \A x \in S : f[x] \in Int
  BY SumsAreInt DEF IsSummable
<1>1. 0 \in P
  <2> SUFFICES ASSUME NEW r \in SUBSET S, Cardinality(r) = 0, NEW x \in r PROVE FALSE
    OBVIOUS
  <2> QED BY <1>0, SmallerSet
<1>2. ASSUME NEW n \in Nat, n \in P PROVE n + 1 \in P
  <2> SUFFICES ASSUME NEW r \in SUBSET S, Cardinality(r) = n + 1, NEW x \in r
               PROVE  t[r] = f[x] + t[r \ {x}]
    OBVIOUS
  <2> DEFINE c == Chosen(r)
             q == r \ {c}
             p == r \ {x}
             o == r \ {c, x}
  <2>1. r # {} /\ c \in r /\ Cardinality(q) = (n + 1) - 1 /\ q \in SUBSET S
    <3>1. r # {} /\ Chosen(r) \in r
      BY <1>0, SmallerSet
    <3>2. Cardinality(r \ {Chosen(r)}) = (n + 1) - 1
      BY <1>0, <3>1, SmallerSet
    <3> QED BY <3>1, <3>2
  <2>2. t[r] = f[c] + t[q]
    BY <2>1 DEF Sums, SumStep
  <2>3. CASE c = x
    BY <2>2, <2>3
  <2>4. CASE c # x
    <3>1. Cardinality(p) = (n + 1) - 1 /\ p \in SUBSET S
      BY <1>0, SmallerSet
    <3>2. x \in q /\ c \in p /\ q \ {x} = o /\ p \ {c} = o /\ o \in SUBSET S
      BY <2>1, <2>4
    <3> HIDE DEF c, q, p, o
    <3>3. t[q] = f[x] + t[q \ {x}]
      BY <1>2, <2>1, <3>2
    <3>4. t[p] = f[c] + t[p \ {c}]
      BY <1>2, <3>1, <3>2
    <3>5. t[o] \in Int /\ f[x] \in Int /\ f[c] \in Int
      BY <1>0, <2>1, <3>2
    <3>6. t[r] = f[x] + t[p]
      <4>1. t[q] = f[x] + t[o] /\ t[p] = f[c] + t[o]
        BY <3>2, <3>3, <3>4
      <4> DEFINE i == f[x]
                 j == f[c]
                 k == t[o]
      <4>2. i \in Int /\ j \in Int /\ k \in Int
        BY <3>5
      <4>3. t[r] = j + (i + k) /\ t[p] = j + k
        BY <2>2, <4>1
      <4> HIDE DEF i, j, k
      <4>4. t[r] = i + t[p]
        BY <4>2, <4>3
      <4> QED BY <4>4 DEF i
    <3> QED BY <3>6 DEF p
  <2> QED BY <2>3, <2>4
<1>3. Nat \subseteq P
  <2> HIDE DEF P
  <2> QED BY <1>1, <1>2, InductionOnNat
<1>4. \A s \in SUBSET S : Cardinality(s) \in Nat
  BY <1>0, SmallerSet
<1> QED BY <1>3, <1>4

(* The sum over no, one more, and other elements.                          *)
LEMMA SumOfNone == ASSUME NEW f PROVE SumFunctionOnSet(f, {}) = 0
<1>1. IsSummable(f, {})
  BY FS_EmptySet DEF IsSummable
<1>2. Sums(SumOn(f, {}), f, {})
  BY <1>1, SumsExist
<1>3. SumOn(f, {})[{}] = 0
  BY <1>2 DEF Sums, SumStep
<1> QED BY <1>3, SumUnfolds

(* So is the sum over a whole set,                                         *)
LEMMA SumIsInt ==
    ASSUME NEW f, NEW S, IsSummable(f, S) PROVE SumFunctionOnSet(f, S) \in Int
<1>1. Sums(SumOn(f, S), f, S)
  BY SumsExist
<1>2. SumOn(f, S)[S] \in Int
  BY <1>1, SumsAreInt
<1> QED BY <1>2, SumUnfolds

(* which depends on the values in it only.                                 *)
LEMMA SumIsSame ==
    ASSUME NEW f, NEW g, NEW S, IsSummable(f, S), \A x \in S : f[x] = g[x]
    PROVE  SumFunctionOnSet(f, S) = SumFunctionOnSet(g, S)
<1>1. IsSummable(g, S) /\ IsFiniteSet(S)
  BY DEF IsSummable
<1>2. Sums(SumOn(f, S), f, S) /\ Sums(SumOn(g, S), g, S)
  BY <1>1, SumsExist
<1>3. SumOn(f, S)[S] = SumOn(g, S)[S]
  BY <1>1, <1>2, SumsAgree
<1> QED BY <1>3, SumUnfolds

(* An element outside adds its value.                                      *)
LEMMA SumOfOneMore ==
    ASSUME NEW f, NEW S, NEW x, x \notin S, IsSummable(f, S), f[x] \in Int
    PROVE  /\ IsSummable(f, S \cup {x})
           /\ SumFunctionOnSet(f, S \cup {x}) = SumFunctionOnSet(f, S) + f[x]
<1> DEFINE T == S \cup {x}
<1>1. IsSummable(f, T) /\ IsFiniteSet(T) /\ IsFiniteSet(S)
  BY FS_AddElement DEF IsSummable
<1>2. Sums(SumOn(f, S), f, S) /\ Sums(SumOn(f, T), f, T)
  BY <1>1, SumsExist
<1>3. SumOn(f, T)[T] = f[x] + SumOn(f, T)[T \ {x}]
  <2>1. T \in SUBSET T /\ x \in T
    OBVIOUS
  <2> HIDE DEF T
  <2> QED BY <1>1, <1>2, <2>1, AnyElementLast
<1>4. T \ {x} = S
  OBVIOUS
<1>5. SumOn(f, T)[S] = SumOn(f, S)[S]
  <2>1. S \in SUBSET T
    OBVIOUS
  <2> HIDE DEF T
  <2> QED BY <1>1, <1>2, <2>1, SumsAgree
<1>6. SumOn(f, S)[S] \in Int
  BY <1>2, SumsAreInt
<1>7. SumFunctionOnSet(f, S) \in Int /\ SumFunctionOnSet(f, S) = SumOn(f, T)[S]
  BY <1>5, <1>6, SumUnfolds
<1>8. SumFunctionOnSet(f, T) = f[x] + SumOn(f, T)[T \ {x}]
  BY <1>3, SumUnfolds
<1>9. SumOn(f, T)[T \ {x}] = SumFunctionOnSet(f, S)
  BY <1>4, <1>7
<1>10. SumFunctionOnSet(f, T) = SumFunctionOnSet(f, S) + f[x]
  <2> HIDE DEF T
  <2> QED BY <1>7, <1>8, <1>9
<1> QED BY <1>1, <1>10

(* The sum of the first n of a sequence.                                   *)
SumTo(f, n) == SumFunctionOnSet(f, 1 .. n)

(* It is the sum of one less and the last.                                 *)
LEMMA SumToIs ==
    ASSUME NEW N \in Nat, NEW f, \A i \in 1 .. N : f[i] \in Int
    PROVE  /\ SumTo(f, 0) = 0
           /\ \A n \in 1 .. N : SumTo(f, n) = SumTo(f, n - 1) + f[n]
           /\ \A n \in 0 .. N : SumTo(f, n) \in Int
<1>1. SumTo(f, 0) = 0
  <2>1. 1 .. 0 = {}
    OBVIOUS
  <2> QED BY <2>1, SumOfNone DEF SumTo
<1>2. \A n \in 0 .. N : IsSummable(f, 1 .. n)
  <2> TAKE n \in 0 .. N
  <2>1. IsFiniteSet(1 .. n)
    BY FS_Interval
  <2>2. \A x \in 1 .. n : f[x] \in Int
    OBVIOUS
  <2> QED BY <2>1, <2>2 DEF IsSummable
<1>3. \A n \in 0 .. N : SumTo(f, n) \in Int
  BY <1>2, SumIsInt DEF SumTo
<1>4. ASSUME NEW n \in 1 .. N PROVE SumTo(f, n) = SumTo(f, n - 1) + f[n]
  <2> DEFINE T == 1 .. (n - 1)
  <2>1. 1 .. n = T \cup {n} /\ n \notin T /\ n - 1 \in 0 .. N /\ f[n] \in Int
    OBVIOUS
  <2>2. IsSummable(f, T)
    BY <1>2, <2>1
  <2> HIDE DEF T
  <2>3. SumFunctionOnSet(f, T \cup {n}) = SumFunctionOnSet(f, T) + f[n]
    BY <2>1, <2>2, SumOfOneMore
  <2> QED BY <2>1, <2>3 DEF SumTo, T
<1> QED BY <1>1, <1>3, <1>4

(* Equal elements have equal sums.                                         *)
LEMMA SumToIsSame ==
    ASSUME NEW N \in Nat, NEW f, NEW g, \A i \in 1 .. N : f[i] \in Int /\ f[i] = g[i]
    PROVE  SumTo(f, N) = SumTo(g, N)
<1>1. IsSummable(f, 1 .. N)
  BY FS_Interval DEF IsSummable
<1> QED BY <1>1, SumIsSame DEF SumTo

(* The sum of naturals is one.                                             *)
LEMMA SumToIsNat ==
    ASSUME NEW N \in Nat, NEW f, \A i \in 1 .. N : f[i] \in Nat
    PROVE  SumTo(f, N) \in Nat
<1> DEFINE S == {n \in Nat : n <= N => SumTo(f, n) \in Nat}
<1>0. /\ SumTo(f, 0) = 0
      /\ \A n \in 1 .. N : SumTo(f, n) = SumTo(f, n - 1) + f[n]
  BY SumToIs
<1>1. 0 \in S
  BY <1>0
<1>2. ASSUME NEW n \in Nat, n \in S PROVE n + 1 \in S
  <2> SUFFICES ASSUME n + 1 <= N PROVE SumTo(f, n + 1) \in Nat
    OBVIOUS
  <2>1. n + 1 \in 1 .. N /\ (n + 1) - 1 = n /\ n <= N
    OBVIOUS
  <2>2. SumTo(f, n + 1) = SumTo(f, n) + f[n + 1] /\ SumTo(f, n) \in Nat /\ f[n + 1] \in Nat
    BY <1>0, <1>2, <2>1
  <2> QED BY <2>2
<1>3. Nat \subseteq S
  <2> HIDE DEF S
  <2> QED BY <1>1, <1>2, InductionOnNat
<1> QED BY <1>3

(* What is after the end adds its own sum.                                 *)
LEMMA SumJoined ==
    ASSUME NEW N \in Nat, NEW M_ \in Nat, NEW h, NEW f, NEW g,
           \A i \in 1 .. N : h[i] = f[i] /\ f[i] \in Int,
           \A j \in 1 .. M_ : h[N + j] = g[j] /\ g[j] \in Int
    PROVE  SumTo(h, N + M_) = SumTo(f, N) + SumTo(g, M_)
<1> DEFINE L == N + M_
           S == {m \in Nat : m <= M_ => SumTo(h, N + m) = SumTo(f, N) + SumTo(g, m)}
<1>1. \A i \in 1 .. L : h[i] \in Int
  <2> TAKE i \in 1 .. L
  <2>1. CASE i \in 1 .. N
    BY <2>1
  <2>2. CASE i \notin 1 .. N
    <3>1. i - N \in 1 .. M_ /\ N + (i - N) = i
      BY <2>2
    <3>2. h[N + (i - N)] = g[i - N] /\ g[i - N] \in Int
      BY <3>1
    <3> QED BY <3>1, <3>2
  <2> QED BY <2>1, <2>2
<1>2. L \in Nat
  OBVIOUS
<1> HIDE DEF L
<1>3. \A n \in 1 .. L : SumTo(h, n) = SumTo(h, n - 1) + h[n]
  BY <1>1, <1>2, SumToIs
<1>4. /\ SumTo(g, 0) = 0
      /\ \A m \in 1 .. M_ : SumTo(g, m) = SumTo(g, m - 1) + g[m]
      /\ \A m \in 0 .. M_ : SumTo(g, m) \in Int
  BY SumToIs
<1>5. SumTo(h, N) = SumTo(f, N) /\ SumTo(f, N) \in Int
  <2>1. \A i \in 1 .. N : f[i] \in Int /\ f[i] = h[i]
    OBVIOUS
  <2>2. SumTo(f, N) = SumTo(h, N)
    BY <2>1, SumToIsSame
  <2>3. N \in 0 .. N
    OBVIOUS
  <2>4. SumTo(f, N) \in Int
    BY <2>1, <2>3, SumToIs
  <2> QED BY <2>2, <2>4
<1>6. 0 \in S
  BY <1>4, <1>5
<1>7. ASSUME NEW m \in Nat, m \in S PROVE m + 1 \in S
  <2> SUFFICES ASSUME m + 1 <= M_
               PROVE  SumTo(h, N + (m + 1)) = SumTo(f, N) + SumTo(g, m + 1)
    OBVIOUS
  <2> DEFINE n == N + (m + 1)
             k == m + 1
  <2>1. n \in 1 .. L /\ n - 1 = N + m /\ k \in 1 .. M_ /\ k - 1 = m /\ m \in 0 .. M_ /\ n = N + k
    BY DEF L
  <2> HIDE DEF n, k
  <2>2. SumTo(h, n) = SumTo(h, N + m) + h[n]
    BY <1>3, <2>1
  <2>3. SumTo(h, N + m) = SumTo(f, N) + SumTo(g, m)
    BY <1>7, <2>1
  <2>4. h[n] = g[k] /\ g[k] \in Int
    BY <2>1
  <2>5. SumTo(g, k) = SumTo(g, m) + g[k] /\ SumTo(g, m) \in Int
    BY <1>4, <2>1
  <2>6. SumTo(h, n) = SumTo(f, N) + SumTo(g, k)
    BY <1>5, <2>2, <2>3, <2>4, <2>5
  <2> QED BY <2>6 DEF n, k
<1>8. Nat \subseteq S
  <2> HIDE DEF S
  <2> QED BY <1>6, <1>7, InductionOnNat
<1>9. SumTo(h, N + M_) = SumTo(f, N) + SumTo(g, M_)
  BY <1>8
<1> QED BY <1>9

------------------------------------------------------------------------------
(* Counting                                                                *)
PlacesOf(s, V) == {i \in DOMAIN s : s[i] \in V}
CountIn(s, V) == Cardinality(PlacesOf(s, V))

(* There are n numbers from 1 to n.                                        *)
LEMMA FirstNumbers ==
    ASSUME NEW n \in Nat PROVE IsFiniteSet(1 .. n) /\ Cardinality(1 .. n) = n
<1>1. IsFiniteSet(1 .. n) /\ Cardinality(1 .. n) = IF 1 > n THEN 0 ELSE n - 1 + 1
  BY FS_Interval
<1> QED BY <1>1

(* A sequence has no more values of a kind than values,                    *)
LEMMA CountIsNat ==
    ASSUME NEW X, NEW s \in Seq(X), NEW V
    PROVE  IsFiniteSet(PlacesOf(s, V)) /\ CountIn(s, V) \in Nat /\ CountIn(s, V) <= Len(s)
<1>1. PlacesOf(s, V) \subseteq 1 .. Len(s) /\ Len(s) \in Nat
  BY DEF PlacesOf
<1>2. IsFiniteSet(1 .. Len(s)) /\ Cardinality(1 .. Len(s)) = Len(s)
  BY <1>1, FirstNumbers
<1>3. IsFiniteSet(PlacesOf(s, V)) /\ Cardinality(PlacesOf(s, V)) <= Cardinality(1 .. Len(s))
  BY <1>1, <1>2, FS_Subset
<1> QED BY <1>2, <1>3, FS_CardinalityType DEF CountIn

(* as many if all are of the kind,                                         *)
LEMMA CountOfAll ==
    ASSUME NEW X, NEW s \in Seq(X), NEW V, \A i \in DOMAIN s : s[i] \in V
    PROVE  CountIn(s, V) = Len(s)
<1>1. PlacesOf(s, V) = 1 .. Len(s) /\ Len(s) \in Nat
  BY DEF PlacesOf
<1> QED BY <1>1, FirstNumbers DEF CountIn

(* none if none is,                                                        *)
LEMMA CountOfNone ==
    ASSUME NEW s, NEW V, \A i \in DOMAIN s : s[i] \notin V
    PROVE  CountIn(s, V) = 0
<1>1. PlacesOf(s, V) = {}
  BY DEF PlacesOf
<1> QED BY <1>1, FS_EmptySet DEF CountIn

(* no fewer of a kind that is larger,                                      *)
LEMMA CountOfMore ==
    ASSUME NEW X, NEW s \in Seq(X), NEW V, NEW W,
           \A i \in DOMAIN s : s[i] \in V => s[i] \in W
    PROVE  CountIn(s, V) <= CountIn(s, W)
<1>1. PlacesOf(s, V) \subseteq PlacesOf(s, W)
  BY DEF PlacesOf
<1> QED BY <1>1, CountIsNat, FS_Subset DEF CountIn

(* and the kinds without a common value add up.                            *)
LEMMA CountOfEither ==
    ASSUME NEW X, NEW s \in Seq(X), NEW V, NEW W, NEW U,
           \A i \in DOMAIN s : ~(s[i] \in V /\ s[i] \in W),
           \A i \in DOMAIN s : s[i] \in U <=> s[i] \in V \/ s[i] \in W
    PROVE  CountIn(s, U) = CountIn(s, V) + CountIn(s, W)
<1> DEFINE A_ == PlacesOf(s, V)
           B == PlacesOf(s, W)
<1>1. PlacesOf(s, U) = A_ \cup B /\ A_ \cap B = {}
  BY DEF PlacesOf
<1>2. IsFiniteSet(A_) /\ IsFiniteSet(B)
  BY CountIsNat
<1>3. Cardinality(A_) \in Nat /\ Cardinality(B) \in Nat /\ Cardinality(A_ \cap B) = 0
  BY <1>1, <1>2, FS_CardinalityType, FS_EmptySet
<1> HIDE DEF A_, B
<1>4. Cardinality(A_ \cup B) = Cardinality(A_) + Cardinality(B) - Cardinality(A_ \cap B)
  BY <1>2, FS_Union
<1>5. Cardinality(A_ \cup B) = Cardinality(A_) + Cardinality(B)
  BY <1>3, <1>4
<1> QED BY <1>1, <1>5 DEF CountIn, A_, B

(* Joining sequences adds what they count.                                 *)
LEMMA CountJoined ==
    ASSUME NEW X, NEW s \in Seq(X), NEW t \in Seq(X), NEW V
    PROVE  CountIn(s \o t, V) = CountIn(s, V) + CountIn(t, V)
<1> DEFINE N == Len(s)
           u == s \o t
           A_ == PlacesOf(s, V)
           C == PlacesOf(t, V)
           B == {N + j : j \in C}
<1>1. N \in Nat /\ DOMAIN s = 1 .. N /\ Len(t) \in Nat /\ DOMAIN t = 1 .. Len(t)
  OBVIOUS
<1>2. /\ DOMAIN u = 1 .. N + Len(t)
      /\ \A i \in 1 .. N : u[i] = s[i]
      /\ \A j \in 1 .. Len(t) : u[N + j] = t[j]
  <2>1. /\ u \in Seq(X) /\ Len(u) = N + Len(t)
        /\ \A i \in 1 .. N + Len(t) : u[i] = IF i <= N THEN s[i] ELSE t[i - N]
    BY ConcatProperties
  <2> HIDE DEF u, N
  <2>2. \A i \in 1 .. N : i \in 1 .. N + Len(t) /\ i <= N
    BY <1>1
  <2>3. \A j \in 1 .. Len(t) : N + j \in 1 .. N + Len(t) /\ ~(N + j <= N) /\ (N + j) - N = j
    BY <1>1
  <2> QED BY <2>1, <2>2, <2>3
<1> HIDE DEF u, N
<1>3. A_ \subseteq 1 .. N /\ C \subseteq 1 .. Len(t)
  BY <1>1 DEF PlacesOf
<1>4. A_ \cap B = {}
  BY <1>1, <1>3
<1>5. PlacesOf(u, V) = A_ \cup B
  <2>1. ASSUME NEW i \in PlacesOf(u, V) PROVE i \in A_ \cup B
    <3>1. i \in 1 .. N + Len(t) /\ u[i] \in V
      BY <1>2 DEF PlacesOf
    <3>2. CASE i \in 1 .. N
      BY <1>1, <1>2, <3>1, <3>2 DEF PlacesOf
    <3>3. CASE i \notin 1 .. N
      <4>1. i - N \in 1 .. Len(t) /\ i = N + (i - N)
        BY <1>1, <3>1, <3>3
      <4>2. t[i - N] \in V
        BY <1>2, <3>1, <4>1
      <4>3. i - N \in C
        BY <1>1, <4>1, <4>2 DEF PlacesOf
      <4> QED BY <4>1, <4>3
    <3> QED BY <3>2, <3>3
  <2>2. ASSUME NEW i \in A_ PROVE i \in PlacesOf(u, V)
    <3>1. i \in 1 .. N /\ s[i] \in V
      BY <1>1 DEF PlacesOf
    <3>2. i \in 1 .. N + Len(t)
      BY <1>1, <3>1
    <3> QED BY <1>2, <3>1, <3>2 DEF PlacesOf
  <2>3. ASSUME NEW j \in C PROVE N + j \in PlacesOf(u, V)
    <3>1. j \in 1 .. Len(t) /\ t[j] \in V
      BY <1>1 DEF PlacesOf
    <3>2. N + j \in 1 .. N + Len(t)
      BY <1>1, <3>1
    <3> QED BY <1>2, <3>1, <3>2 DEF PlacesOf
  <2> HIDE DEF A_, C
  <2> QED BY <2>1, <2>2, <2>3
<1>6. IsFiniteSet(A_) /\ IsFiniteSet(C)
  BY CountIsNat
<1> HIDE DEF A_, C
<1>7. IsFiniteSet(B) /\ Cardinality(B) = Cardinality(C)
  <2> DEFINE f == [j \in C |-> N + j]
  <2>1. f \in Bijection(C, B)
    <3>1. f \in [C -> B]
      OBVIOUS
    <3>2. \A i, j \in C : f[i] = f[j] => i = j
      BY <1>1, <1>3
    <3>3. \A b \in B : \E j \in C : f[j] = b
      OBVIOUS
    <3> HIDE DEF f, B
    <3> QED BY <3>1, <3>2, <3>3, Fun_IsBij
  <2>2. ExistsBijection(C, B)
    BY <2>1 DEF ExistsBijection
  <2> HIDE DEF B
  <2> QED BY <1>6, <2>2, FS_Bijection
<1> HIDE DEF B
<1>8. Cardinality(A_) \in Nat /\ Cardinality(C) \in Nat /\ Cardinality(A_ \cap B) = 0
  BY <1>4, <1>6, FS_CardinalityType, FS_EmptySet
<1>9. Cardinality(A_ \cup B) = Cardinality(A_) + Cardinality(B) - Cardinality(A_ \cap B)
  BY <1>6, <1>7, FS_Union
<1>10. Cardinality(A_ \cup B) = Cardinality(A_) + Cardinality(C)
  BY <1>7, <1>8, <1>9
<1> QED BY <1>5, <1>10 DEF CountIn, A_, C, u

(* A value more counts if it is of the kind.                               *)
LEMMA CountAppended ==
    ASSUME NEW X, NEW s \in Seq(X), NEW v \in X, NEW V
    PROVE  CountIn(Append(s, v), V) = CountIn(s, V) + (IF v \in V THEN 1 ELSE 0)
<1> DEFINE t == <<v>>
<1>1. Append(s, v) = s \o t /\ t \in Seq(X)
  BY AppendIsConcat
<1>2. DOMAIN t = {1} /\ t[1] = v /\ Len(t) = 1
  OBVIOUS
<1> HIDE DEF t
<1>3. CountIn(s \o t, V) = CountIn(s, V) + CountIn(t, V)
  BY <1>1, CountJoined
<1>4. CountIn(s, V) \in Nat
  BY CountIsNat
<1>5. CASE v \in V
  <2>1. \A i \in DOMAIN t : t[i] \in V
    BY <1>2, <1>5
  <2>2. CountIn(t, V) = 1
    BY <1>1, <1>2, <2>1, CountOfAll
  <2> QED BY <1>1, <1>3, <1>4, <1>5, <2>2
<1>6. CASE v \notin V
  <2>1. \A i \in DOMAIN t : t[i] \notin V
    BY <1>2, <1>6
  <2>2. CountIn(t, V) = 0
    BY <2>1, CountOfNone
  <2> QED BY <1>1, <1>3, <1>4, <1>6, <2>2
<1> QED BY <1>5, <1>6

------------------------------------------------------------------------------
(* The counters of a histogram                                             *)
LEMMA RemaindersAdd ==
    ASSUME NEW x \in Nat, NEW y \in Nat, NEW n \in Nat, n > 0
    PROVE  ((x % n) + y) % n = (x + y) % n
<1> DEFINE q == x \div n
           r == x % n
           a == r + y
           p == a \div n
           z == a % n
           k == q + p
           l == x + y
<1>1. q \in Nat /\ r \in Nat /\ x = n * q + r
  BY DivisionIs
<1>2. a \in Nat
  BY <1>1
<1>3. p \in Nat /\ z \in Nat /\ z < n /\ a = n * p + z
  <2> HIDE DEF a
  <2> QED BY <1>2, DivisionIs
<1> HIDE DEF q, r, p, z
<1>4. n * (q + p) = n * q + n * p /\ q + p \in Nat
  BY <1>1, <1>3
<1>5. l = n * k + z /\ k \in Nat
  BY <1>1, <1>3, <1>4
<1> HIDE DEF k, l
<1>6. (n * k + z) % n = z
  BY <1>3, <1>5, DivisionIsUnique
<1>7. l % n = z
  BY <1>5, <1>6
<1> QED BY <1>7 DEF l, z, a, r

Total(s) == SumTo(s, Len(s))
TotalSquares(s) == SumTo(Squares(s), Len(s))

(* The totals are the sums that the properties speak of.                   *)
LEMMA TotalsAre ==
    ASSUME NEW s \in Seq(Values)
    PROVE  /\ SumFunction(s) = Total(s) /\ Total(s) \in Nat
           /\ SumFunction(Squares(s)) = TotalSquares(s) /\ TotalSquares(s) \in Nat
           /\ \A i \in 1 .. Len(s) : s[i] \in Nat /\ Squares(s)[i] = s[i] * s[i] /\ s[i] * s[i] \in Nat
<1>1. Len(s) \in Nat /\ DOMAIN s = 1 .. Len(s) /\ \A i \in 1 .. Len(s) : s[i] \in Values
  OBVIOUS
<1>2. \A v \in Values : v \in Nat /\ v * v \in Nat
  BY HistogramParameters
<1>3. DOMAIN Squares(s) = 1 .. Len(s) /\ \A i \in 1 .. Len(s) : Squares(s)[i] = s[i] * s[i]
  BY <1>1 DEF Squares
<1>4. \A i \in 1 .. Len(s) : s[i] \in Nat /\ Squares(s)[i] = s[i] * s[i] /\ s[i] * s[i] \in Nat
  BY <1>1, <1>2, <1>3
<1>5. Total(s) \in Nat
  BY <1>1, <1>4, SumToIsNat DEF Total
<1>6. TotalSquares(s) \in Nat
  BY <1>1, <1>4, SumToIsNat DEF TotalSquares
<1>7. SumFunction(s) = Total(s)
  BY <1>1 DEF SumFunction, Total, SumTo
<1>8. SumFunction(Squares(s)) = TotalSquares(s)
  BY <1>3 DEF SumFunction, TotalSquares, SumTo
<1> QED BY <1>4, <1>5, <1>6, <1>7, <1>8

(* Joining sequences adds their totals,                                    *)
LEMMA TotalsJoined ==
    ASSUME NEW s \in Seq(Values), NEW t \in Seq(Values)
    PROVE  /\ Total(s \o t) = Total(s) + Total(t)
           /\ TotalSquares(s \o t) = TotalSquares(s) + TotalSquares(t)
<1> DEFINE N == Len(s)
           L == Len(t)
           u == s \o t
           a == Squares(s)
           b == Squares(t)
           c == Squares(u)
<1>1. N \in Nat /\ L \in Nat /\ u \in Seq(Values) /\ Len(u) = N + L
  BY ConcatProperties
<1>2. /\ \A i \in 1 .. N : u[i] = s[i]
      /\ \A j \in 1 .. L : u[N + j] = t[j]
  <2>1. \A i \in 1 .. N + L : u[i] = IF i <= N THEN s[i] ELSE t[i - N]
    BY ConcatProperties
  <2> HIDE DEF u, N, L
  <2>2. \A i \in 1 .. N : i \in 1 .. N + L /\ i <= N
    BY <1>1
  <2>3. \A j \in 1 .. L : N + j \in 1 .. N + L /\ ~(N + j <= N) /\ (N + j) - N = j
    BY <1>1
  <2> QED BY <2>1, <2>2, <2>3
<1>3. /\ \A i \in 1 .. N : s[i] \in Nat /\ a[i] = s[i] * s[i] /\ s[i] * s[i] \in Nat
      /\ \A i \in 1 .. L : t[i] \in Nat /\ b[i] = t[i] * t[i] /\ t[i] * t[i] \in Nat
  BY TotalsAre
<1>4. \A i \in 1 .. N + L : c[i] = u[i] * u[i]
  <2>1. \A i \in 1 .. Len(u) : c[i] = u[i] * u[i]
    BY <1>1, TotalsAre
  <2> QED BY <1>1, <2>1
<1> HIDE DEF N, L, u, a, b, c
<1>5. SumTo(u, N + L) = SumTo(s, N) + SumTo(t, L)
  <2>1. /\ \A i \in 1 .. N : u[i] = s[i] /\ s[i] \in Int
        /\ \A j \in 1 .. L : u[N + j] = t[j] /\ t[j] \in Int
    BY <1>2, <1>3
  <2> QED BY <1>1, <2>1, SumJoined
<1>6. SumTo(c, N + L) = SumTo(a, N) + SumTo(b, L)
  <2>1. \A i \in 1 .. N : c[i] = a[i] /\ a[i] \in Int
    <3> TAKE i \in 1 .. N
    <3>1. i \in 1 .. N + L
      BY <1>1
    <3>2. c[i] = u[i] * u[i] /\ u[i] = s[i] /\ a[i] = s[i] * s[i] /\ s[i] * s[i] \in Nat
      BY <1>2, <1>3, <1>4, <3>1
    <3> QED BY <3>2
  <2>2. \A j \in 1 .. L : c[N + j] = b[j] /\ b[j] \in Int
    <3> TAKE j \in 1 .. L
    <3> DEFINE k == N + j
    <3>1. k \in 1 .. N + L /\ u[k] = t[j]
      BY <1>1, <1>2
    <3> HIDE DEF k
    <3>2. c[k] = u[k] * u[k] /\ b[j] = t[j] * t[j] /\ t[j] * t[j] \in Nat
      BY <1>3, <1>4, <3>1
    <3> QED BY <3>1, <3>2 DEF k
  <2>3. /\ \A i \in 1 .. N : c[i] = a[i] /\ a[i] \in Int
        /\ \A j \in 1 .. L : c[N + j] = b[j] /\ b[j] \in Int
    BY <2>1, <2>2
  <2>4. N \in Nat /\ L \in Nat
    BY <1>1
  <2> QED BY <2>3, <2>4, SumJoined, SMTT(30)
<1> QED BY <1>1, <1>5, <1>6 DEF Total, TotalSquares, N, L, u, a, b, c

(* and a value more adds itself and its square.                            *)
LEMMA TotalsAppended ==
    ASSUME NEW s \in Seq(Values), NEW v \in Values
    PROVE  /\ Total(Append(s, v)) = Total(s) + v
           /\ TotalSquares(Append(s, v)) = TotalSquares(s) + v * v
<1> DEFINE t == <<v>>
<1>1. Append(s, v) = s \o t /\ t \in Seq(Values) /\ Len(t) = 1 /\ t[1] = v
  BY AppendIsConcat
<1>2. v \in Nat /\ v * v \in Nat
  BY HistogramParameters
<1> HIDE DEF t
<1>3. \A i \in 1 .. 1 : t[i] \in Int /\ Squares(t)[i] \in Int /\ Squares(t)[i] = t[i] * t[i]
  BY <1>1, <1>2, TotalsAre
<1>4. 1 \in 1 .. 1 /\ 1 - 1 = 0 /\ 1 \in Nat
  OBVIOUS
<1>5. SumTo(t, 1) = SumTo(t, 0) + t[1] /\ SumTo(t, 0) = 0
  BY <1>3, <1>4, SumToIs
<1>6. SumTo(Squares(t), 1) = SumTo(Squares(t), 0) + Squares(t)[1] /\ SumTo(Squares(t), 0) = 0
  BY <1>3, <1>4, SumToIs
<1>7. Total(t) = v /\ TotalSquares(t) = v * v
  BY <1>1, <1>2, <1>3, <1>4, <1>5, <1>6 DEF Total, TotalSquares
<1>8. Total(s \o t) = Total(s) + Total(t) /\ TotalSquares(s \o t) = TotalSquares(s) + TotalSquares(t)
  BY <1>1, TotalsJoined
<1> QED BY <1>1, <1>7, <1>8

(* The values of a joined,                                                 *)
LEMMA RangeJoined ==
    ASSUME NEW X, NEW s \in Seq(X), NEW t \in Seq(X)
    PROVE  Range(s \o t) = Range(s) \cup Range(t)
<1> DEFINE N == Len(s)
           L == Len(t)
           u == s \o t
<1>1. /\ u \in Seq(X) /\ Len(u) = N + L /\ N \in Nat /\ L \in Nat
      /\ \A i \in 1 .. N + L : u[i] = IF i <= N THEN s[i] ELSE t[i - N]
  BY ConcatProperties
<1>2. DOMAIN u = 1 .. N + L /\ DOMAIN s = 1 .. N /\ DOMAIN t = 1 .. L
  BY <1>1
<1> HIDE DEF u, N, L
<1>3. ASSUME NEW i \in 1 .. N + L PROVE u[i] \in Range(s) \cup Range(t)
  <2>1. CASE i <= N
    <3>1. i \in DOMAIN s /\ u[i] = s[i]
      BY <1>1, <1>2, <2>1
    <3> QED BY <3>1 DEF Range
  <2>2. CASE ~(i <= N)
    <3>1. i - N \in DOMAIN t /\ u[i] = t[i - N]
      BY <1>1, <1>2, <2>2
    <3> QED BY <3>1 DEF Range
  <2> QED BY <2>1, <2>2
<1>4. ASSUME NEW i \in 1 .. N PROVE s[i] \in Range(u)
  <2>1. i \in DOMAIN u /\ u[i] = s[i]
    BY <1>1, <1>2
  <2> QED BY <2>1 DEF Range
<1>5. ASSUME NEW j \in 1 .. L PROVE t[j] \in Range(u)
  <2> DEFINE i == N + j
  <2>1. i \in 1 .. N + L /\ ~(i <= N) /\ i - N = j
    BY <1>1
  <2> HIDE DEF i
  <2>2. i \in DOMAIN u /\ u[i] = t[j]
    BY <1>1, <1>2, <2>1
  <2> QED BY <2>2 DEF Range
<1>6. Range(u) = Range(s) \cup Range(t)
  BY <1>2, <1>3, <1>4, <1>5 DEF Range
<1> QED BY <1>6 DEF u

(* or a longer sequence.                                                   *)
LEMMA RangeAppended ==
    ASSUME NEW X, NEW s \in Seq(X), NEW v \in X
    PROVE  Range(Append(s, v)) = Range(s) \cup {v}
<1> DEFINE t == <<v>>
<1>1. Append(s, v) = s \o t /\ t \in Seq(X)
  BY AppendIsConcat
<1>2. Range(t) = {v}
  BY DEF Range
<1> HIDE DEF t
<1>3. Range(s \o t) = Range(s) \cup Range(t)
  BY <1>1, RangeJoined
<1> QED BY <1>1, <1>2, <1>3

(* A histogram that says of the values s what they are.                    *)
BucketValues(b) == {v \in Nat : IndexForValue(v) = b}
Histograms == [min : Nat, max : Nat, num : Nat, sum : 0..(Modulus - 1),
               sum_squares : 0..(Modulus - 1), buckets : [Buckets -> Nat]]

Describes(h, s) ==
    /\ h \in Histograms
    /\ s \in Seq(Values)
    /\ h.num = Len(s)
    /\ h.sum = Total(s) % Modulus
    /\ h.sum_squares = TotalSquares(s) % Modulus
    /\ \A b \in Buckets : h.buckets[b] = CountIn(s, BucketValues(b))
    /\ h.max \in Range(s) \cup {0} /\ \A v \in Range(s) : v <= h.max
    /\ h.min \in Range(s) \cup {BucketLimit(LastBucket)} /\ h.min <= BucketLimit(LastBucket)
    /\ \A v \in Range(s) : h.min <= v

(* They are naturals.                                                      *)
LEMMA RangeIsNat == ASSUME NEW s \in Seq(Values) PROVE \A w \in Range(s) : w \in Nat
<1> SUFFICES ASSUME NEW w \in Range(s) PROVE w \in Nat
  OBVIOUS
<1>1. PICK i \in DOMAIN s : s[i] = w
  BY DEF Range
<1>2. s[i] \in Values
  BY <1>1
<1>3. Values \subseteq 0 .. Modulus - 1 /\ Modulus \in Nat
  BY HistogramParameters
<1>4. w \in 0 .. Modulus - 1
  BY <1>1, <1>2, <1>3
<1>5. \A x \in 0 .. Modulus - 1 : x \in Nat
  BY <1>3
<1> QED BY <1>4, <1>5

(* The larger of two maxima is that of both sets,                          *)
LEMMA LargestOf ==
    ASSUME NEW R, NEW T, \A w \in R \cup T : w \in Nat,
           NEW a \in Nat, a \in R \cup {0}, \A w \in R : w <= a,
           NEW b \in Nat, b \in T \cup {0}, \A w \in T : w <= b,
           NEW m, m = IF b > a THEN b ELSE a
    PROVE  /\ m \in R \cup T \cup {0} /\ m \in Nat
           /\ \A w \in R \cup T : w <= m
<1>1. CASE b > a
  BY <1>1
<1>2. CASE ~(b > a)
  BY <1>2
<1> QED BY <1>1, <1>2

(* and so is the smaller of two minima.                                    *)
LEMMA SmallestOf ==
    ASSUME NEW R, NEW T, \A w \in R \cup T : w \in Nat, NEW l \in Nat,
           NEW a \in Nat, a \in R \cup {l}, a <= l, \A w \in R : a <= w,
           NEW b \in Nat, b \in T \cup {l}, b <= l, \A w \in T : b <= w,
           NEW m, m = IF b < a THEN b ELSE a
    PROVE  /\ m \in R \cup T \cup {l} /\ m \in Nat /\ m <= l
           /\ \A w \in R \cup T : m <= w
<1>1. CASE b < a
  BY <1>1
<1>2. CASE ~(b < a)
  BY <1>2
<1> QED BY <1>1, <1>2

(* Clear, Add and Merge: what the histogram says stays true.               *)
LEMMA ClearDescribes == Describes(Clear, <<>>)
<1>1. Modulus \in Nat /\ Modulus > 0 /\ 0 \in 0 .. Modulus - 1 /\ 0 % Modulus = 0
  BY HistogramParameters
<1>2. LastBucket \in Buckets
  BY HistogramParameters DEF Buckets, LastBucket
<1>3. BucketLimit(LastBucket) \in Nat
  BY <1>2, LimitsAre
<1>4. Clear \in Histograms
  BY <1>1, <1>3 DEF Clear, Histograms
<1>5. \A b \in Buckets : CountIn(<<>>, BucketValues(b)) = 0
  BY CountOfNone
<1>6. Len(<<>>) = 0 /\ Range(<<>>) = {} /\ <<>> \in Seq(Values)
  BY DEF Range
<1>7. Total(<<>>) = 0 /\ TotalSquares(<<>>) = 0
  <2>1. 0 \in Nat /\ \A i \in 1 .. 0 : FALSE
    OBVIOUS
  <2>2. \A f : SumTo(f, 0) = 0
    BY <2>1, SumToIs
  <2> QED BY <1>6, <2>2 DEF Total, TotalSquares
<1> QED BY <1>1, <1>3, <1>4, <1>5, <1>6, <1>7 DEF Describes, Clear

(* Adding a value touches one bucket, its own.                             *)
LEMMA AddedDescribes ==
    ASSUME NEW h, NEW s, Describes(h, s), NEW v \in Values
    PROVE  Describes(Added(h, v), Append(s, v))
<1> DEFINE g == Added(h, v)
           t == Append(s, v)
           c == IndexForValue(v)
<1>1. h \in Histograms /\ s \in Seq(Values) /\ h.num = Len(s) /\ v \in Nat /\ v * v \in Nat
      /\ Modulus \in Nat /\ Modulus > 0
  BY HistogramParameters DEF Describes
<1>2. c \in Buckets
  BY <1>1, IndexIs
<1>3. /\ t \in Seq(Values) /\ Len(t) = Len(s) + 1 /\ Len(s) \in Nat
      /\ Total(t) = Total(s) + v /\ TotalSquares(t) = TotalSquares(s) + v * v
      /\ Range(t) = Range(s) \cup {v}
      /\ Total(s) \in Nat /\ TotalSquares(s) \in Nat
  BY <1>1, AppendProperties, TotalsAppended, RangeAppended, TotalsAre
<1>4. \A b \in Buckets : CountIn(t, BucketValues(b)) =
          CountIn(s, BucketValues(b)) + (IF v \in BucketValues(b) THEN 1 ELSE 0)
  BY <1>1, CountAppended
<1>5. \A b \in Buckets : v \in BucketValues(b) <=> b = c
  BY <1>1 DEF BucketValues
<1> HIDE DEF t, c
<1>6. /\ g.num = h.num + 1
      /\ g.sum = (h.sum + v) % Modulus
      /\ g.sum_squares = (h.sum_squares + v * v) % Modulus
      /\ g.min = IF v < h.min THEN v ELSE h.min
      /\ g.max = IF v > h.max THEN v ELSE h.max
      /\ g.buckets = [h.buckets EXCEPT ![c] = @ + 1]
      /\ DOMAIN g = {"min", "max", "num", "sum", "sum_squares", "buckets"}
      /\ g = [min |-> g.min, max |-> g.max, num |-> g.num, sum |-> g.sum,
              sum_squares |-> g.sum_squares, buckets |-> g.buckets]
  <2> DEFINE mn == IF v < h.min THEN v ELSE h.min
             mx == IF v > h.max THEN v ELSE h.max
             n == h.num + 1
             sm == (h.sum + v) % Modulus
             sq == (h.sum_squares + v * v) % Modulus
             bs == [h.buckets EXCEPT ![c] = @ + 1]
  <2>1. g = [h EXCEPT !.buckets = bs, !.min = mn, !.max = mx, !.num = n,
                      !.sum = sm, !.sum_squares = sq]
    BY DEF Added, c
  <2> HIDE DEF g, mn, mx, n, sm, sq, bs
  <2>2. DOMAIN h = {"min", "max", "num", "sum", "sum_squares", "buckets"}
    BY <1>1 DEF Histograms
  <2>3. g = [min |-> mn, max |-> mx, num |-> n, sum |-> sm, sum_squares |-> sq, buckets |-> bs]
    BY <1>1, <2>1 DEF Histograms
  <2>4. /\ g.num = n /\ g.sum = sm /\ g.sum_squares = sq
        /\ g.min = mn /\ g.max = mx /\ g.buckets = bs
        /\ DOMAIN g = {"min", "max", "num", "sum", "sum_squares", "buckets"}
    BY <2>3
  <2>5. g = [min |-> g.min, max |-> g.max, num |-> g.num, sum |-> g.sum,
              sum_squares |-> g.sum_squares, buckets |-> g.buckets]
    BY <2>3, <2>4
  <2> QED BY <2>4, <2>5 DEF mn, mx, n, sm, sq, bs
<1> HIDE DEF g
<1>7. h.min \in Nat /\ h.max \in Nat /\ h.num \in Nat /\ h.sum \in Nat /\ h.sum_squares \in Nat
      /\ h.buckets \in [Buckets -> Nat]
  BY <1>1 DEF Histograms
<1>8. g.num = Len(t) /\ g.num \in Nat
  BY <1>1, <1>3, <1>6
<1>9. g.sum = Total(t) % Modulus
  BY <1>1, <1>3, <1>6, RemaindersAdd DEF Describes
<1>10. g.sum_squares = TotalSquares(t) % Modulus
  <2> DEFINE y == v * v
             x == TotalSquares(s)
  <2>1. x \in Nat /\ y \in Nat
    BY <1>1, <1>3
  <2>2. h.sum_squares = x % Modulus /\ TotalSquares(t) = x + y
        /\ g.sum_squares = (h.sum_squares + y) % Modulus
    BY <1>3, <1>6 DEF Describes
  <2> HIDE DEF x, y
  <2>3. ((x % Modulus) + y) % Modulus = (x + y) % Modulus
    BY <1>1, <2>1, RemaindersAdd
  <2> QED BY <2>2, <2>3 DEF x
<1>11. g.sum \in 0 .. Modulus - 1 /\ g.sum_squares \in 0 .. Modulus - 1
  <2>1. Total(t) \in Nat /\ TotalSquares(t) \in Nat
    BY <1>3, TotalsAre
  <2>2. /\ Total(t) % Modulus \in Nat /\ Total(t) % Modulus < Modulus
        /\ TotalSquares(t) % Modulus \in Nat /\ TotalSquares(t) % Modulus < Modulus
    BY <1>1, <2>1, DivisionIs
  <2> QED BY <1>1, <1>9, <1>10, <2>2
<1>12. \A b \in Buckets : g.buckets[b] = CountIn(t, BucketValues(b))
  <2> TAKE b \in Buckets
  <2>1. h.buckets[b] = CountIn(s, BucketValues(b)) /\ h.buckets[b] \in Nat
    BY <1>7 DEF Describes
  <2>2. g.buckets[b] = h.buckets[b] + (IF b = c THEN 1 ELSE 0)
    BY <1>6, <1>7, <2>1
  <2>3. CountIn(t, BucketValues(b)) = CountIn(s, BucketValues(b)) + (IF b = c THEN 1 ELSE 0)
    BY <1>4, <1>5
  <2> QED BY <2>1, <2>2, <2>3
<1>13. g.buckets \in [Buckets -> Nat]
  BY <1>2, <1>6, <1>7
<1>14. \A w \in Range(s) : w \in Nat
  BY <1>1, RangeIsNat
<1>15. g.max \in Range(t) \cup {0} /\ (\A w \in Range(t) : w <= g.max) /\ g.max \in Nat
  <2>1. h.max \in Range(s) \cup {0} /\ \A w \in Range(s) : w <= h.max
    BY DEF Describes
  <2> DEFINE R == Range(s)
  <2>2. \A w \in R : w \in Nat
    BY <1>14
  <2>3. Range(t) = R \cup {v} /\ v \in Nat
    BY <1>1, <1>3
  <2>4. h.max \in Nat /\ g.max = IF v > h.max THEN v ELSE h.max
    BY <1>6, <1>7
  <2> DEFINE a == h.max
             m == g.max
  <2>5. a \in Nat /\ a \in R \cup {0} /\ (\A w \in R : w <= a) /\ m = IF v > a THEN v ELSE a
    BY <2>1, <2>4
  <2> HIDE DEF R, a, m
  <2>6. m \in R \cup {v} \cup {0} /\ m \in Nat /\ \A w \in R \cup {v} : w <= m
    <3>1. CASE v > a
      BY <2>2, <2>3, <2>5, <3>1
    <3>2. CASE ~(v > a)
      BY <2>2, <2>3, <2>5, <3>2
    <3> QED BY <3>1, <3>2
  <2> QED BY <2>3, <2>6 DEF m
<1>16. /\ g.min \in Range(t) \cup {BucketLimit(LastBucket)} /\ g.min <= BucketLimit(LastBucket)
       /\ \A w \in Range(t) : g.min <= w
       /\ g.min \in Nat
  <2>1. /\ h.min \in Range(s) \cup {BucketLimit(LastBucket)} /\ h.min <= BucketLimit(LastBucket)
        /\ \A w \in Range(s) : h.min <= w
    BY DEF Describes
  <2>2. LastBucket \in Buckets
    BY HistogramParameters DEF Buckets, LastBucket
  <2>3. BucketLimit(LastBucket) \in Nat
    BY <2>2, LimitsAre
  <2> DEFINE R == Range(s)
             a == h.min
             m == g.min
             l == BucketLimit(LastBucket)
  <2>4. \A w \in R : w \in Nat
    BY <1>14
  <2>5. Range(t) = R \cup {v} /\ v \in Nat
    BY <1>1, <1>3
  <2>6. /\ a \in Nat /\ a \in R \cup {l} /\ a <= l /\ (\A w \in R : a <= w)
        /\ m = IF v < a THEN v ELSE a
    BY <1>6, <1>7, <2>1
  <2>7. l \in Nat
    BY <2>3
  <2> HIDE DEF R, a, m, l
  <2>8. m \in R \cup {v} \cup {l} /\ m \in Nat /\ m <= l /\ \A w \in R \cup {v} : m <= w
    <3>1. CASE v < a
      BY <2>4, <2>5, <2>6, <2>7, <3>1
    <3>2. CASE ~(v < a)
      BY <2>4, <2>5, <2>6, <2>7, <3>2
    <3> QED BY <3>1, <3>2
  <2> QED BY <2>5, <2>8 DEF m, l
<1>17. g \in Histograms
  BY <1>6, <1>8, <1>11, <1>13, <1>15, <1>16 DEF Histograms
<1> QED BY <1>3, <1>8, <1>9, <1>10, <1>12, <1>15, <1>16, <1>17 DEF Describes, g, t

(* Merging adds the counters and takes the outer of the extremes.          *)
LEMMA MergedDescribes ==
    ASSUME NEW h, NEW s, Describes(h, s), NEW k, NEW r, Describes(k, r)
    PROVE  Describes(Merged(h, k), s \o r)
<1> DEFINE g == Merged(h, k)
           t == s \o r
<1>1. /\ h \in Histograms /\ s \in Seq(Values) /\ h.num = Len(s)
      /\ k \in Histograms /\ r \in Seq(Values) /\ k.num = Len(r)
      /\ Modulus \in Nat /\ Modulus > 0
  BY HistogramParameters DEF Describes
<1>2. /\ t \in Seq(Values) /\ Len(t) = Len(s) + Len(r) /\ Len(s) \in Nat /\ Len(r) \in Nat
      /\ Total(t) = Total(s) + Total(r)
      /\ TotalSquares(t) = TotalSquares(s) + TotalSquares(r)
      /\ Range(t) = Range(s) \cup Range(r)
      /\ Total(s) \in Nat /\ TotalSquares(s) \in Nat
      /\ Total(r) \in Nat /\ TotalSquares(r) \in Nat
  BY <1>1, ConcatProperties, TotalsJoined, RangeJoined, TotalsAre
<1>3. \A b \in Buckets : CountIn(t, BucketValues(b)) =
          CountIn(s, BucketValues(b)) + CountIn(r, BucketValues(b))
  BY <1>1, CountJoined
<1> HIDE DEF t
<1>4. /\ g.num = h.num + k.num
      /\ g.sum = (h.sum + k.sum) % Modulus
      /\ g.sum_squares = (h.sum_squares + k.sum_squares) % Modulus
      /\ g.min = IF k.min < h.min THEN k.min ELSE h.min
      /\ g.max = IF k.max > h.max THEN k.max ELSE h.max
      /\ g.buckets = [b \in Buckets |-> h.buckets[b] + k.buckets[b]]
      /\ g = [min |-> g.min, max |-> g.max, num |-> g.num, sum |-> g.sum,
              sum_squares |-> g.sum_squares, buckets |-> g.buckets]
  BY DEF Merged
<1> HIDE DEF g
<1>5. /\ h.min \in Nat /\ h.max \in Nat /\ h.num \in Nat /\ h.sum \in Nat /\ h.sum_squares \in Nat
      /\ h.buckets \in [Buckets -> Nat]
      /\ k.min \in Nat /\ k.max \in Nat /\ k.num \in Nat /\ k.sum \in Nat /\ k.sum_squares \in Nat
      /\ k.buckets \in [Buckets -> Nat]
  BY <1>1 DEF Histograms
<1>6. g.num = Len(t) /\ g.num \in Nat
  BY <1>1, <1>2, <1>4
<1>7. g.sum = Total(t) % Modulus /\ g.sum_squares = TotalSquares(t) % Modulus
  <2>1. \A x, y \in Nat : ((x % Modulus) + (y % Modulus)) % Modulus = (x + y) % Modulus
    <3> TAKE x, y \in Nat
    <3> DEFINE z == y % Modulus
    <3>1. z \in Nat
      BY <1>1, DivisionIs
    <3>2. (z + x) % Modulus = (y + x) % Modulus
      BY <1>1, RemaindersAdd
    <3> HIDE DEF z
    <3>3. ((x % Modulus) + z) % Modulus = (x + z) % Modulus
      BY <1>1, <3>1, RemaindersAdd
    <3>4. x + z = z + x /\ x + y = y + x
      BY <3>1
    <3>5. ((x % Modulus) + z) % Modulus = (x + y) % Modulus
      BY <3>2, <3>3, <3>4
    <3> QED BY <3>5 DEF z
  <2>2. /\ h.sum = Total(s) % Modulus /\ k.sum = Total(r) % Modulus
        /\ h.sum_squares = TotalSquares(s) % Modulus /\ k.sum_squares = TotalSquares(r) % Modulus
    BY DEF Describes
  <2> QED BY <1>2, <1>4, <2>1, <2>2
<1>8. g.sum \in 0 .. Modulus - 1 /\ g.sum_squares \in 0 .. Modulus - 1
  <2>1. Total(t) \in Nat /\ TotalSquares(t) \in Nat
    BY <1>2, TotalsAre
  <2>2. /\ Total(t) % Modulus \in Nat /\ Total(t) % Modulus < Modulus
        /\ TotalSquares(t) % Modulus \in Nat /\ TotalSquares(t) % Modulus < Modulus
    BY <1>1, <2>1, DivisionIs
  <2> QED BY <1>1, <1>7, <2>2
<1>9. \A b \in Buckets : g.buckets[b] = CountIn(t, BucketValues(b))
  BY <1>3, <1>4 DEF Describes
<1>10. g.buckets \in [Buckets -> Nat]
  <2>1. \A b \in Buckets : h.buckets[b] + k.buckets[b] \in Nat
    BY <1>5
  <2> QED BY <1>4, <2>1
<1>11. \A w \in Range(s) \cup Range(r) : w \in Nat
  BY <1>1, RangeIsNat
<1>12. g.max \in Range(t) \cup {0} /\ (\A w \in Range(t) : w <= g.max) /\ g.max \in Nat
  <2>1. /\ h.max \in Range(s) \cup {0} /\ \A w \in Range(s) : w <= h.max
        /\ k.max \in Range(r) \cup {0} /\ \A w \in Range(r) : w <= k.max
    BY DEF Describes
  <2> DEFINE R == Range(s)
             T == Range(r)
             a == h.max
             b == k.max
             m == g.max
  <2>2. (\A w \in R \cup T : w \in Nat) /\ Range(t) = R \cup T
    BY <1>2, <1>11
  <2>3. /\ a \in Nat /\ a \in R \cup {0} /\ (\A w \in R : w <= a)
        /\ b \in Nat /\ b \in T \cup {0} /\ (\A w \in T : w <= b)
        /\ m = IF b > a THEN b ELSE a
    BY <1>4, <1>5, <2>1
  <2> HIDE DEF R, T, a, b, m
  <2>4. m \in R \cup T \cup {0} /\ m \in Nat /\ \A w \in R \cup T : w <= m
    BY <2>2, <2>3, LargestOf
  <2> QED BY <2>2, <2>4 DEF m
<1>13. /\ g.min \in Range(t) \cup {BucketLimit(LastBucket)} /\ g.min <= BucketLimit(LastBucket)
       /\ \A w \in Range(t) : g.min <= w
       /\ g.min \in Nat
  <2>1. /\ h.min \in Range(s) \cup {BucketLimit(LastBucket)} /\ h.min <= BucketLimit(LastBucket)
        /\ \A w \in Range(s) : h.min <= w
        /\ k.min \in Range(r) \cup {BucketLimit(LastBucket)} /\ k.min <= BucketLimit(LastBucket)
        /\ \A w \in Range(r) : k.min <= w
    BY DEF Describes
  <2>2. LastBucket \in Buckets
    BY HistogramParameters DEF Buckets, LastBucket
  <2>3. BucketLimit(LastBucket) \in Nat
    BY <2>2, LimitsAre
  <2> DEFINE R == Range(s)
             T == Range(r)
             a == h.min
             b == k.min
             m == g.min
             l == BucketLimit(LastBucket)
  <2>4. (\A w \in R \cup T : w \in Nat) /\ Range(t) = R \cup T /\ l \in Nat
    BY <1>2, <1>11, <2>3
  <2>5. /\ a \in Nat /\ a \in R \cup {l} /\ a <= l /\ (\A w \in R : a <= w)
        /\ b \in Nat /\ b \in T \cup {l} /\ b <= l /\ (\A w \in T : b <= w)
        /\ m = IF b < a THEN b ELSE a
    BY <1>4, <1>5, <2>1
  <2> HIDE DEF R, T, a, b, m, l
  <2>6. m \in R \cup T \cup {l} /\ m \in Nat /\ m <= l /\ \A w \in R \cup T : m <= w
    BY <2>4, <2>5, SmallestOf
  <2> QED BY <2>4, <2>6 DEF m, l
<1>14. g \in Histograms
  BY <1>4, <1>6, <1>8, <1>10, <1>12, <1>13 DEF Histograms
<1> QED BY <1>2, <1>6, <1>7, <1>9, <1>12, <1>13, <1>14 DEF Describes, g, t

(* Each owner's histogram describes the values added to it, or to those    *)
(* merged into it.                                                         *)
HistInductive ==
    /\ hist \in [Owners -> Histograms]
    /\ added \in [Owners -> Seq(Values)]
    /\ merged \subseteq Owners
    /\ \A o \in Owners : Describes(hist[o], added[o])

(* The steps keep the inductive invariant.                                 *)
LEMMA AddKeeps ==
    ASSUME HistInductive, NEW o \in Owners, Add(o)
    PROVE  HistInductive'
<1>1. PICK v \in Values : /\ hist' = [hist EXCEPT ![o] = Added(@, v)]
                          /\ added' = [added EXCEPT ![o] = Append(@, v)]
  BY DEF Add
<1> DEFINE g == Added(hist[o], v)
           t == Append(added[o], v)
<1>2. Describes(g, t)
  BY AddedDescribes DEF HistInductive
<1>3. g \in Histograms /\ t \in Seq(Values)
  BY <1>2 DEF Describes
<1>4. hist' = [hist EXCEPT ![o] = g] /\ added' = [added EXCEPT ![o] = t] /\ merged' = merged
  BY <1>1 DEF Add
<1> HIDE DEF g, t
<1> QED BY <1>2, <1>3, <1>4 DEF HistInductive

(* A merge leaves the histogram that was merged as it was.                 *)
LEMMA MergeKeeps ==
    ASSUME HistInductive, NEW o \in Owners, NEW other \in Owners, Merge(o, other)
    PROVE  HistInductive'
<1> DEFINE g == Merged(hist[o], hist[other])
           t == added[o] \o added[other]
<1>1. hist' = [hist EXCEPT ![o] = g] /\ added' = [added EXCEPT ![o] = t]
      /\ merged' = merged \cup {other}
  BY DEF Merge
<1>2. Describes(g, t)
  BY MergedDescribes DEF HistInductive
<1>3. g \in Histograms /\ t \in Seq(Values)
  BY <1>2 DEF Describes
<1> HIDE DEF g, t
<1> QED BY <1>1, <1>2, <1>3 DEF HistInductive

(* Filled by one thread or merged from several, a histogram counts its     *)
(* values, their sum and squares within the width of its counters, their   *)
(* extremes and, bucket by bucket, where they are.                         *)
THEOREM HistogramsInvariant == Spec => []HistInductive
<1>1. Init => HistInductive
  <2> SUFFICES ASSUME Init PROVE HistInductive
    OBVIOUS
  <2>1. Clear \in Histograms /\ <<>> \in Seq(Values)
    BY ClearDescribes DEF Describes
  <2>2. hist = [o \in Owners |-> Clear] /\ added = [o \in Owners |-> <<>>] /\ merged = {}
    BY DEF Init
  <2> QED BY <2>1, <2>2, ClearDescribes DEF HistInductive
<1>2. HistInductive /\ [Next]_vars => HistInductive'
  <2> SUFFICES ASSUME HistInductive, [Next]_vars PROVE HistInductive'
    OBVIOUS
  <2>1. ASSUME NEW o \in Owners, Add(o) PROVE HistInductive'
    BY <2>1, AddKeeps
  <2>2. ASSUME NEW o \in Owners, NEW other \in Owners, Merge(o, other) PROVE HistInductive'
    BY <2>2, MergeKeeps
  <2>3. CASE UNCHANGED vars
    BY <2>3 DEF vars, HistInductive
  <2> QED BY <2>1, <2>2, <2>3 DEF Next
<1> QED BY <1>1, <1>2, PTL DEF Spec
------------------------------------------------------------------------------
(* What a histogram says of the values it describes.                       *)
LEMMA LargestIs ==
    ASSUME NEW S, S \subseteq Nat, NEW m \in S, \A w \in S : w <= m
    PROVE  Max(S) = m
<1>1. \A k \in S : (\A y \in S : k >= y) => k = m
  <2>1. \A k \in S : k \in Nat /\ m \in Nat
    OBVIOUS
  <2> QED BY <2>1
<1>2. \A y \in S : m >= y
  OBVIOUS
<1> QED BY <1>1, <1>2 DEF Max

(* And the minimum is the least element.                                   *)
LEMMA LeastIs ==
    ASSUME NEW S, S \subseteq Nat, NEW m \in S, \A w \in S : m <= w
    PROVE  Min(S) = m
<1>1. \A k \in S : (\A y \in S : k <= y) => k = m
  <2>1. \A k \in S : k \in Nat /\ m \in Nat
    OBVIOUS
  <2> QED BY <2>1
<1> QED BY <1>1 DEF Min

(* A sequence that is not empty has a value.                               *)
LEMMA HasAnElement ==
    ASSUME NEW s \in Seq(Values), s # <<>>
    PROVE  \E w \in Range(s) : TRUE
<1>1. 1 \in DOMAIN s
  OBVIOUS
<1>2. s[1] \in Range(s)
  BY <1>1 DEF Range
<1> QED BY <1>2

(* What describes a sequence has its number, sum, counts and extremes.     *)
LEMMA CountsAre ==
    ASSUME NEW h, NEW s, Describes(h, s)
    PROVE  /\ h.num = Len(s)
           /\ h.sum = SumFunction(s) % Modulus
           /\ \A b \in Buckets :
                 h.buckets[b] = Occurrences(s, LAMBDA v : Belongs(v, b))
           /\ s # <<>> =>
                 /\ h.max = Max(Range(s))
                 /\ h.min = Min(Range(s) \cup {BucketLimit(LastBucket)})
<1>1. s \in Seq(Values) /\ h.num = Len(s) /\ h.sum = Total(s) % Modulus
  BY DEF Describes
<1>2. h.sum = SumFunction(s) % Modulus
  BY <1>1, TotalsAre
<1>3. \A i \in DOMAIN s : s[i] \in Nat
  BY <1>1, TotalsAre
<1>4. ASSUME NEW b \in Buckets
      PROVE  h.buckets[b] = Occurrences(s, LAMBDA v : Belongs(v, b))
  <2>1. \A i \in DOMAIN s : s[i] \in BucketValues(b) <=> Belongs(s[i], b)
    BY <1>3, IndexIs DEF BucketValues
  <2>2. PlacesOf(s, BucketValues(b)) = {i \in DOMAIN s : Belongs(s[i], b)}
    BY <2>1 DEF PlacesOf
  <2>3. h.buckets[b] = CountIn(s, BucketValues(b))
    BY DEF Describes
  <2> QED BY <2>2, <2>3 DEF Occurrences, CountIn
<1>5. ASSUME s # <<>> PROVE h.max = Max(Range(s)) /\ h.min = Min(Range(s) \cup {BucketLimit(LastBucket)})
  <2> DEFINE R == Range(s)
             l == BucketLimit(LastBucket)
             a == h.max
             b == h.min
  <2>1. R \subseteq Nat /\ \E w \in R : TRUE
    BY <1>1, <1>5, RangeIsNat, HasAnElement
  <2>2. LastBucket \in Buckets
    BY HistogramParameters DEF Buckets, LastBucket
  <2>3. l \in Nat
    BY <2>2, LimitsAre
  <2>4. /\ a \in R \cup {0} /\ \A w \in R : w <= a
        /\ b \in R \cup {l} /\ b <= l /\ \A w \in R : b <= w
    BY DEF Describes
  <2> HIDE DEF R, l, a, b
  <2>5. a \in R
    <3>1. PICK w \in R : TRUE
      BY <2>1
    <3>2. w \in Nat /\ w <= a
      BY <2>1, <2>4
    <3>3. a = 0 => w = 0
      BY <3>2
    <3> QED BY <2>4, <3>1, <3>3
  <2>6. Max(R) = a
    BY <2>1, <2>4, <2>5, LargestIs
  <2>7. Min(R \cup {l}) = b
    <3>1. R \cup {l} \subseteq Nat /\ \A w \in R \cup {l} : b <= w
      BY <2>1, <2>3, <2>4
    <3> QED BY <2>4, <3>1, LeastIs
  <2> QED BY <2>6, <2>7 DEF R, l, a, b
<1> QED BY <1>1, <1>2, <1>4, <1>5

------------------------------------------------------------------------------
(* Percentiles                                                             *)
UpTo(b) == {v \in Nat : IndexForValue(v) <= b}

(* The sum of the first buckets counts the values they are for.            *)
LEMMA CumulativeIs ==
    ASSUME NEW h, NEW s, Describes(h, s)
    PROVE  /\ \A b \in Buckets : /\ CumulativeSum(h, b) = CountIn(s, UpTo(b))
                                 /\ CumulativeSum(h, b) \in Nat /\ h.buckets[b] \in Nat
           /\ CumulativeSum(h, 0) = h.buckets[0]
           /\ \A b \in Buckets : b # 0 => CumulativeSum(h, b) = CumulativeSum(h, b - 1) + h.buckets[b]
           /\ CumulativeSum(h, LastBucket) = Len(s)
<1> DEFINE f == h.buckets
           C(b) == SumFunctionOnSet(f, 0 .. b)
<1>1. /\ s \in Seq(Values) /\ f \in [Buckets -> Nat]
      /\ \A b \in Buckets : f[b] = CountIn(s, BucketValues(b)) /\ f[b] \in Nat
  BY DEF Describes, Histograms
<1>2. /\ NumBuckets \in Nat /\ NumBuckets > 1 /\ LastBucket = NumBuckets - 1
      /\ Buckets = 0 .. LastBucket /\ LastBucket \in Buckets /\ 0 \in Buckets
      /\ LastBucket \in Nat
  BY HistogramParameters DEF Buckets, LastBucket
<1> HIDE DEF f
<1>3. \A b \in Buckets : IsSummable(f, 0 .. b)
  <2> TAKE b \in Buckets
  <2>1. IsFiniteSet(0 .. b)
    BY <1>2, FS_Interval
  <2>2. \A x \in 0 .. b : f[x] \in Int
    BY <1>1, <1>2
  <2> QED BY <2>1, <2>2 DEF IsSummable
<1>4. C(0) = f[0]
  <2> DEFINE T == {}
  <2>1. IsSummable(f, T) /\ SumFunctionOnSet(f, T) = 0
    BY SumOfNone, FS_EmptySet DEF IsSummable
  <2> DEFINE z == 0
  <2>2. 0 .. 0 = T \cup {z} /\ z \notin T /\ f[z] \in Int
    BY <1>1, <1>2
  <2> HIDE DEF T, z
  <2>3. SumFunctionOnSet(f, T \cup {z}) = SumFunctionOnSet(f, T) + f[z]
    BY <2>1, <2>2, SumOfOneMore
  <2>4. SumFunctionOnSet(f, T \cup {z}) = f[z]
    BY <2>1, <2>2, <2>3
  <2> QED BY <2>2, <2>4 DEF z
<1>5. ASSUME NEW b \in Buckets, b # 0 PROVE C(b) = C(b - 1) + f[b]
  <2> DEFINE T == 0 .. (b - 1)
  <2>1. 0 .. b = T \cup {b} /\ b \notin T /\ b - 1 \in Buckets /\ f[b] \in Int
    BY <1>1, <1>2, <1>5
  <2>2. IsSummable(f, T)
    BY <1>3, <2>1
  <2> HIDE DEF T
  <2>3. SumFunctionOnSet(f, T \cup {b}) = SumFunctionOnSet(f, T) + f[b]
    BY <2>1, <2>2, SumOfOneMore
  <2> QED BY <2>1, <2>3 DEF T
<1>6. \A i \in DOMAIN s : s[i] \in Nat /\ IndexForValue(s[i]) \in Buckets
  BY <1>1, TotalsAre, IndexIs, SMTT(30)
<1> DEFINE P == {b \in Nat : b \in Buckets => C(b) = CountIn(s, UpTo(b))}
<1>7. 0 \in P
  <2>1. \A i \in DOMAIN s : s[i] \in UpTo(0) <=> s[i] \in BucketValues(0)
    <3> TAKE i \in DOMAIN s
    <3> DEFINE k == IndexForValue(s[i])
    <3>1. s[i] \in Nat /\ k \in Nat
      BY <1>2, <1>6
    <3>2. k <= 0 <=> k = 0
      BY <3>1
    <3> QED BY <3>1, <3>2 DEF UpTo, BucketValues
  <2>2. PlacesOf(s, UpTo(0)) = PlacesOf(s, BucketValues(0))
    BY <2>1 DEF PlacesOf
  <2> QED BY <1>1, <1>2, <1>4, <2>2 DEF CountIn
<1>8. ASSUME NEW b \in Nat, b \in P PROVE b + 1 \in P
  <2> SUFFICES ASSUME b + 1 \in Buckets PROVE C(b + 1) = CountIn(s, UpTo(b + 1))
    OBVIOUS
  <2> DEFINE n == b + 1
  <2>1. n \in Buckets /\ n # 0 /\ n - 1 = b /\ b \in Buckets /\ n \in Nat
    BY <1>2
  <2> HIDE DEF n
  <2>2. C(n) = C(b) + f[n]
    <3>1. C(n) = C(n - 1) + f[n]
      BY <1>5, <2>1
    <3> QED BY <2>1, <3>1
  <2>3. C(b) = CountIn(s, UpTo(b))
    BY <1>8, <2>1
  <2> HIDE DEF C
  <2>4. /\ \A i \in DOMAIN s : ~(s[i] \in UpTo(b) /\ s[i] \in BucketValues(n))
        /\ \A i \in DOMAIN s : s[i] \in UpTo(n) <=> s[i] \in UpTo(b) \/ s[i] \in BucketValues(n)
    <3>1. ASSUME NEW i \in DOMAIN s
          PROVE  /\ ~(s[i] \in UpTo(b) /\ s[i] \in BucketValues(n))
                 /\ s[i] \in UpTo(n) <=> s[i] \in UpTo(b) \/ s[i] \in BucketValues(n)
      <4> DEFINE k == IndexForValue(s[i])
      <4>1. s[i] \in Nat /\ k \in Nat
        BY <1>2, <1>6
      <4>2. /\ s[i] \in UpTo(b) <=> k <= b
            /\ s[i] \in UpTo(n) <=> k <= n
            /\ s[i] \in BucketValues(n) <=> k = n
        BY <4>1 DEF UpTo, BucketValues
      <4> HIDE DEF k
      <4>3. ~(k <= b /\ k = n) /\ (k <= n <=> k <= b \/ k = n)
        BY <2>1, <4>1
      <4> QED BY <4>2, <4>3
    <3> QED BY <3>1
  <2> DEFINE V == UpTo(b)
             W == BucketValues(n)
             U == UpTo(n)
  <2>5. CountIn(s, U) = CountIn(s, V) + CountIn(s, W)
    <3> HIDE DEF V, W, U
    <3>1. /\ \A i \in DOMAIN s : ~(s[i] \in V /\ s[i] \in W)
          /\ \A i \in DOMAIN s : s[i] \in U <=> s[i] \in V \/ s[i] \in W
      BY <2>4 DEF V, W, U
    <3> QED BY <1>1, <3>1, CountOfEither
  <2>6. f[n] = CountIn(s, W)
    BY <1>1, <2>1
  <2>7. C(n) = CountIn(s, U)
    BY <2>2, <2>3, <2>5, <2>6
  <2> QED BY <2>7 DEF n
<1>9. Nat \subseteq P
  <2> HIDE DEF P
  <2> QED BY <1>7, <1>8, InductionOnNat
<1>10. \A b \in Buckets : C(b) = CountIn(s, UpTo(b)) /\ C(b) \in Nat
  <2> TAKE b \in Buckets
  <2>1. C(b) = CountIn(s, UpTo(b))
    BY <1>2, <1>9
  <2>2. CountIn(s, UpTo(b)) \in Nat
    BY <1>1, CountIsNat
  <2> QED BY <2>1, <2>2
<1>11. C(LastBucket) = Len(s)
  <2>1. \A i \in DOMAIN s : s[i] \in UpTo(LastBucket)
    BY <1>2, <1>6 DEF UpTo
  <2>2. CountIn(s, UpTo(LastBucket)) = Len(s)
    BY <1>1, <2>1, CountOfAll
  <2> QED BY <1>2, <1>10, <2>2
<1>12. \A b : CumulativeSum(h, b) = C(b)
  BY DEF CumulativeSum, f
<1> HIDE DEF C
<1> QED BY <1>1, <1>4, <1>5, <1>10, <1>11, <1>12 DEF f

(* A larger value is in no earlier bucket.                                 *)
LEMMA IndexGrows ==
    ASSUME NEW v \in Nat, NEW w \in Nat, v <= w
    PROVE  IndexForValue(v) <= IndexForValue(w)
<1> DEFINE i == IndexForValue(v)
           j == IndexForValue(w)
<1>1. /\ i \in Buckets /\ j \in Buckets /\ Belongs(v, i) /\ Belongs(w, j)
  BY IndexIs
<1>2. Buckets = 0 .. LastBucket /\ LastBucket \in Nat
  BY HistogramParameters DEF Buckets, LastBucket
<1> HIDE DEF i, j
<1>3. ASSUME j < i PROVE FALSE
  <2>1. i # 0 /\ j # LastBucket /\ i - 1 \in Buckets /\ j <= i - 1 /\ i \in Int /\ j \in Int
    BY <1>1, <1>2, <1>3
  <2>2. v > BucketLimit(i - 1) /\ w <= BucketLimit(j)
    BY <1>1, <2>1 DEF Belongs
  <2>3. BucketLimit(j) <= BucketLimit(i - 1)
    <3>1. CASE j = i - 1
      BY <1>1, <3>1, LimitsAre
    <3>2. CASE j < i - 1
      <4>1. BucketLimit(j) < BucketLimit(i - 1)
        BY <1>1, <2>1, <3>2, LimitsGrow
      <4>2. BucketLimit(j) \in Nat /\ BucketLimit(i - 1) \in Nat
        BY <1>1, <2>1, LimitsAre
      <4> QED BY <4>1, <4>2
    <3> QED BY <2>1, <3>1, <3>2
  <2>4. BucketLimit(j) \in Nat /\ BucketLimit(i - 1) \in Nat
    BY <1>1, <2>1, LimitsAre
  <2> QED BY <2>2, <2>3, <2>4
<1>4. i \in Int /\ j \in Int
  BY <1>1, <1>2
<1> QED BY <1>3, <1>4 DEF i, j

(* The first bucket at whose end p percent of the values are passed.       *)
First(h, p) == Min(Reached(h, p))

(* There is one, and it is not empty: the loop of Percentile never divides *)
(* by a count of 0.                                                        *)
LEMMA FirstIs ==
    ASSUME NEW h, NEW s, Describes(h, s), s # <<>>, NEW p \in 1 .. 100
    PROVE  /\ Reached(h, p) # {}
           /\ First(h, p) \in Buckets
           /\ CumulativeSum(h, First(h, p)) * 100 >= Len(s) * p
           /\ \A k \in Buckets : CumulativeSum(h, k) * 100 >= Len(s) * p => First(h, p) <= k
           /\ h.buckets[First(h, p)] > 0
<1> DEFINE N == Len(s)
           C(b) == CumulativeSum(h, b)
           R == Reached(h, p)
           b == First(h, p)
<1>1. s \in Seq(Values) /\ h.num = N /\ N \in Nat /\ N > 0
  <2>1. s \in Seq(Values) /\ h.num = N
    BY DEF Describes
  <2> QED BY <2>1
<1>2. /\ Buckets = 0 .. LastBucket /\ LastBucket \in Buckets /\ 0 \in Buckets
      /\ LastBucket \in Nat
  BY HistogramParameters DEF Buckets, LastBucket
<1>3. /\ \A k \in Buckets : C(k) \in Nat /\ h.buckets[k] \in Nat
      /\ C(0) = h.buckets[0] /\ C(LastBucket) = N
      /\ \A k \in Buckets : k # 0 => C(k) = C(k - 1) + h.buckets[k]
  BY CumulativeIs
<1> HIDE DEF N, C
<1>4. p \in Nat /\ N * p <= N * 100 /\ N * p \in Nat /\ N * p > 0
  BY <1>1
<1> DEFINE Np == N * p
<1>5. R = {k \in Buckets : C(k) * 100 >= Np}
  BY <1>1 DEF Reached, C
<1>6. Np \in Nat /\ Np > 0 /\ Np <= N * 100
  BY <1>4
<1> HIDE DEF R, Np
<1>7. LastBucket \in R /\ R \subseteq Nat
  BY <1>1, <1>2, <1>3, <1>5, <1>6
<1>8. PICK m \in R : \A k \in R : m <= k
  BY <1>7, LeastExists
<1>9. b = m
  BY <1>7, <1>8, LeastIs DEF First, R
<1> HIDE DEF b
<1>10. b \in Buckets /\ C(b) * 100 >= Np /\ \A k \in Buckets : C(k) * 100 >= Np => b <= k
  BY <1>5, <1>8, <1>9
<1>11. h.buckets[b] > 0
  <2>1. CASE b = 0
    BY <1>1, <1>3, <1>6, <1>10, <2>1
  <2>2. CASE b # 0
    <3>1. b - 1 \in Buckets /\ b \in Int /\ ~(b <= b - 1)
      BY <1>2, <1>10, <2>2
    <3>2. C(b) = C(b - 1) + h.buckets[b] /\ C(b - 1) \in Nat /\ h.buckets[b] \in Nat
      BY <1>3, <1>10, <2>2, <3>1
    <3>3. ~(C(b - 1) * 100 >= Np)
      BY <1>10, <3>1
    <3>4. C(b) # C(b - 1)
      BY <1>10, <3>3
    <3> QED BY <3>2, <3>4
  <2> QED BY <2>1, <2>2
<1> QED BY <1>7, <1>10, <1>11 DEF N, C, R, Np, b

(* A bounded set of naturals has a greatest element.                       *)
LEMMA GreatestExists ==
    ASSUME NEW T, T \subseteq Nat, T # {}, NEW n \in Nat, \A k \in T : k <= n
    PROVE  \E m \in T : \A k \in T : k <= m
<1> DEFINE U == {n - k : k \in T}
<1>1. U \subseteq Nat /\ U # {}
  <2>1. ASSUME NEW k \in T PROVE n - k \in Nat
    <3>1. k \in Nat /\ k <= n
      OBVIOUS
    <3> QED BY <3>1
  <2>2. PICK k \in T : TRUE
    OBVIOUS
  <2>3. n - k \in U
    OBVIOUS
  <2> QED BY <2>1, <2>3
<1>2. PICK u \in U : \A k \in U : u <= k
  <2> HIDE DEF U
  <2> QED BY <1>1, LeastExists
<1>3. PICK m \in T : u = n - m
  BY <1>2
<1>4. ASSUME NEW k \in T PROVE k <= m
  <2>1. n - k \in U
    OBVIOUS
  <2>2. u <= n - k /\ k \in Nat /\ m \in Nat
    BY <1>2, <2>1
  <2> QED BY <1>3, <2>2
<1> QED BY <1>4

(* The numbers up to w.                                                    *)
AtOrBelow(w) == {v \in Nat : v <= w}

(* The value that p percent of the values do not exceed is in that bucket. *)
LEMMA ValueAtIs ==
    ASSUME NEW h, NEW s, Describes(h, s), s # <<>>, NEW p \in 1 .. 100
    PROVE  ValueAt(s, p) \in Nat /\ IndexForValue(ValueAt(s, p)) = First(h, p)
<1> DEFINE N == Len(s)
           C(k) == CumulativeSum(h, k)
           R == Range(s)
           b == First(h, p)
           G(w) == CountIn(s, AtOrBelow(w))
           S == {w \in R : G(w) * 100 >= N * p}
           v == ValueAt(s, p)
<1>1. s \in Seq(Values) /\ N \in Nat /\ N > 0
  <2>1. s \in Seq(Values)
    BY DEF Describes
  <2> QED BY <2>1
<1>2. R \subseteq Nat /\ (\A i \in DOMAIN s : s[i] \in R) /\ \A w \in R : \E i \in DOMAIN s : s[i] = w
  <2>1. R \subseteq Nat
    BY <1>1, RangeIsNat
  <2> QED BY <2>1 DEF Range
<1>3. v = Min(S)
  <2>1. ASSUME NEW w \in R
        PROVE  Occurrences(s, LAMBDA x : x <= w) = G(w)
    <3>1. PlacesOf(s, AtOrBelow(w)) = {i \in DOMAIN s : s[i] <= w}
      BY <1>2 DEF PlacesOf, AtOrBelow
    <3> QED BY <3>1 DEF Occurrences, CountIn
  <2>2. S = {w \in R : Occurrences(s, LAMBDA x : x <= w) * 100 >= N * p}
    BY <2>1
  <2> QED BY <2>2 DEF ValueAt
<1>4. \A k \in Buckets : C(k) = CountIn(s, UpTo(k)) /\ C(k) \in Nat /\ h.buckets[k] \in Nat
  BY CumulativeIs
<1>5. /\ b \in Buckets /\ C(b) * 100 >= N * p
      /\ \A k \in Buckets : C(k) * 100 >= N * p => b <= k
      /\ h.buckets[b] > 0
  BY FirstIs, ZenonT(60)
<1>6. \A w \in R : IndexForValue(w) \in Buckets
  BY <1>2, IndexIs
<1>7. Buckets \subseteq Nat
  BY HistogramParameters DEF Buckets
<1>8. N * p \in Nat
  BY <1>1
<1> DEFINE Np == N * p
<1>9. S = {w \in R : G(w) * 100 >= Np} /\ Np \in Nat /\ C(b) * 100 >= Np
  BY <1>5, <1>8
<1> HIDE DEF N, C, R, b, G, S, v
<1>10. PICK w \in R : /\ IndexForValue(w) <= b
                      /\ \A u \in R : IndexForValue(u) <= b => u <= w
  <2> DEFINE T == {u \in R : IndexForValue(u) <= b}
  <2>1. T \subseteq Nat
    BY <1>2
  <2>2. T # {}
    <3>1. SUFFICES ASSUME T = {} PROVE FALSE
      OBVIOUS
    <3>2. \A i \in DOMAIN s : s[i] \notin BucketValues(b)
      <4> SUFFICES ASSUME NEW i \in DOMAIN s, s[i] \in BucketValues(b) PROVE FALSE
        OBVIOUS
      <4>1. s[i] \in R /\ IndexForValue(s[i]) = b
        BY <1>2 DEF BucketValues
      <4>2. b <= b
        BY <1>5, <1>7
      <4> QED BY <3>1, <4>1, <4>2
    <3>3. CountIn(s, BucketValues(b)) = 0
      BY <3>2, CountOfNone
    <3>4. h.buckets[b] = CountIn(s, BucketValues(b))
      BY <1>5 DEF Describes
    <3> QED BY <1>5, <3>3, <3>4
  <2>3. h.max \in Nat /\ \A u \in R : u <= h.max
    BY DEF Describes, Histograms, R
  <2>4. \A u \in T : u <= h.max
    BY <2>3
  <2> HIDE DEF T
  <2>5. PICK m \in T : \A k \in T : k <= m
    BY <2>1, <2>2, <2>3, <2>4, GreatestExists
  <2> QED BY <2>5 DEF T
<1>11. w \in S
  <2>1. \A i \in DOMAIN s : s[i] \in UpTo(b) <=> s[i] \in AtOrBelow(w)
    <3> SUFFICES ASSUME NEW i \in DOMAIN s PROVE s[i] \in UpTo(b) <=> s[i] \in AtOrBelow(w)
      OBVIOUS
    <3> DEFINE x == s[i]
    <3>1. x \in R /\ x \in Nat /\ w \in Nat
      BY <1>2
    <3> HIDE DEF x
    <3>2. IndexForValue(x) <= b => x <= w
      BY <1>10, <3>1
    <3>3. ASSUME x <= w PROVE IndexForValue(x) <= b
      <4>1. IndexForValue(x) <= IndexForValue(w)
        BY <3>1, <3>3, IndexGrows
      <4>2. IndexForValue(x) \in Nat /\ IndexForValue(w) \in Nat /\ b \in Nat
        BY <1>5, <1>6, <1>7, <3>1
      <4> QED BY <1>10, <4>1, <4>2
    <3>4. x \in UpTo(b) <=> x \in AtOrBelow(w)
      BY <3>1, <3>2, <3>3 DEF UpTo, AtOrBelow
    <3> QED BY <3>4 DEF x
  <2>2. PlacesOf(s, UpTo(b)) = PlacesOf(s, AtOrBelow(w))
    BY <2>1 DEF PlacesOf
  <2>3. G(w) = C(b)
    BY <1>4, <1>5, <2>2 DEF G, CountIn
  <2> QED BY <1>9, <2>3
<1>12. S \subseteq Nat /\ S \subseteq R
  BY <1>2, <1>9
<1>13. PICK m \in S : \A k \in S : m <= k
  BY <1>11, <1>12, LeastExists
<1>14. v = m
  BY <1>3, <1>12, <1>13, LeastIs
<1>15. v \in S /\ v \in R /\ v \in Nat /\ v <= w /\ w \in Nat
  BY <1>11, <1>12, <1>13, <1>14
<1>16. IndexForValue(v) <= b
  <2>1. IndexForValue(v) <= IndexForValue(w)
    BY <1>15, IndexGrows
  <2>2. IndexForValue(v) \in Nat /\ IndexForValue(w) \in Nat /\ b \in Nat
    BY <1>5, <1>6, <1>7, <1>15
  <2> QED BY <1>10, <2>1, <2>2
<1>17. b <= IndexForValue(v)
  <2> DEFINE k == IndexForValue(v)
  <2>1. k \in Buckets
    BY <1>6, <1>15
  <2>2. \A i \in DOMAIN s : s[i] \in AtOrBelow(v) => s[i] \in UpTo(k)
    <3> SUFFICES ASSUME NEW i \in DOMAIN s, s[i] \in AtOrBelow(v) PROVE s[i] \in UpTo(k)
      OBVIOUS
    <3> DEFINE x == s[i]
    <3>1. x \in Nat /\ x <= v
      BY DEF AtOrBelow
    <3> HIDE DEF x
    <3>2. IndexForValue(x) <= IndexForValue(v)
      BY <1>15, <3>1, IndexGrows
    <3>3. x \in UpTo(k)
      BY <3>1, <3>2 DEF UpTo
    <3> QED BY <3>3 DEF x
  <2> HIDE DEF k
  <2> DEFINE V == AtOrBelow(v)
             W == UpTo(k)
  <2>3. CountIn(s, V) <= CountIn(s, W) /\ CountIn(s, V) \in Nat /\ CountIn(s, W) \in Nat
    <3>1. \A i \in DOMAIN s : s[i] \in V => s[i] \in W
      BY <2>2
    <3> HIDE DEF V, W
    <3> QED BY <1>1, <3>1, CountOfMore, CountIsNat
  <2>4. CountIn(s, V) = G(v) /\ CountIn(s, W) = C(k)
    BY <1>4, <2>1 DEF G
  <2> HIDE DEF V, W
  <2>5. C(k) * 100 >= Np
    <3>1. G(v) * 100 >= Np
      BY <1>9, <1>15
    <3> QED BY <1>9, <2>3, <2>4, <3>1
  <2>6. b <= k
    BY <1>5, <2>1, <2>5
  <2> QED BY <2>6 DEF k
<1>18. IndexForValue(v) \in Nat /\ b \in Nat
  BY <1>5, <1>6, <1>7, <1>15
<1>19. IndexForValue(v) = b
  BY <1>16, <1>17, <1>18
<1> QED BY <1>15, <1>19 DEF v, b

(* A fraction of a distance, put between two bounds.                       *)
LEMMA ProductsKeepOrder ==
    ASSUME NEW a \in Nat, NEW b \in Nat, NEW k \in Nat, a <= b
    PROVE  a * k <= b * k /\ k * a <= k * b /\ a * k \in Nat /\ k * a \in Nat
<1> DEFINE c == b - a
<1>1. c \in Nat /\ b = a + c
  OBVIOUS
<1> HIDE DEF c
<1>2. b * k = a * k + c * k /\ c * k \in Nat /\ a * k \in Nat
  BY <1>1
<1>3. a * k = k * a /\ b * k = k * b
  OBVIOUS
<1> QED BY <1>2, <1>3

(* Interpolation stays within the limits.                                  *)
LEMMA BetweenLimits ==
    ASSUME NEW l \in Nat, NEW u \in Nat, l <= u, NEW d \in Nat, NEW x \in Nat, x <= d
    PROVE  /\ l * d + (u - l) * x \in Nat
           /\ l * d <= l * d + (u - l) * x
           /\ l * d + (u - l) * x <= u * d
<1> DEFINE c == u - l
<1>1. c \in Nat /\ u = l + c
  OBVIOUS
<1> HIDE DEF c
<1>2. c * x <= c * d /\ c * x \in Nat
  BY <1>1, ProductsKeepOrder
<1>3. u * d = l * d + c * d /\ l * d \in Nat /\ c * d \in Nat
  BY <1>1
<1>4. /\ l * d + c * x \in Nat /\ l * d <= l * d + c * x /\ l * d + c * x <= u * d
  BY <1>2, <1>3
<1> QED BY <1>4 DEF c

Clamped(n, lo, hi) == LET low == IF n < lo THEN lo ELSE n IN IF low > hi THEN hi ELSE low

(* Putting a number between bounds keeps its order with others.            *)
LEMMA ClampedIs ==
    ASSUME NEW n \in Nat, NEW lo \in Nat, NEW hi \in Nat, lo <= hi
    PROVE  /\ Clamped(n, lo, hi) \in Nat
           /\ \A x \in Nat : x <= n /\ x <= hi => x <= Clamped(n, lo, hi)
           /\ \A x \in Nat : n <= x /\ lo <= x => Clamped(n, lo, hi) <= x
           /\ \A m \in Nat : n <= m => Clamped(n, lo, hi) <= Clamped(m, lo, hi)
  BY DEF Clamped

Left(b) == IF b = 0 THEN 0 ELSE BucketLimit(b - 1)
Hundredths(h, b) == 100 * h.buckets[b]
Missing(h, s, p, b) == Len(s) * p - 100 * (CumulativeSum(h, b) - h.buckets[b])
Inside(b, d, x) == Left(b) * d + (BucketLimit(b) - Left(b)) * x
Bounded(h, n, d) == Clamped(n, h.min * d, h.max * d)
PlaceOf(h, s, p, b) ==
    Bounded(h, Inside(b, Hundredths(h, b), Missing(h, s, p, b)), Hundredths(h, b))

(* Percentile interpolates within the bucket it finds, and the extremes do *)
(* not drive the result out of it.                                         *)
LEMMA Between ==
    ASSUME NEW h, NEW s, Describes(h, s), s # <<>>, NEW p \in 1 .. 100,
           NEW b, b = First(h, p)
    PROVE  /\ b \in Buckets /\ Hundredths(h, b) \in Nat /\ Hundredths(h, b) > 0
           /\ Missing(h, s, p, b) \in Nat /\ Missing(h, s, p, b) <= Hundredths(h, b)
           /\ Left(b) \in Nat /\ BucketLimit(b) \in Nat /\ Left(b) < BucketLimit(b)
           /\ Percentile(h, p) = <<PlaceOf(h, s, p, b), Hundredths(h, b)>>
           /\ b # LastBucket => h.min <= BucketLimit(b)
           /\ Left(b) <= h.max
<1> DEFINE left == IF b = 0 THEN 0 ELSE BucketLimit(b - 1)
           c == CumulativeSum(h, b)
           n == h.buckets[b]
           d == 100 * n
           Np == Len(s) * p
           x == Np - 100 * (c - n)
<1>1. s \in Seq(Values) /\ h.num = Len(s) /\ Len(s) \in Nat /\ Len(s) > 0
      /\ h \in Histograms
  <2>1. s \in Seq(Values) /\ h.num = Len(s) /\ h \in Histograms
    BY DEF Describes
  <2> QED BY <2>1
<1>2. /\ Buckets = 0 .. LastBucket /\ LastBucket \in Buckets /\ 0 \in Buckets
      /\ LastBucket \in Nat
  BY HistogramParameters DEF Buckets, LastBucket
<1>3. /\ \A k \in Buckets : CumulativeSum(h, k) \in Nat /\ h.buckets[k] \in Nat
      /\ CumulativeSum(h, 0) = h.buckets[0]
      /\ \A k \in Buckets : k # 0 => CumulativeSum(h, k) = CumulativeSum(h, k - 1) + h.buckets[k]
  BY CumulativeIs
<1>4. /\ Reached(h, p) # {} /\ b \in Buckets /\ n > 0 /\ c * 100 >= Np
      /\ \A k \in Buckets : CumulativeSum(h, k) * 100 >= Np => b <= k
  <2>1. /\ Reached(h, p) # {} /\ First(h, p) \in Buckets /\ h.buckets[First(h, p)] > 0
        /\ CumulativeSum(h, First(h, p)) * 100 >= Np
        /\ \A k \in Buckets : CumulativeSum(h, k) * 100 >= Np => First(h, p) <= k
    BY FirstIs, ZenonT(60)
  <2> QED BY <2>1
<1>5. Np \in Nat /\ Np > 0 /\ n \in Nat /\ c \in Nat /\ b \in Nat
  BY <1>1, <1>2, <1>3, <1>4
<1>6. x \in Nat /\ x <= d
  <2>1. CASE b = 0
    <3>1. c = n
      BY <1>3, <2>1
    <3> HIDE DEF c, n, Np
    <3> QED BY <1>4, <1>5, <3>1
  <2>2. CASE b # 0
    <3> DEFINE e == CumulativeSum(h, b - 1)
    <3>1. b - 1 \in Buckets /\ ~(b <= b - 1)
      BY <1>2, <1>4, <1>5, <2>2
    <3>2. e \in Nat /\ c = e + n /\ ~(e * 100 >= Np)
      BY <1>3, <1>4, <2>2, <3>1
    <3> HIDE DEF c, n, Np, e
    <3> QED BY <1>4, <1>5, <3>2
  <2> QED BY <2>1, <2>2
<1>7. d \in Nat /\ d > 0
  <2> HIDE DEF n
  <2> QED BY <1>4, <1>5
<1>8. left \in Nat /\ BucketLimit(b) \in Nat /\ left < BucketLimit(b)
  <2>1. BucketLimit(b) \in Nat /\ BucketLimit(b) > 0
    BY <1>4, LimitsAre
  <2>2. ASSUME b # 0 PROVE BucketLimit(b - 1) \in Nat /\ BucketLimit(b - 1) < BucketLimit(b)
    <3>1. b - 1 \in Buckets /\ b - 1 < b
      BY <1>2, <1>4, <1>5, <2>2
    <3> QED BY <1>4, <3>1, LimitsAre, LimitsGrow
  <2> QED BY <2>1, <2>2
<1>9. PICK i \in DOMAIN s : s[i] \in BucketValues(b)
  <2>1. SUFFICES ASSUME \A i \in DOMAIN s : s[i] \notin BucketValues(b) PROVE FALSE
    OBVIOUS
  <2>2. CountIn(s, BucketValues(b)) = 0
    BY <2>1, CountOfNone
  <2>3. n = CountIn(s, BucketValues(b))
    BY <1>4 DEF Describes
  <2> QED BY <1>4, <2>2, <2>3
<1> DEFINE w == s[i]
<1>10. w \in Range(s) /\ w \in Nat /\ Belongs(w, b)
  <2>1. w \in Nat /\ IndexForValue(w) = b
    BY <1>9 DEF BucketValues
  <2>2. Belongs(w, b)
    BY <1>4, <2>1, IndexIs
  <2> QED BY <2>1, <2>2 DEF Range
<1>11. h.min <= w /\ w <= h.max /\ h.min \in Nat /\ h.max \in Nat
  BY <1>1, <1>10 DEF Describes, Histograms
<1>12. b # LastBucket => h.min <= BucketLimit(b)
  BY <1>8, <1>10, <1>11 DEF Belongs
<1>13. left <= h.max
  <2>1. left <= w
    BY <1>8, <1>10 DEF Belongs
  <2> QED BY <1>8, <1>10, <1>11, <2>1
<1>14. Percentile(h, p) = <<Clamped(left * d + (BucketLimit(b) - left) * x, h.min * d, h.max * d), d>>
  <2>1. Reached(h, p) # {} /\ d # 0
    BY <1>4, <1>7
  <2>2. Percentile(h, p) = Clamp(h, left * d + (BucketLimit(b) - left) * x, d)
    BY <1>1, <2>1 DEF Percentile, First
  <2> HIDE DEF left, d, x
  <2> QED BY <2>2 DEF Clamp, Clamped
<1> HIDE DEF left, c, n, d, Np, x
<1>15. /\ b \in Buckets /\ d \in Nat /\ d > 0 /\ x \in Nat /\ x <= d
       /\ left \in Nat /\ BucketLimit(b) \in Nat /\ left < BucketLimit(b)
       /\ Percentile(h, p) = <<Clamped(left * d + (BucketLimit(b) - left) * x, h.min * d, h.max * d), d>>
       /\ b # LastBucket => h.min <= BucketLimit(b)
       /\ left <= h.max
  BY <1>4, <1>6, <1>7, <1>8, <1>12, <1>13, <1>14
<1>16. /\ left = Left(b) /\ d = Hundredths(h, b) /\ x = Missing(h, s, p, b)
  BY DEF left, d, x, c, n, Np, Left, Hundredths, Missing
<1>17. Clamped(left * d + (BucketLimit(b) - left) * x, h.min * d, h.max * d) = PlaceOf(h, s, p, b)
  BY <1>16 DEF PlaceOf, Inside, Bounded
<1> QED BY <1>15, <1>16, <1>17

(* A percentile is between the limits of its bucket.                       *)
LEMMA PercentileIsWithin ==
    ASSUME NEW h, NEW s, Describes(h, s), s # <<>>, NEW p \in 1 .. 100
    PROVE  LET b == First(h, p)
               r == Percentile(h, p)
           IN  /\ r[1] \in Nat /\ r[2] \in Nat /\ r[2] > 0
               /\ b # 0 => BucketLimit(b - 1) * r[2] <= r[1]
               /\ b # LastBucket => r[1] <= BucketLimit(b) * r[2]
<1> DEFINE b == First(h, p)
           r == Percentile(h, p)
           left == Left(b)
           right == BucketLimit(b)
           d == Hundredths(h, b)
           x == Missing(h, s, p, b)
           n == Inside(b, d, x)
           lo == h.min * d
           hi == h.max * d
<1>1. /\ d \in Nat /\ d > 0 /\ x \in Nat /\ x <= d
      /\ left \in Nat /\ right \in Nat /\ left < right
      /\ r = <<Clamped(n, lo, hi), d>>
      /\ b # LastBucket => h.min <= right
      /\ left <= h.max
  <2>1. r = <<PlaceOf(h, s, p, b), d>>
    BY Between
  <2>2. PlaceOf(h, s, p, b) = Clamped(n, lo, hi)
    BY DEF PlaceOf, Bounded
  <2>3. /\ d \in Nat /\ d > 0 /\ x \in Nat /\ x <= d
        /\ left \in Nat /\ right \in Nat /\ left < right
        /\ b # LastBucket => h.min <= right
        /\ left <= h.max
    BY Between
  <2> HIDE DEF n, lo, hi, d, b, r, x, left, right
  <2> QED BY <2>1, <2>2, <2>3
<1>2. h.min \in Nat /\ h.max \in Nat /\ h.min <= h.max
  <2>1. s \in Seq(Values) /\ h \in Histograms
    BY DEF Describes
  <2>2. h.min \in Nat /\ h.max \in Nat
    BY <2>1 DEF Histograms
  <2>3. PICK w \in Range(s) : TRUE
    BY <2>1, HasAnElement
  <2>4. w \in Nat
    BY <2>1, RangeIsNat
  <2>5. h.min <= w /\ w <= h.max
    BY DEF Describes
  <2> QED BY <2>2, <2>4, <2>5
<1> DEFINE mn == h.min
           mx == h.max
<1>3. lo = mn * d /\ hi = mx * d /\ mn \in Nat /\ mx \in Nat /\ mn <= mx
      /\ (b # LastBucket => mn <= right) /\ left <= mx
  BY <1>1, <1>2
<1>4. n = left * d + (right - left) * x
  BY DEF Inside
<1> HIDE DEF b, r, left, right, d, x, n, lo, hi, mn, mx
<1>5. n \in Nat /\ left * d <= n /\ n <= right * d
  <2>1. left <= right
    BY <1>1
  <2> QED BY <1>1, <1>4, <2>1, BetweenLimits
<1>6. lo \in Nat /\ hi \in Nat /\ lo <= hi
  BY <1>1, <1>3, ProductsKeepOrder
<1>7. left * d <= hi /\ left * d \in Nat
  BY <1>1, <1>3, ProductsKeepOrder
<1>8. b # LastBucket => lo <= right * d
  BY <1>1, <1>3, ProductsKeepOrder
<1>9. right * d \in Nat
  BY <1>1
<1> DEFINE ld == left * d
           rd == right * d
           c == Clamped(n, lo, hi)
<1>10. c \in Nat /\ ld <= c /\ (b # LastBucket => c <= rd)
  <2>1. /\ ld \in Nat /\ rd \in Nat /\ ld <= n /\ ld <= hi /\ n <= rd
        /\ (b # LastBucket => lo <= rd)
    BY <1>5, <1>7, <1>8, <1>9
  <2> HIDE DEF ld, rd
  <2> QED BY <1>5, <1>6, <2>1, ClampedIs
<1>11. r[1] = c /\ r[2] = d
  BY <1>1
<1> HIDE DEF c
<1>12. b # 0 => left = BucketLimit(b - 1)
  BY DEF left, Left
<1>13. right = BucketLimit(b)
  BY DEF right
<1>14. /\ r[1] \in Nat /\ r[2] \in Nat /\ r[2] > 0
       /\ b # 0 => BucketLimit(b - 1) * r[2] <= r[1]
       /\ b # LastBucket => r[1] <= BucketLimit(b) * r[2]
  BY <1>1, <1>10, <1>11, <1>12, <1>13
<1> QED BY <1>14 DEF b, r

(* A higher percentile is not below a lower one.                           *)
LEMMA PercentilesGrow ==
    ASSUME NEW h, NEW s, Describes(h, s), s # <<>>,
           NEW p \in 1 .. 100, NEW q \in 1 .. 100, p <= q
    PROVE  AtMost(Percentile(h, p), Percentile(h, q))
<1> DEFINE a == First(h, p)
           b == First(h, q)
           r == Percentile(h, p)
           t == Percentile(h, q)
<1>1. /\ s \in Seq(Values) /\ Len(s) \in Nat /\ h \in Histograms
  <2>1. s \in Seq(Values) /\ h \in Histograms
    BY DEF Describes
  <2> QED BY <2>1
<1>2. Len(s) * p <= Len(s) * q /\ Len(s) * p \in Nat /\ Len(s) * q \in Nat
  <2>1. p \in Nat /\ q \in Nat
    OBVIOUS
  <2> QED BY <1>1, <2>1, ProductsKeepOrder
<1>3. Buckets = 0 .. LastBucket /\ LastBucket \in Nat
  BY HistogramParameters DEF Buckets, LastBucket
<1>4. a \in Buckets /\ b \in Buckets /\ a \in Int /\ b \in Int
  <2>1. a \in Buckets /\ b \in Buckets
    BY FirstIs
  <2> QED BY <1>3, <2>1
<1>5. a <= b
  <2>1. \A k \in Buckets : CumulativeSum(h, k) * 100 >= Len(s) * p => a <= k
    BY FirstIs
  <2>2. CumulativeSum(h, b) * 100 >= Len(s) * q
    BY FirstIs
  <2>3. CumulativeSum(h, b) \in Nat
    BY <1>4, CumulativeIs
  <2>4. CumulativeSum(h, b) * 100 >= Len(s) * p
    BY <1>2, <2>2, <2>3
  <2> QED BY <1>4, <2>1, <2>4
<1>6. CASE a < b
  <2> DEFINE m == BucketLimit(a)
             l == BucketLimit(b - 1)
  <2>1. a # LastBucket /\ b # 0 /\ b - 1 \in Buckets /\ (a = b - 1 \/ a < b - 1)
    BY <1>3, <1>4, <1>6
  <2>2. m \in Nat /\ l \in Nat /\ m <= l
    <3>1. m \in Nat /\ l \in Nat
      BY <1>4, <2>1, LimitsAre
    <3>2. a < b - 1 => m < l
      BY <1>4, <2>1, LimitsGrow
    <3>3. a = b - 1 => m = l
      OBVIOUS
    <3> HIDE DEF m, l
    <3> QED BY <2>1, <3>1, <3>2, <3>3
  <2> DEFINE r1 == r[1]
             r2 == r[2]
             t1 == t[1]
             t2 == t[2]
  <2>3. r1 \in Nat /\ r2 \in Nat /\ r1 <= m * r2
    BY <2>1, PercentileIsWithin
  <2>4. t1 \in Nat /\ t2 \in Nat /\ l * t2 <= t1
    BY <2>1, PercentileIsWithin
  <2> HIDE DEF m, l, r1, r2, t1, t2
  <2>5. r1 * t2 <= (m * r2) * t2
    BY <2>2, <2>3, <2>4, ProductsKeepOrder
  <2>6. (m * r2) * t2 = m * (r2 * t2) /\ r2 * t2 \in Nat /\ (l * t2) * r2 = l * (r2 * t2)
        /\ l * t2 \in Nat
    BY <2>2, <2>3, <2>4
  <2>7. m * (r2 * t2) <= l * (r2 * t2)
    <3> DEFINE k == r2 * t2
    <3>1. k \in Nat
      BY <2>6
    <3> HIDE DEF k
    <3>2. m * k <= l * k
      BY <2>2, <3>1, ProductsKeepOrder
    <3> QED BY <3>2 DEF k
  <2>8. (l * t2) * r2 <= t1 * r2
    <3> DEFINE k == l * t2
    <3>1. k \in Nat /\ k <= t1
      BY <2>4, <2>6
    <3> HIDE DEF k
    <3>2. k * r2 <= t1 * r2
      BY <2>3, <2>4, <3>1, ProductsKeepOrder
    <3> QED BY <3>2 DEF k
  <2>9. /\ r1 * t2 \in Int /\ (m * r2) * t2 \in Int /\ (l * t2) * r2 \in Int /\ t1 * r2 \in Int
    BY <2>2, <2>3, <2>4
  <2> DEFINE u == r1 * t2
             v == (m * r2) * t2
             w == (l * t2) * r2
             z == t1 * r2
  <2>10. u <= v /\ v <= w /\ w <= z /\ u \in Int /\ v \in Int /\ w \in Int /\ z \in Int
    BY <2>5, <2>6, <2>7, <2>8, <2>9
  <2> HIDE DEF u, v, w, z
  <2>11. u <= z
    BY <2>10
  <2> QED BY <2>11 DEF AtMost, u, z, r1, r2, t1, t2
<1>7. CASE a = b
  <2> DEFINE left == Left(a)
             right == BucketLimit(a)
             d == Hundredths(h, a)
             e == 100 * (CumulativeSum(h, a) - h.buckets[a])
             x == Missing(h, s, p, a)
             y == Missing(h, s, q, a)
             i == Inside(a, d, x)
             j == Inside(a, d, y)
             lo == h.min * d
             hi == h.max * d
  <2>1. /\ d \in Nat /\ x \in Nat /\ x <= d
        /\ left \in Nat /\ right \in Nat /\ left < right
        /\ r = <<Clamped(i, lo, hi), d>>
    <3>1. r = <<PlaceOf(h, s, p, a), d>> /\ d \in Nat /\ x \in Nat /\ x <= d
      BY Between
    <3>2. left \in Nat /\ right \in Nat /\ left < right
      BY Between
    <3>3. PlaceOf(h, s, p, a) = Clamped(i, lo, hi)
      BY DEF PlaceOf, Bounded
    <3> HIDE DEF left, right, d, x, i, lo, hi
    <3> QED BY <3>1, <3>2, <3>3
  <2>2. y \in Nat /\ y <= d /\ t = <<Clamped(j, lo, hi), d>>
    <3>1. t = <<PlaceOf(h, s, q, b), Hundredths(h, b)>>
      BY Between
    <3>2. Missing(h, s, q, b) \in Nat /\ Missing(h, s, q, b) <= Hundredths(h, b)
      BY Between
    <3>3. PlaceOf(h, s, q, a) = Clamped(j, lo, hi)
      BY DEF PlaceOf, Bounded
    <3> HIDE DEF b, a
    <3> QED BY <1>7, <3>1, <3>2, <3>3
  <2>3. e \in Int
    <3>1. CumulativeSum(h, a) \in Nat /\ h.buckets[a] \in Nat
      BY <1>4, CumulativeIs
    <3> QED BY <3>1
  <2>4. x <= y
    <3> DEFINE g == Len(s) * p
               f == Len(s) * q
    <3>1. g <= f /\ g \in Nat /\ f \in Nat
      BY <1>2
    <3>2. x = g - e /\ y = f - e
      BY DEF Missing
    <3> HIDE DEF g, f, e, x, y
    <3> QED BY <2>3, <3>1, <3>2
  <2> DEFINE mn == h.min
             mx == h.max
  <2>5. mn \in Nat /\ mx \in Nat /\ mn <= mx /\ lo = mn * d /\ hi = mx * d
    <3>1. mn \in Nat /\ mx \in Nat
      BY <1>1 DEF Histograms
    <3>2. PICK w \in Range(s) : TRUE
      BY <1>1, HasAnElement
    <3>3. w \in Nat
      BY <1>1, RangeIsNat
    <3>4. mn <= w /\ w <= mx
      BY DEF Describes
    <3> QED BY <3>1, <3>3, <3>4
  <2>6. i = left * d + (right - left) * x /\ j = left * d + (right - left) * y
    BY DEF Inside
  <2> HIDE DEF left, right, d, x, y, i, j, lo, hi, mn, mx
  <2>7. i \in Nat /\ j \in Nat
    <3>1. left <= right
      BY <2>1
    <3> QED BY <2>1, <2>2, <2>6, <3>1, BetweenLimits
  <2>8. i <= j
    <3> DEFINE c == right - left
               ld == left * d
    <3>1. c \in Nat /\ ld \in Nat /\ i = ld + c * x /\ j = ld + c * y
      BY <2>1, <2>6
    <3> HIDE DEF c, ld
    <3>2. c * x <= c * y /\ c * x \in Nat /\ c * y \in Nat
      BY <2>1, <2>2, <2>4, <3>1, ProductsKeepOrder
    <3> QED BY <3>1, <3>2
  <2>9. lo \in Nat /\ hi \in Nat /\ lo <= hi
    BY <2>1, <2>5, ProductsKeepOrder
  <2> DEFINE f == Clamped(i, lo, hi)
             g == Clamped(j, lo, hi)
  <2>10. f \in Nat /\ g \in Nat /\ f <= g
    BY <2>7, <2>8, <2>9, ClampedIs
  <2>11. r[1] = f /\ r[2] = d /\ t[1] = g /\ t[2] = d
    BY <2>1, <2>2
  <2> HIDE DEF f, g
  <2>12. f * d <= g * d
    BY <2>1, <2>10, ProductsKeepOrder
  <2>13. r[1] * t[2] <= t[1] * r[2]
    BY <2>11, <2>12
  <2> QED BY <2>13 DEF AtMost
<1>8. a < b \/ a = b
  BY <1>4, <1>5
<1> QED BY <1>6, <1>7, <1>8

(* What PercentilesFaithful says, of a described sequence.                 *)
LEMMA DescribedPercentiles ==
    ASSUME NEW h, NEW s, Describes(h, s), s # <<>>, NEW p \in Percents
    PROVE  LET v == ValueAt(s, p)
               r == Percentile(h, p)
           IN  /\ \A q \in Percents : p <= q => AtMost(r, Percentile(h, q))
               /\ \E b \in Buckets :
                     /\ Belongs(v, b)
                     /\ b = 0 \/ AtMost(<<BucketLimit(b - 1), 1>>, r)
                     /\ b = LastBucket \/ AtMost(r, <<BucketLimit(b), 1>>)
<1> DEFINE v == ValueAt(s, p)
           r == Percentile(h, p)
           b == First(h, p)
<1>1. Percents \subseteq 1 .. 100 /\ p \in 1 .. 100
  BY DEF Percents
<1>2. \A q \in Percents : p <= q => AtMost(r, Percentile(h, q))
  BY <1>1, PercentilesGrow
<1>3. v \in Nat /\ IndexForValue(v) = b
  BY <1>1, ValueAtIs
<1>4. b \in Buckets /\ Belongs(v, b)
  BY <1>3, IndexIs
<1>5. /\ r[1] \in Nat /\ r[2] \in Nat
      /\ b # 0 => BucketLimit(b - 1) * r[2] <= r[1]
      /\ b # LastBucket => r[1] <= BucketLimit(b) * r[2]
  BY <1>1, PercentileIsWithin
<1>6. b \in Nat /\ \A k \in Buckets : k # 0 => k - 1 \in Buckets
  BY <1>4, HistogramParameters DEF Buckets
<1>7. BucketLimit(b) \in Nat /\ (b # 0 => BucketLimit(b - 1) \in Nat)
  BY <1>4, <1>6, LimitsAre
<1> HIDE DEF v, r, b
<1>8. b = 0 \/ AtMost(<<BucketLimit(b - 1), 1>>, r)
  BY <1>5, <1>7 DEF AtMost
<1>9. b = LastBucket \/ AtMost(r, <<BucketLimit(b), 1>>)
  BY <1>5, <1>7 DEF AtMost
<1>10. \E k \in Buckets :
          /\ Belongs(v, k)
          /\ k = 0 \/ AtMost(<<BucketLimit(k - 1), 1>>, r)
          /\ k = LastBucket \/ AtMost(r, <<BucketLimit(k), 1>>)
  BY <1>4, <1>8, <1>9
<1> QED BY <1>2, <1>10 DEF v, r
------------------------------------------------------------------------------
(* The deviation                                                           *)

(* The pairs of the first n places, and those with the next of the first m.*)
PairsOf(n) == {ij \in (1 .. n) \X (1 .. n) : ij[1] < ij[2]}
PairsAnd(n, m) == PairsOf(n) \cup {<<i, n + 1>> : i \in 1 .. m}
Apart(s) == [ij \in PairsOf(Len(s)) |-> (s[ij[1]] - s[ij[2]]) * (s[ij[1]] - s[ij[2]])]

(* A remainder does not change with multiples, also negative ones, of the  *)
(* divisor: uint64_t may wrap on the way.                                  *)
LEMMA RemainderIs ==
    ASSUME NEW n \in Nat, n > 0, NEW k \in Int, NEW y \in Nat, y < n
    PROVE  (n * k + y) % n = y
<1> DEFINE x == n * k + y
           p == x \div n
           r == x % n
<1>0. x \in Int
  OBVIOUS
<1>1. p \in Int /\ r \in Nat /\ r < n /\ x = n * p + r
  <2> HIDE DEF x
  <2> QED BY <1>0
<1>2. n * p + r = n * k + y
  BY <1>1
<1> HIDE DEF p, r, x
<1> DEFINE d == p - k
<1>3. d \in Int /\ p = k + d
  BY <1>1
<1> HIDE DEF d
<1>4. n * d + r = y /\ n * d \in Int
  <2>1. n * (k + d) = n * k + n * d /\ n * k \in Int /\ n * d \in Int
    BY <1>3
  <2>2. n * p = n * k + n * d
    BY <1>3, <2>1
  <2> QED BY <1>1, <1>2, <2>1, <2>2
<1>5. d = 0
  <2>1. CASE d >= 1
    <3>1. n * d >= n
      BY <1>3, <2>1
    <3> QED BY <1>1, <1>4, <3>1
  <2>2. CASE d <= -1
    <3>1. n * d <= -n
      BY <1>3, <2>2
    <3> QED BY <1>1, <1>4, <3>1
  <2> QED BY <1>3, <2>1, <2>2
<1>6. r = y
  BY <1>1, <1>3, <1>4, <1>5
<1> QED BY <1>6 DEF r, x

(* Squares are not negative.                                               *)
LEMMA SquareIsNat == \A x \in Int : x * x \in Nat
<1> SUFFICES ASSUME NEW x \in Int PROVE x * x \in Nat
  OBVIOUS
<1>1. CASE x >= 0
  BY <1>1
<1>2. CASE x < 0
  <2> DEFINE y == -x
  <2>1. y \in Nat /\ x * x = y * y
    BY <1>2
  <2> HIDE DEF y
  <2> QED BY <2>1
<1> QED BY <1>1, <1>2

(* Place by place, every pair is counted once.                             *)
LEMMA PairsAre ==
    ASSUME NEW N \in Nat
    PROVE  /\ PairsOf(0) = {}
           /\ \A n \in 0 .. N : PairsOf(n) \subseteq PairsOf(N) /\ PairsAnd(n, 0) = PairsOf(n)
           /\ \A n \in 0 .. N - 1 : PairsAnd(n, n) = PairsOf(n + 1)
           /\ \A n \in 0 .. N - 1 : \A m \in 1 .. n :
                 /\ PairsAnd(n, m) = PairsAnd(n, m - 1) \cup {<<m, n + 1>>}
                 /\ <<m, n + 1>> \notin PairsAnd(n, m - 1)
                 /\ <<m, n + 1>> \in PairsOf(N)
<1>1. PairsOf(0) = {}
  BY DEF PairsOf
<1>2. ASSUME NEW n \in 0 .. N
      PROVE  PairsOf(n) \subseteq PairsOf(N) /\ PairsAnd(n, 0) = PairsOf(n)
  <2>1. \A i \in 1 .. n : i \in 1 .. N
    OBVIOUS
  <2>2. PairsOf(n) \subseteq PairsOf(N)
    BY <2>1 DEF PairsOf
  <2>3. 1 .. 0 = {}
    OBVIOUS
  <2>4. PairsAnd(n, 0) = PairsOf(n)
    BY <2>3 DEF PairsAnd
  <2> QED BY <2>2, <2>4
<1>3. ASSUME NEW n \in 0 .. N - 1 PROVE PairsAnd(n, n) = PairsOf(n + 1)
  <2> DEFINE k == n + 1
  <2>1. \A i : i \in 1 .. k <=> i \in 1 .. n \/ i = k
    OBVIOUS
  <2>2. /\ \A i \in 1 .. n : i < k /\ ~(k < i)
        /\ ~(k < k) /\ k \notin 1 .. n
    OBVIOUS
  <2> HIDE DEF k
  <2>3. ASSUME NEW z, z \in PairsOf(k) PROVE z \in PairsOf(n) \cup {<<i, k>> : i \in 1 .. n}
    <3>1. PICK i \in 1 .. k, j \in 1 .. k : z = <<i, j>> /\ i < j
      BY <2>3 DEF PairsOf
    <3>2. CASE j = k
      <4>1. i \in 1 .. n
        BY <2>1, <2>2, <3>1, <3>2
      <4> QED BY <3>1, <3>2, <4>1
    <3>3. CASE j # k
      <4>1. j \in 1 .. n /\ i \in 1 .. n
        BY <2>1, <2>2, <3>1, <3>3
      <4> QED BY <3>1, <4>1 DEF PairsOf
    <3> QED BY <3>2, <3>3
  <2>4. ASSUME NEW z, z \in PairsOf(n) PROVE z \in PairsOf(k)
    BY <2>1, <2>4 DEF PairsOf
  <2>5. ASSUME NEW i \in 1 .. n PROVE <<i, k>> \in PairsOf(k)
    BY <2>1, <2>2 DEF PairsOf
  <2>6. PairsOf(k) = PairsOf(n) \cup {<<i, k>> : i \in 1 .. n}
    BY <2>3, <2>4, <2>5
  <2> QED BY <2>6 DEF PairsAnd, k
<1>4. ASSUME NEW n \in 0 .. N - 1, NEW m \in 1 .. n
      PROVE  /\ PairsAnd(n, m) = PairsAnd(n, m - 1) \cup {<<m, n + 1>>}
             /\ <<m, n + 1>> \notin PairsAnd(n, m - 1)
             /\ <<m, n + 1>> \in PairsOf(N)
  <2> DEFINE k == n + 1
             l == m - 1
  <2>1. \A i : i \in 1 .. m <=> i \in 1 .. l \/ i = m
    OBVIOUS
  <2>2. m \notin 1 .. l /\ k \notin 1 .. n /\ m \in 1 .. N /\ k \in 1 .. N /\ m < k
    OBVIOUS
  <2> HIDE DEF k, l
  <2>3. {<<i, k>> : i \in 1 .. m} = {<<i, k>> : i \in 1 .. l} \cup {<<m, k>>}
    BY <2>1
  <2>4. <<m, k>> \notin PairsOf(n)
    BY <2>2 DEF PairsOf
  <2>5. <<m, k>> \notin {<<i, k>> : i \in 1 .. l}
    BY <2>2
  <2>6. <<m, k>> \in PairsOf(N)
    BY <2>2 DEF PairsOf
  <2> QED BY <2>3, <2>4, <2>5, <2>6 DEF PairsAnd, k, l
<1> QED BY <1>1, <1>2, <1>3, <1>4

(* The squares of the differences of the first n values.                   *)
LEMMA SquaresApart ==
    ASSUME NEW s \in Seq(Values)
    PROVE  LET n == Len(s)
               S == Total(s)
               Q == TotalSquares(s)
           IN  SumFunctionOnSet(Apart(s), PairsOf(n)) = n * Q - S * S
               /\ n * Q - S * S \in Nat
<1> DEFINE N == Len(s)
           f == Apart(s)
           a == Squares(s)
           E(T) == SumFunctionOnSet(f, T)
           S(n) == SumTo(s, n)
           Q(n) == SumTo(a, n)
           P == {n \in Nat : n <= N =>
                   /\ IsSummable(f, PairsOf(n)) /\ E(PairsOf(n)) \in Nat
                   /\ E(PairsOf(n)) = n * Q(n) - S(n) * S(n)}
<1>1. N \in Nat
  OBVIOUS
<1>2. \A i \in 1 .. N : s[i] \in Nat /\ a[i] = s[i] * s[i] /\ a[i] \in Nat
  BY TotalsAre
<1> HIDE DEF N, a
<1>3. /\ S(0) = 0 /\ \A n \in 1 .. N : S(n) = S(n - 1) + s[n]
      /\ \A n \in 0 .. N : S(n) \in Int
  <2>1. \A i \in 1 .. N : s[i] \in Int
    BY <1>2
  <2> QED BY <1>1, <2>1, SumToIs
<1>4. /\ Q(0) = 0 /\ \A n \in 1 .. N : Q(n) = Q(n - 1) + a[n]
      /\ \A n \in 0 .. N : Q(n) \in Int
  <2>1. \A i \in 1 .. N : a[i] \in Int
    BY <1>2
  <2> QED BY <1>1, <2>1, SumToIs
<1> HIDE DEF S, Q
<1>5. \A i, j \in 1 .. N : i < j => /\ f[<<i, j>>] = (s[i] - s[j]) * (s[i] - s[j])
                                    /\ f[<<i, j>>] \in Nat
  <2> SUFFICES ASSUME NEW i \in 1 .. N, NEW j \in 1 .. N, i < j
               PROVE  f[<<i, j>>] = (s[i] - s[j]) * (s[i] - s[j]) /\ f[<<i, j>>] \in Nat
    OBVIOUS
  <2>1. <<i, j>> \in PairsOf(N)
    BY DEF PairsOf
  <2>2. f[<<i, j>>] = (s[i] - s[j]) * (s[i] - s[j])
    BY <2>1 DEF Apart, N
  <2> DEFINE x == s[i] - s[j]
  <2>3. x \in Int
    BY <1>2
  <2> HIDE DEF x
  <2>4. x * x \in Nat
    BY <2>3, SquareIsNat
  <2> QED BY <2>2, <2>4 DEF x
<1> HIDE DEF f
<1>6. 0 \in P
  <2>1. PairsOf(0) = {}
    BY PairsAre
  <2>2. IsSummable(f, {}) /\ E({}) = 0
    BY SumOfNone, FS_EmptySet DEF IsSummable
  <2> HIDE DEF E
  <2>3. 0 * Q(0) - S(0) * S(0) = 0
    BY <1>3, <1>4
  <2>4. /\ IsSummable(f, PairsOf(0)) /\ E(PairsOf(0)) = 0
        /\ E(PairsOf(0)) = 0 * Q(0) - S(0) * S(0)
    BY <2>1, <2>2, <2>3
  <2> QED BY <2>4
<1>7. ASSUME NEW n \in Nat, n \in P PROVE n + 1 \in P
  <2> SUFFICES ASSUME n + 1 <= N
               PROVE  /\ IsSummable(f, PairsOf(n + 1)) /\ E(PairsOf(n + 1)) \in Nat
                      /\ E(PairsOf(n + 1)) = (n + 1) * Q(n + 1) - S(n + 1) * S(n + 1)
    OBVIOUS
  <2> DEFINE k == n + 1
             x == s[k]
             base == E(PairsOf(n))
             R == {m \in Nat : m <= n =>
                     /\ IsSummable(f, PairsAnd(n, m)) /\ E(PairsAnd(n, m)) \in Nat
                     /\ E(PairsAnd(n, m)) = base + Q(m) - 2 * (x * S(m)) + m * (x * x)}
  <2>1. k \in 1 .. N /\ k - 1 = n /\ n \in 0 .. N /\ n \in 0 .. N - 1 /\ n <= N
        /\ \A m \in 1 .. n : m \in 1 .. N /\ m < k
    BY <1>1
  <2>2. x \in Nat /\ a[k] = x * x
    BY <1>2, <2>1
  <2>3. IsSummable(f, PairsOf(n)) /\ base \in Nat /\ base = n * Q(n) - S(n) * S(n)
    BY <1>7, <2>1
  <2> HIDE DEF base, x
  <2>4. 0 \in R
    <3>1. PairsAnd(n, 0) = PairsOf(n)
      BY <1>1, <2>1, PairsAre
    <3>2. base + Q(0) - 2 * (x * S(0)) + 0 * (x * x) = base
      BY <1>3, <1>4, <2>2, <2>3
    <3> QED BY <2>3, <3>1, <3>2 DEF base
  <2>5. ASSUME NEW m \in Nat, m \in R PROVE m + 1 \in R
    <3> SUFFICES ASSUME m + 1 <= n
                 PROVE  /\ IsSummable(f, PairsAnd(n, m + 1)) /\ E(PairsAnd(n, m + 1)) \in Nat
                        /\ E(PairsAnd(n, m + 1))
                              = base + Q(m + 1) - 2 * (x * S(m + 1)) + (m + 1) * (x * x)
      OBVIOUS
    <3> DEFINE l == m + 1
               z == <<l, k>>
               T == PairsAnd(n, m)
               y == s[l]
    <3>1. l \in 1 .. n /\ l - 1 = m /\ m <= n /\ l \in 1 .. N /\ l < k /\ m \in 0 .. N
      <4>1. n + 1 <= N /\ N \in Nat /\ n \in Nat /\ m \in Nat
        BY <1>1
      <4> QED BY <4>1
    <3>2. PairsAnd(n, l) = T \cup {z} /\ z \notin T
      <4>1. /\ PairsAnd(n, l) = PairsAnd(n, l - 1) \cup {<<l, n + 1>>}
            /\ <<l, n + 1>> \notin PairsAnd(n, l - 1)
        <5> HIDE DEF l
        <5> QED BY <1>1, <2>1, <3>1, PairsAre
      <4>2. l - 1 = m
        BY <3>1
      <4> HIDE DEF l
      <4> QED BY <4>1, <4>2
    <3>3. f[z] = (y - x) * (y - x) /\ f[z] \in Nat
      <4>1. f[<<l, k>>] = (s[l] - s[k]) * (s[l] - s[k]) /\ f[<<l, k>>] \in Nat
        <5> HIDE DEF l, k
        <5> QED BY <1>5, <2>1, <3>1
      <4> QED BY <4>1 DEF x
    <3>4. IsSummable(f, T) /\ E(T) \in Nat /\ E(T) = base + Q(m) - 2 * (x * S(m)) + m * (x * x)
      BY <2>5, <3>1
    <3>5. y \in Nat /\ a[l] = y * y
      BY <1>2, <3>1
    <3>6. Q(l) = Q(m) + y * y /\ S(l) = S(m) + y /\ Q(m) \in Int /\ S(m) \in Int
      <4>1. Q(l) = Q(l - 1) + a[l] /\ S(l) = S(l - 1) + s[l] /\ Q(m) \in Int /\ S(m) \in Int
        BY <1>3, <1>4, <3>1
      <4> QED BY <3>1, <3>5, <4>1
    <3> HIDE DEF z, T, y, l
    <3>7. IsSummable(f, T \cup {z}) /\ E(T \cup {z}) = E(T) + f[z]
      <4>1. f[z] \in Int
        BY <3>3
      <4> QED BY <3>2, <3>4, <4>1, SumOfOneMore
    <3> HIDE DEF E
    <3> DEFINE q == Q(m)
               t == S(m)
               e == E(T)
    <3>8. e + (y - x) * (y - x) = base + (q + y * y) - 2 * (x * (t + y)) + (m + 1) * (x * x)
      <4>1. e = base + q - 2 * (x * t) + m * (x * x) /\ q \in Int /\ t \in Int
        BY <3>4, <3>6
      <4> HIDE DEF q, t, e
      <4>2. (y - x) * (y - x) = y * y - 2 * (x * y) + x * x
        BY <2>2, <3>5
      <4>3. x * (t + y) = x * t + x * y /\ (m + 1) * (x * x) = m * (x * x) + x * x
        BY <2>2, <3>5, <4>1
      <4> DEFINE xt == x * t
                 xy == x * y
                 yy == y * y
                 xx == x * x
                 mx == m * xx
      <4>4. xt \in Int /\ xy \in Int /\ yy \in Int /\ xx \in Int /\ mx \in Int
        BY <2>2, <3>5, <4>1
      <4>5. /\ e = base + q - 2 * xt + mx
            /\ (y - x) * (y - x) = yy - 2 * xy + xx
            /\ x * (t + y) = xt + xy
            /\ (m + 1) * xx = mx + xx
        BY <4>1, <4>2, <4>3
      <4> HIDE DEF xt, xy, yy, mx
      <4>6. (m + 1) * (x * x) = mx + xx
        BY <4>5
      <4> HIDE DEF xx
      <4>7. e + (yy - 2 * xy + xx) = base + (q + yy) - 2 * (xt + xy) + (mx + xx)
        <5>1. e = base + q - 2 * xt + mx
          BY <4>5
        <5>2. base \in Int /\ q \in Int
          BY <2>3, <4>1
        <5> QED BY <4>4, <5>1, <5>2
      <4> QED BY <4>5, <4>6, <4>7 DEF yy
    <3>9. E(T \cup {z}) = base + Q(l) - 2 * (x * S(l)) + (m + 1) * (x * x)
      BY <3>3, <3>6, <3>7, <3>8
    <3>10. E(T \cup {z}) \in Nat
      BY <3>3, <3>4, <3>7
    <3> QED BY <3>2, <3>7, <3>9, <3>10 DEF l
  <2>6. Nat \subseteq R
    <3> HIDE DEF R
    <3> QED BY <2>4, <2>5, InductionOnNat
  <2>7. n \in R /\ n <= n
    BY <2>6
  <2>8. /\ IsSummable(f, PairsAnd(n, n)) /\ E(PairsAnd(n, n)) \in Nat
        /\ E(PairsAnd(n, n)) = base + Q(n) - 2 * (x * S(n)) + n * (x * x)
    BY <2>7
  <2>9. PairsAnd(n, n) = PairsOf(k)
    BY <1>1, <2>1, PairsAre
  <2>10. Q(k) = Q(n) + x * x /\ S(k) = S(n) + x /\ Q(n) \in Int /\ S(n) \in Int
    <3>1. Q(k) = Q(k - 1) + a[k] /\ S(k) = S(k - 1) + s[k] /\ Q(n) \in Int /\ S(n) \in Int
      BY <1>3, <1>4, <2>1
    <3> QED BY <2>1, <2>2, <3>1 DEF x
  <2> HIDE DEF E
  <2> DEFINE q == Q(n)
             t == S(n)
  <2>11. base + q - 2 * (x * t) + n * (x * x) = (n + 1) * (q + x * x) - (t + x) * (t + x)
    <3>1. base = n * q - t * t /\ q \in Int /\ t \in Int
      BY <2>3, <2>10
    <3> HIDE DEF q, t
    <3> DEFINE xx == x * x
    <3>2. (t + x) * (t + x) = t * t + 2 * (x * t) + xx
      BY <2>2, <3>1
    <3>3. xx \in Int
      BY <2>2
    <3> HIDE DEF xx
    <3>4. (n + 1) * (q + xx) = n * q + q + n * xx + xx
      BY <3>1, <3>3
    <3> DEFINE nq == n * q
               tt == t * t
               xt == x * t
               nx == n * xx
    <3>5. nq \in Int /\ tt \in Int /\ xt \in Int /\ nx \in Int
      BY <2>2, <3>1, <3>3
    <3>6. /\ base = nq - tt /\ (t + x) * (t + x) = tt + 2 * xt + xx
          /\ (n + 1) * (q + xx) = nq + q + nx + xx
      BY <3>1, <3>2, <3>4
    <3> HIDE DEF nq, tt, xt, nx
    <3>7. (nq - tt) + q - 2 * xt + nx = (nq + q + nx + xx) - (tt + 2 * xt + xx)
      BY <3>1, <3>3, <3>5
    <3>8. base + q - 2 * xt + nx = (n + 1) * (q + xx) - (t + x) * (t + x)
      BY <3>6, <3>7
    <3> QED BY <3>8 DEF xt, nx, xx
  <2>12. E(PairsOf(k)) = (n + 1) * Q(k) - S(k) * S(k)
    BY <2>8, <2>9, <2>10, <2>11
  <2> QED BY <2>8, <2>9, <2>12 DEF k
<1>8. Nat \subseteq P
  <2> HIDE DEF P
  <2> QED BY <1>6, <1>7, InductionOnNat
<1>9. N <= N
  BY <1>1
<1>10. E(PairsOf(N)) = N * Q(N) - S(N) * S(N) /\ E(PairsOf(N)) \in Nat
  BY <1>1, <1>8, <1>9
<1>11. Q(N) = TotalSquares(s) /\ S(N) = Total(s)
  BY DEF Q, S, TotalSquares, Total, a, N
<1> HIDE DEF E
<1>12. E(PairsOf(N)) = N * TotalSquares(s) - Total(s) * Total(s) /\ E(PairsOf(N)) \in Nat
  BY <1>10, <1>11
<1> QED BY <1>12 DEF E, f, N
------------------------------------------------------------------------------
(* What StandardDeviation computes from wrapped counters is exact while    *)
(* the true value fits.                                                    *)
LEMMA DescribedDeviation ==
    ASSUME NEW h, NEW s, Describes(h, s), Len(s) * SumFunction(Squares(s)) < Modulus
    PROVE  SquaredDeviation(h) = SumFunctionOnSet(Apart(s), PairsOf(Len(s)))
<1> DEFINE n == Len(s)
           S == Total(s)
           Q == TotalSquares(s)
           D == n * Q - S * S
           a == Q \div Modulus
           q == Q % Modulus
           c == S \div Modulus
           t == S % Modulus
           k == 2 * (S * c) - a * n - Modulus * (c * c)
<1>1. /\ s \in Seq(Values) /\ h.num = n /\ h.sum = t /\ h.sum_squares = q
      /\ Modulus \in Nat /\ Modulus > 0
  BY HistogramParameters DEF Describes
<1>2. n \in Nat /\ S \in Nat /\ Q \in Nat /\ SumFunction(Squares(s)) = Q
  BY <1>1, TotalsAre
<1>3. SumFunctionOnSet(Apart(s), PairsOf(n)) = D /\ D \in Nat
  BY <1>1, SquaresApart
<1>4. a \in Nat /\ q \in Nat /\ Q = Modulus * a + q
  <2> HIDE DEF Q
  <2> QED BY <1>1, <1>2, DivisionIs
<1>5. c \in Nat /\ t \in Nat /\ S = Modulus * c + t
  <2> HIDE DEF S
  <2> QED BY <1>1, <1>2, DivisionIs
<1>6. D < Modulus
  <2>1. n * Q < Modulus
    BY <1>2
  <2> HIDE DEF n, Q, S
  <2>2. n * Q \in Nat /\ S * S \in Nat
    BY <1>2
  <2> DEFINE x == n * Q
             y == S * S
  <2>3. x \in Nat /\ y \in Nat /\ x < Modulus /\ D = x - y
    BY <2>1, <2>2
  <2> HIDE DEF x, y, D
  <2> QED BY <1>1, <2>3
<1>7. SquaredDeviation(h) = (q * n - t * t) % Modulus
  BY <1>1 DEF SquaredDeviation
<1>8. D = n * Q - S * S
  OBVIOUS
<1> HIDE DEF n, S, Q, D, a, q, c, t
<1>9. q * n - t * t = Modulus * k + D /\ k \in Int
  <2> DEFINE M_ == Modulus
             an == a * n
             Sc == S * c
             cc == c * c
  <2>1. q = Q - M_ * a /\ t = S - M_ * c /\ M_ \in Nat
    BY <1>1, <1>2, <1>4, <1>5
  <2>2. an \in Int /\ Sc \in Int /\ cc \in Int /\ k = 2 * Sc - an - M_ * cc
    BY <1>2, <1>4, <1>5
  <2> HIDE DEF M_, k
  <2>3. q * n = n * Q - M_ * an
    <3>1. q * n = Q * n - (M_ * a) * n
      BY <1>2, <1>4, <2>1
    <3>2. (M_ * a) * n = M_ * (a * n) /\ Q * n = n * Q
      BY <1>2, <1>4, <2>1
    <3> QED BY <3>1, <3>2
  <2>4. t * t = S * S - 2 * (M_ * Sc) + M_ * (M_ * cc)
    <3> DEFINE mc == M_ * c
    <3>1. mc \in Int /\ t = S - mc
      BY <1>5, <2>1
    <3>2. S * mc = M_ * Sc /\ mc * mc = M_ * (M_ * cc)
      BY <1>2, <1>5, <2>1
    <3> HIDE DEF mc, Sc, cc
    <3>3. t * t = S * S - 2 * (S * mc) + mc * mc
      BY <1>2, <3>1
    <3> QED BY <3>2, <3>3
  <2> HIDE DEF an, Sc, cc
  <2>5. M_ * k = 2 * (M_ * Sc) - M_ * an - M_ * (M_ * cc)
    <3> DEFINE z == M_ * cc
    <3>1. z \in Int /\ k = 2 * Sc - an - z
      BY <2>1, <2>2
    <3> HIDE DEF z
    <3>2. M_ * k = 2 * (M_ * Sc) - M_ * an - M_ * z
      BY <2>1, <2>2, <3>1
    <3> QED BY <3>2 DEF z
  <2>6. k \in Int
    BY <2>1, <2>2
  <2> DEFINE x1 == n * Q
             x2 == M_ * an
             x3 == S * S
             x4 == M_ * Sc
             x5 == M_ * (M_ * cc)
  <2>7. /\ x1 \in Int /\ x2 \in Int /\ x3 \in Int /\ x4 \in Int /\ x5 \in Int
        /\ q * n = x1 - x2 /\ t * t = x3 - 2 * x4 + x5 /\ M_ * k = 2 * x4 - x2 - x5
        /\ D = x1 - x3
    BY <1>2, <1>8, <2>1, <2>2, <2>3, <2>4, <2>5
  <2> DEFINE qn == q * n
             tt == t * t
             mk == M_ * k
  <2>8. qn = x1 - x2 /\ tt = x3 - 2 * x4 + x5 /\ mk = 2 * x4 - x2 - x5
    BY <2>7
  <2> HIDE DEF x1, x2, x3, x4, x5, qn, tt, mk
  <2>9. qn - tt = mk + D
    BY <2>7, <2>8
  <2> QED BY <2>6, <2>9 DEF qn, tt, mk, M_
<1> HIDE DEF k
<1>10. (Modulus * k + D) % Modulus = D
  BY <1>1, <1>3, <1>6, <1>9, RemainderIs
<1>11. SquaredDeviation(h) = D
  BY <1>7, <1>9, <1>10
<1> QED BY <1>3, <1>11 DEF n

(* The histogram of each owner, whether filled by one thread or merged     *)
(* from several, says of its values what they are: how many, between which *)
(* bounds and in which buckets, how far apart while the counters do not    *)
(* overflow, and its percentiles are in the buckets of the values they     *)
(* stand for and never decrease.                                           *)
THEOREM TheStatisticsAreFaithful == Spec => []StatisticsFaithful
<1>1. HistInductive => StatisticsFaithful
  <2> SUFFICES ASSUME HistInductive PROVE StatisticsFaithful
    OBVIOUS
  <2>1. \A o \in Owners : Describes(hist[o], added[o])
    BY DEF HistInductive
  <2>2. CountsExact
    <3> SUFFICES ASSUME NEW o \in Owners
                 PROVE  /\ hist[o].num = Len(added[o])
                        /\ hist[o].sum = SumFunction(added[o]) % Modulus
                        /\ \A b \in Buckets :
                              hist[o].buckets[b] = Occurrences(added[o], LAMBDA v : Belongs(v, b))
                        /\ added[o] # <<>> =>
                              /\ hist[o].max = Max(Range(added[o]))
                              /\ hist[o].min = Min(Range(added[o]) \cup {BucketLimit(LastBucket)})
      BY DEF CountsExact
    <3> DEFINE h == hist[o]
               s == added[o]
    <3>1. Describes(h, s)
      BY <2>1
    <3> HIDE DEF h, s
    <3>2. /\ h.num = Len(s)
          /\ h.sum = SumFunction(s) % Modulus
          /\ \A b \in Buckets : h.buckets[b] = Occurrences(s, LAMBDA v : Belongs(v, b))
          /\ s # <<>> =>
                /\ h.max = Max(Range(s))
                /\ h.min = Min(Range(s) \cup {BucketLimit(LastBucket)})
      BY <3>1, CountsAre
    <3> QED BY <3>2 DEF h, s
  <2>3. DeviationExact
    <3> SUFFICES ASSUME NEW o \in Owners,
                        Len(added[o]) * SumFunction(Squares(added[o])) < Modulus
                 PROVE  SquaredDeviation(hist[o])
                          = SumFunction([ij \in {ij \in (DOMAIN added[o]) \X (DOMAIN added[o]) :
                                                    ij[1] < ij[2]} |->
                               (added[o][ij[1]] - added[o][ij[2]])
                                  * (added[o][ij[1]] - added[o][ij[2]])])
      BY DEF DeviationExact
    <3> DEFINE h == hist[o]
               s == added[o]
    <3>1. Describes(h, s)
      BY <2>1
    <3>2. Len(s) * SumFunction(Squares(s)) < Modulus
      OBVIOUS
    <3> HIDE DEF h, s
    <3>3. SquaredDeviation(h) = SumFunctionOnSet(Apart(s), PairsOf(Len(s)))
      BY <3>1, <3>2, DescribedDeviation
    <3>4. DOMAIN s = 1 .. Len(s)
      BY <3>1 DEF Describes
    <3>5. Apart(s) = [ij \in {ij \in (DOMAIN s) \X (DOMAIN s) : ij[1] < ij[2]} |->
                         (s[ij[1]] - s[ij[2]]) * (s[ij[1]] - s[ij[2]])]
      BY <3>4 DEF Apart, PairsOf
    <3>6. SumFunction(Apart(s)) = SumFunctionOnSet(Apart(s), PairsOf(Len(s)))
      BY DEF SumFunction, Apart
    <3>7. SquaredDeviation(h) = SumFunction(Apart(s))
      BY <3>3, <3>6
    <3> QED BY <3>5, <3>7 DEF h, s
  <2>4. PercentilesFaithful
    <3> SUFFICES ASSUME NEW o \in Owners, added[o] # <<>>, NEW p \in Percents
                 PROVE  LET h == hist[o]
                            v == ValueAt(added[o], p)
                            r == Percentile(h, p)
                        IN  /\ \A q \in Percents : p <= q => AtMost(r, Percentile(h, q))
                            /\ \E b \in Buckets :
                                  /\ Belongs(v, b)
                                  /\ b = 0 \/ AtMost(<<BucketLimit(b - 1), 1>>, r)
                                  /\ b = LastBucket \/ AtMost(r, <<BucketLimit(b), 1>>)
      BY DEF PercentilesFaithful
    <3> DEFINE h == hist[o]
               s == added[o]
    <3>1. Describes(h, s) /\ s # <<>>
      BY <2>1
    <3> HIDE DEF h, s
    <3>2. /\ \A q \in Percents : p <= q => AtMost(Percentile(h, p), Percentile(h, q))
          /\ \E b \in Buckets :
                /\ Belongs(ValueAt(s, p), b)
                /\ b = 0 \/ AtMost(<<BucketLimit(b - 1), 1>>, Percentile(h, p))
                /\ b = LastBucket \/ AtMost(Percentile(h, p), <<BucketLimit(b), 1>>)
      BY <3>1, DescribedPercentiles
    <3> QED BY <3>2 DEF h, s
  <2> QED BY <2>2, <2>3, <2>4 DEF StatisticsFaithful
<1> QED BY <1>1, HistogramsInvariant, PTL
============================================================================
