-------------------------- MODULE ArithmeticLemmas --------------------------
(***************************************************************************)
(* Facts about numbers that the proofs about the schemes rest on.  First,  *)
(* induction over the natural numbers stated of sets, so that a prover can *)
(* use it by instantiation, and the existence of functions defined by      *)
(* recursion along a sequence.  Then arithmetic modulo the group order:    *)
(* every scalar of the code is reduced modulo n, at one place or another   *)
(* of an expression, and these lemmas say that the place does not matter.  *)
(* Last, powers of two and numbers written in octets.                      *)
(***************************************************************************)
EXTENDS Integers, WellFoundedInduction, TLAPS

\* Every nonempty set of natural numbers has a least element: the well-ordering
\* the inductions below rest on.
LEMMA LeastElement ==
  ASSUME NEW T \in SUBSET Nat, T # {}
  PROVE  \E x \in T : \A y \in T : ~ (y < x)
<1>1. \E x \in T : \A y \in T : ~ (<<y, x>> \in OpToRel(<, Nat))
  BY NatLessThanWellFounded, WFMin
<1>2. \A x, y \in Nat : y < x => <<y, x>> \in OpToRel(<, Nat)
  BY DEF OpToRel
<1> QED BY <1>1, <1>2

\* Induction over the natural numbers, of a set rather than of a predicate: the
\* loops of the code run over the indices of a sequence.
LEMMA SetInduction ==
  ASSUME NEW S, 0 \in S, \A k \in Nat : k \in S => k + 1 \in S
  PROVE  Nat \subseteq S
<1> DEFINE T == Nat \ S
<1>1. SUFFICES ASSUME T # {} PROVE FALSE
  OBVIOUS
<1>2. PICK x \in T : \A y \in T : ~ (y < x)
  BY <1>1, LeastElement
<1>3. x \in Nat /\ x # 0 /\ x - 1 \in Nat /\ x - 1 < x /\ x - 1 + 1 = x
  BY <1>2
<1>4. x - 1 \in S
  BY <1>2, <1>3
<1> QED BY <1>2, <1>3, <1>4

\* g is the run of F from x0 up to index m.
Iteration(g, X, x0, F, m) ==
  /\ g \in [0..m -> X]
  /\ g[0] = x0
  /\ \A k \in 0..(m - 1) : g[k + 1] = F[<<g[k], k + 1>>]

\* A function of the previous value and the index can be run for any number of
\* steps.
LEMMA IterationExists ==
  ASSUME NEW X, NEW x0 \in X, NEW F \in [X \X Nat -> X]
  PROVE  \A m \in Nat : \E g \in [0..m -> X] : Iteration(g, X, x0, F, m)
<1> DEFINE S == {m \in Nat : \E g \in [0..m -> X] : Iteration(g, X, x0, F, m)}
<1>1. 0 \in S
  <2> DEFINE g == [k \in 0..0 |-> x0]
  <2>1. g \in [0..0 -> X] /\ Iteration(g, X, x0, F, 0)
    BY DEF Iteration
  <2> QED BY <2>1
<1>2. ASSUME NEW m \in Nat, m \in S PROVE m + 1 \in S
  <2>1. PICK g \in [0..m -> X] : Iteration(g, X, x0, F, m)
    BY <1>2
  <2>a. g[m] \in X /\ <<g[m], m + 1>> \in X \X Nat
    BY <2>1
  <2> DEFINE y == F[<<g[m], m + 1>>]
  <2>b. y \in X
    BY <2>a
  <2> DEFINE h == [k \in 0..(m + 1) |-> IF k = m + 1 THEN y ELSE g[k]]
  <2> HIDE DEF y
  <2>2. h \in [0..(m + 1) -> X]
    BY <2>1, <2>b
  <2>3. h[0] = x0
    BY <2>1 DEF Iteration
  <2>4. ASSUME NEW k \in 0..m PROVE h[k + 1] = F[<<h[k], k + 1>>]
    <3>1. CASE k = m
      <4>1. h[k] = g[m] /\ h[k + 1] = y
        BY <3>1, k \in 0..(m+1), k + 1 \in 0..(m+1)
      <4> QED BY <4>1, <3>1 DEF y
    <3>2. CASE k # m
      <4>1. k \in 0..(m - 1) /\ k + 1 \in 0..m /\ k + 1 # m + 1 /\ k # m + 1
        BY <3>2
      <4>2. h[k] = g[k] /\ h[k + 1] = g[k + 1]
        BY <4>1, k \in 0..(m+1), k + 1 \in 0..(m+1)
      <4> QED BY <4>1, <4>2, <2>1 DEF Iteration
    <3> QED BY <3>1, <3>2
  <2>5. Iteration(h, X, x0, F, m + 1)
    <3>1. m + 1 - 1 = m
      OBVIOUS
    <3>2. \A k \in 0..(m + 1 - 1) : h[k + 1] = F[<<h[k], k + 1>>]
      BY <2>4, <3>1
    <3> HIDE DEF h
    <3> QED BY <2>2, <2>3, <3>2 DEF Iteration
  <2> QED BY <2>2, <2>5
<1>3. Nat \subseteq S
  <2> HIDE DEF S
  <2> QED BY <1>1, <1>2, SetInduction
<1> QED BY <1>3

\* Two runs of one function from one value agree as far as both go.
LEMMA IterationUnique ==
  ASSUME NEW X, NEW x0 \in X, NEW F \in [X \X Nat -> X],
         NEW m \in Nat, NEW p \in Nat, NEW g, NEW h,
         Iteration(g, X, x0, F, m), Iteration(h, X, x0, F, p)
  PROVE  \A k \in Nat : k <= m /\ k <= p => g[k] = h[k]
<1> DEFINE S == {k \in Nat : k <= m /\ k <= p => g[k] = h[k]}
<1>1. 0 \in S
  BY DEF Iteration
<1>2. ASSUME NEW k \in Nat, k \in S PROVE k + 1 \in S
  <2>1. SUFFICES ASSUME k + 1 <= m, k + 1 <= p PROVE g[k + 1] = h[k + 1]
    OBVIOUS
  <2>2. k \in 0..(m - 1) /\ k \in 0..(p - 1) /\ g[k] = h[k]
    BY <1>2, <2>1
  <2> QED BY <2>2 DEF Iteration
<1>3. Nat \subseteq S
  <2> HIDE DEF S
  <2> QED BY <1>1, <1>2, SetInduction
<1> QED BY <1>3

\* A function defined by primitive recursion over the natural numbers exists.
THEOREM RecursionExists ==
  ASSUME NEW X, NEW x0 \in X, NEW F \in [X \X Nat -> X]
  PROVE  \E g \in [Nat -> X] : /\ g[0] = x0
                               /\ \A k \in Nat : g[k + 1] = F[<<g[k], k + 1>>]
<1> DEFINE c == [m \in Nat |-> CHOOSE g \in [0..m -> X] : Iteration(g, X, x0, F, m)]
<1>1. \A m \in Nat : c[m] \in [0..m -> X] /\ Iteration(c[m], X, x0, F, m)
  BY IterationExists
<1> HIDE DEF c
<1> DEFINE G == [k \in Nat |-> c[k][k]]
<1>2. G \in [Nat -> X]
  BY <1>1
<1>3. G[0] = x0
  BY <1>1 DEF Iteration
<1>4. ASSUME NEW k \in Nat PROVE G[k + 1] = F[<<G[k], k + 1>>]
  <2>1. c[k + 1][k + 1] = F[<<c[k + 1][k], k + 1>>]
    <3>1. k + 1 \in Nat /\ k \in 0..(k + 1 - 1)
      OBVIOUS
    <3> QED BY <1>1, <3>1 DEF Iteration
  <2>2. c[k + 1][k] = c[k][k]
    <3>1. Iteration(c[k + 1], X, x0, F, k + 1) /\ Iteration(c[k], X, x0, F, k)
      BY <1>1
    <3>2. \A i \in Nat : i <= k + 1 /\ i <= k => c[k + 1][i] = c[k][i]
      <4> DEFINE gg == c[k + 1]
                 hh == c[k]
                 m == k + 1
      <4>1. Iteration(gg, X, x0, F, m) /\ Iteration(hh, X, x0, F, k) /\ m \in Nat
        BY <3>1
      <4> HIDE DEF gg, hh, m
      <4>2. \A i \in Nat : i <= m /\ i <= k => gg[i] = hh[i]
        BY <4>1, IterationUnique
      <4> QED BY <4>2 DEF gg, hh, m
    <3> QED BY <3>2
  <2> QED BY <2>1, <2>2
<1> QED BY <1>2, <1>3, <1>4

\* g[0] is x0, and F makes g[k] of g[k - 1] and k, up to index m.
Iterates(g, X, x0, F, m) ==
  /\ g \in [0..m -> X]
  /\ g[0] = x0
  /\ \A k \in 1..m : g[k] = F[<<g[k - 1], k>>]

\* A function defined by primitive recursion over 0..m exists: what a loop over
\* a sequence of m elements computes is well defined.
THEOREM BoundedRecursionExists ==
  ASSUME NEW X, NEW x0 \in X, NEW m \in Nat, NEW F \in [X \X (1..m) -> X]
  PROVE  \E g : Iterates(g, X, x0, F, m)
<1> DEFINE H == [p \in X \X Nat |-> IF p[2] \in 1..m THEN F[p] ELSE p[1]]
<1>1. H \in [X \X Nat -> X]
  <2>1. ASSUME NEW p \in X \X Nat PROVE (IF p[2] \in 1..m THEN F[p] ELSE p[1]) \in X
    <3>1. CASE p[2] \in 1..m
      BY <3>1, p \in X \X (1..m)
    <3> QED BY <3>1
  <2> QED BY <2>1
<1>2. \A x \in X, k \in 1..m : H[<<x, k>>] = F[<<x, k>>]
  OBVIOUS
<1> HIDE DEF H
<1>3. PICK g \in [0..m -> X] : Iteration(g, X, x0, H, m)
  BY <1>1, IterationExists
<1>4. ASSUME NEW k \in 1..m PROVE g[k] = F[<<g[k - 1], k>>]
  <2>1. k - 1 \in 0..(m - 1) /\ k - 1 \in 0..m /\ k - 1 + 1 = k
    OBVIOUS
  <2>2. g[k] = H[<<g[k - 1], k>>]
    BY <1>3, <2>1 DEF Iteration
  <2> QED BY <1>2, <2>1, <2>2
<1>5. g[0] = x0
  BY <1>3 DEF Iteration
<1> QED BY <1>3, <1>4, <1>5 DEF Iterates

\* What holds of the first value of a loop and is kept by each of its m steps
\* holds of every value.
LEMMA LoopInvariant ==
  ASSUME NEW f, NEW X, NEW m \in Nat, f[0] \in X,
         \A k \in 1..m : f[k - 1] \in X => f[k] \in X
  PROVE  \A k \in 0..m : f[k] \in X
<1> DEFINE S == {k \in Nat : k <= m => f[k] \in X}
<1>1. 0 \in S
  OBVIOUS
<1>2. ASSUME NEW k \in Nat, k \in S PROVE k + 1 \in S
  <2>1. SUFFICES ASSUME k + 1 <= m PROVE f[k + 1] \in X
    OBVIOUS
  <2>2. k + 1 \in 1..m /\ k + 1 - 1 = k /\ f[k] \in X
    BY <1>2, <2>1
  <2> QED BY <2>2
<1>3. Nat \subseteq S
  <2> HIDE DEF S
  <2> QED BY <1>1, <1>2, SetInduction
<1> QED BY <1>3

-----------------------------------------------------------------------------

\* A remainder modulo n is a scalar.
LEMMA ModRange == \A n \in Nat \ {0}, x \in Int : x % n \in 0..(n-1)
OBVIOUS

\* Euclidean division.
LEMMA DivMod == \A n \in Nat \ {0}, x \in Int : x \div n \in Int /\ x = n * (x \div n) + (x % n)
OBVIOUS

\* A nonzero multiple of n is at least n away from zero.
LEMMA MulPos == ASSUME NEW n \in Nat \ {0}, NEW k \in Int, k # 0 PROVE n * k >= n \/ n * k <= -n
<1>1. CASE k >= 1
  <2>1. n * k = n * (k - 1) + n BY <1>1
  <2>2. k - 1 \in Nat BY <1>1
  <2>3. \A j \in Nat : n * j >= 0 OBVIOUS
  <2> QED BY <2>1, <2>2, <2>3
<1>2. CASE k <= -1
  <2>1. n * k = -(n * (-k - 1)) - n BY <1>2
  <2>2. -k - 1 \in Nat BY <1>2
  <2>3. \A j \in Nat : n * j >= 0 OBVIOUS
  <2> QED BY <2>1, <2>2, <2>3
<1> QED BY <1>1, <1>2

\* Numbers that differ by a multiple of n have one remainder.
LEMMA ModUnique == ASSUME NEW n \in Nat \ {0}, NEW x \in Int, NEW y \in Int, NEW q \in Int, x = y + n * q PROVE x % n = y % n
<1> DEFINE a == x % n
           b == y % n
           u == x \div n
           v == y \div n
<1>1. a \in 0..(n-1) /\ b \in 0..(n-1) /\ u \in Int /\ v \in Int /\ x = n * u + a /\ y = n * v + b
  BY DivMod, ModRange
<1> HIDE DEF a, b, u, v
<1> DEFINE k == v + q - u
<1>2. k \in Int /\ a - b = n * k
  BY <1>1
<1> HIDE DEF k
<1>3. k = 0
  BY <1>1, <1>2, MulPos
<1>4. a = b
  BY <1>1, <1>2, <1>3
<1> QED BY <1>4 DEF a, b

\* A term of a sum may be reduced before the sum is.
LEMMA ModAdd == ASSUME NEW n \in Nat \ {0}, NEW x \in Int, NEW y \in Int PROVE ((x % n) + y) % n = (x + y) % n
<1> DEFINE q == x \div n
           r == x % n
<1>1. q \in Int /\ r \in Int /\ x = n * q + r
  BY DivMod, ModRange
<1> HIDE DEF q, r
<1>2. r + y = (x + y) + n * (-q)
  BY <1>1
<1>3. r + y \in Int /\ x + y \in Int /\ -q \in Int
  BY <1>1
<1>4. (r + y) % n = (x + y) % n
  BY <1>2, <1>3, ModUnique
<1> QED BY <1>4 DEF r

\* A factor of a product may be reduced before the product is.
LEMMA ModMul == ASSUME NEW n \in Nat \ {0}, NEW x \in Int, NEW y \in Int PROVE ((x % n) * y) % n = (x * y) % n
<1> DEFINE q == x \div n
           r == x % n
<1>1. q \in Int /\ r \in Int /\ x = n * q + r
  BY DivMod, ModRange
<1> HIDE DEF q, r
<1>2. r * y = x * y + n * (-(q * y))
  BY <1>1
<1>3. -(q * y) \in Int /\ r * y \in Int /\ x * y \in Int
 BY <1>1
<1>4. (r * y) % n = (x * y) % n
  BY <1>2, <1>3, ModUnique
<1> QED BY <1>4 DEF r

-----------------------------------------------------------------------------
\* Congruence modulo n.
Cong(n, x, y) == x % n = y % n

\* A number is congruent to its remainder.
LEMMA CongMod ==
  ASSUME NEW n \in Nat \ {0}, NEW x \in Int
  PROVE  x % n \in Int /\ Cong(n, x % n, x) /\ Cong(n, x, x % n)
<1>1. x % n \in 0..(n - 1)
  BY ModRange
<1>2. \A r \in 0..(n - 1) : r % n = r
  OBVIOUS
<1> QED BY <1>1, <1>2 DEF Cong

\* Numbers that differ by a multiple of n are congruent.
LEMMA CongShift ==
  ASSUME NEW n \in Nat \ {0}, NEW x \in Int, NEW y \in Int, NEW q \in Int, x = y + n * q
  PROVE  Cong(n, x, y)
BY ModUnique DEF Cong

\* Congruence is transitive and symmetric.
LEMMA CongTrans ==
  ASSUME NEW n, NEW x, NEW y, NEW z, Cong(n, x, y), Cong(n, y, z)
  PROVE  Cong(n, x, z) /\ Cong(n, y, x)
BY DEF Cong

\* Sums of congruent numbers are congruent.
LEMMA CongAdd ==
  ASSUME NEW n \in Nat \ {0}, NEW x \in Int, NEW y \in Int, NEW u \in Int, NEW v \in Int,
         Cong(n, x, y), Cong(n, u, v)
  PROVE  Cong(n, x + u, y + v)
<1>1. (x + u) % n = ((x % n) + u) % n
  BY ModAdd
<1>2. ((y % n) + u) % n = (y + u) % n
  BY ModAdd
<1>3. (u + y) % n = ((u % n) + y) % n
  BY ModAdd
<1>4. ((v % n) + y) % n = (v + y) % n
  BY ModAdd
<1>5. y + u = u + y /\ v + y = y + v
  OBVIOUS
<1> QED BY <1>1, <1>2, <1>3, <1>4, <1>5 DEF Cong

\* Products of congruent numbers are congruent.
LEMMA CongMul ==
  ASSUME NEW n \in Nat \ {0}, NEW x \in Int, NEW y \in Int, NEW u \in Int, NEW v \in Int,
         Cong(n, x, y), Cong(n, u, v)
  PROVE  Cong(n, x * u, y * v)
<1>1. (x * u) % n = ((x % n) * u) % n
  BY ModMul
<1>2. ((y % n) * u) % n = (y * u) % n
  BY ModMul
<1>3. (u * y) % n = ((u % n) * y) % n
  BY ModMul
<1>4. ((v % n) * y) % n = (v * y) % n
  BY ModMul
<1>5. y * u = u * y /\ v * y = y * v
  OBVIOUS
<1> QED BY <1>1, <1>2, <1>3, <1>4, <1>5 DEF Cong

-----------------------------------------------------------------------------
(* Signatures as congruences: c + r*q = k*s for the challenge c, the key q *)
(* and the nonce k.                                                        *)

\* Multiples of h, modulo n*h, count modulo n.
LEMMA ScaledMod ==
  ASSUME NEW n \in Nat \ {0}, NEW h \in Nat \ {0}, NEW y \in Int
  PROVE  (y * h) % (n * h) = (y % n) * h
<1> DEFINE d == y \div n
           r == y % n
           N == n * h
<1>0. \A x, z \in Nat : x > 0 /\ z > 0 => x * z \in Nat /\ x * z > 0
  OBVIOUS
<1>1. n \in Nat \ {0} /\ h \in Nat \ {0} /\ N \in Nat \ {0} /\ N = n * h
  BY <1>0
<1>2. d \in Int /\ y = n * d + r
  BY <1>1, DivMod
<1>3. r \in 0..(n - 1)
  BY <1>1, ModRange
<1> HIDE DEF d, r, N
<1>4. \A x, z, u, w \in Int : (x * z + u) * w = u * w + (x * w) * z
  OBVIOUS
<1>5. y * h = r * h + N * d
  BY <1>1, <1>2, <1>3, <1>4
<1>6. r * h \in Int /\ y * h \in Int
  BY <1>1, <1>3
<1>7. (y * h) % N = (r * h) % N
  <2> DEFINE Y == y * h
             R == r * h
  <2>1. Y \in Int /\ R \in Int /\ Y = R + N * d
    BY <1>5, <1>6
  <2> HIDE DEF Y, R
  <2>2. Y % N = R % N
    BY <1>1, <1>2, <2>1, ModUnique
  <2> QED BY <2>2 DEF Y, R
<1>8. r * h >= 0 /\ r * h < N
  <2>1. \A x, z, w \in Nat : w > 0 /\ x < z => x * w >= 0 /\ x * w < z * w
    OBVIOUS
  <2>2. r \in Nat /\ r < n
    BY <1>1, <1>3
  <2> QED BY <1>1, <2>1, <2>2
<1>9. \A x \in Int, m \in Nat : m > 0 /\ x >= 0 /\ x < m => x % m = x
  OBVIOUS
<1>10. (r * h) % N = r * h
  <2> DEFINE z == r * h
  <2>1. z \in Int /\ z >= 0 /\ z < N /\ N \in Nat /\ N > 0
    BY <1>1, <1>6, <1>8
  <2> HIDE DEF z
  <2>2. z % N = z
    BY <1>9, <2>1
  <2> QED BY <2>2 DEF z
<1> QED BY <1>7, <1>10 DEF r, N

\* What a verifier recomputes with the inverse of s is the nonce.
LEMMA VerifiedCong ==
  ASSUME NEW n \in Nat \ {0}, n > 1, NEW c \in Int, NEW q \in Int, NEW k \in Int,
         NEW r \in Int, NEW s \in Int, NEW w \in Int, (s * w) % n = 1,
         Cong(n, c + r * q, k * s)
  PROVE  Cong(n, (r * w) * q + c * w, k)
<1> DEFINE t == c + r * q
           u == (r * w) * q + c * w
           b == s * w
<1>1. t \in Int /\ u \in Int /\ b \in Int /\ k * s \in Int
  OBVIOUS
<1>2. u = w * t /\ k * b = w * (k * s) /\ k * 1 = k /\ 1 % n = 1
  OBVIOUS
<1>3. Cong(n, w, w) /\ Cong(n, k, k) /\ Cong(n, t, k * s)
  BY DEF Cong
<1>4. Cong(n, b, 1)
  BY <1>2 DEF Cong
<1> HIDE DEF t, u, b
<1>5. Cong(n, w * t, w * (k * s))
  BY <1>1, <1>3, CongMul
<1>6. Cong(n, k * b, k * 1)
  BY <1>1, <1>3, <1>4, CongMul
<1>7. Cong(n, u, k)
  BY <1>2, <1>5, <1>6, CongTrans
<1> QED BY <1>7 DEF u

\* The s that signing solves for with the inverse of the nonce.
LEMMA SolvedCong ==
  ASSUME NEW n \in Nat \ {0}, n > 1, NEW c \in Int, NEW q \in Int, NEW k \in Int,
         NEW r \in Int, NEW w \in Int, (k * w) % n = 1
  PROVE  /\ (w * (c + r * q)) % n \in 0..(n - 1)
         /\ Cong(n, c + r * q, k * ((w * (c + r * q)) % n))
<1> DEFINE t == c + r * q
           y == w * t
           s == y % n
           b == k * w
<1>1. t \in Int /\ y \in Int /\ b \in Int
  OBVIOUS
<1>2. k * y = b * t /\ 1 * t = t /\ 1 % n = 1
  OBVIOUS
<1>3. Cong(n, k, k) /\ Cong(n, t, t)
  BY DEF Cong
<1>4. Cong(n, b, 1)
  BY <1>2 DEF Cong
<1> HIDE DEF t, y, b
<1>5. s \in 0..(n - 1) /\ s \in Int /\ Cong(n, s, y)
  BY <1>1, CongMod, ModRange
<1> HIDE DEF s
<1>6. Cong(n, k * s, k * y)
  BY <1>1, <1>3, <1>5, CongMul
<1>7. Cong(n, b * t, 1 * t)
  BY <1>1, <1>3, <1>4, CongMul
<1>8. Cong(n, t, k * s)
  BY <1>2, <1>6, <1>7 DEF Cong
<1> QED BY <1>5, <1>8 DEF t, y, s

\* Negating s negates the nonce.
LEMMA NegatedCong ==
  ASSUME NEW n \in Nat \ {0}, NEW t \in Int, NEW k \in Int, NEW s \in Int, Cong(n, t, k * s)
  PROVE  Cong(n, t, (n - k) * (n - s))
<1> DEFINE x == (n - k) * (n - s)
           y == k * s
           d == n - k - s
<1>1. x \in Int /\ y \in Int /\ d \in Int /\ x = y + n * d
  OBVIOUS
<1> HIDE DEF x, d
<1>2. Cong(n, x, y)
  BY <1>1, CongShift
<1>3. Cong(n, t, x)
  BY <1>2 DEF Cong
<1> QED BY <1>3 DEF x

-----------------------------------------------------------------------------
(***************************************************************************)
(* Numbers written in octets.  The provers do not read the definition of ^ *)
(* in the standard module, which is by recursion: Doubling is its second   *)
(* equation, for the powers of two.                                        *)
(***************************************************************************)
Doubling == \A k \in Nat : 2^(k + 1) = 2 * 2^k

\* Powers of two are positive.
LEMMA PowerPositive ==
  ASSUME Doubling, NEW k \in Nat
  PROVE  2^k \in Nat \ {0}
<1> DEFINE T == {i \in Nat : 2^i \in Nat /\ 2^i > 0}
<1>1. 0 \in T
  OBVIOUS
<1>2. ASSUME NEW i \in Nat, i \in T PROVE i + 1 \in T
  <2>1. 2^(i + 1) = 2 * 2^i
    BY DEF Doubling
  <2>2. PICK x \in Nat : x = 2^i /\ x > 0
    BY <1>2
  <2>3. 2^(i + 1) \in Nat /\ 2^(i + 1) > 0
    BY <2>1, <2>2
  <2> QED BY <2>3
<1>3. Nat \subseteq T
  BY <1>1, <1>2, SetInduction
<1> QED BY <1>3

\* The power of a sum is the product of the powers.
LEMMA PowerOfSum ==
  ASSUME Doubling, NEW k \in Nat, NEW l \in Nat
  PROVE  2^(k + l) = 2^k * 2^l
<1> DEFINE T == {i \in Nat : 2^(k + i) = 2^k * 2^i}
<1>1. 0 \in T
  <2>1. 2^0 = 1 /\ k + 0 = k
    OBVIOUS
  <2>2. 2^k \in Nat
    BY PowerPositive
  <2>3. PICK x \in Nat : x = 2^k
    BY <2>2
  <2>4. 2^(k + 0) = 2^k * 2^0
    BY <2>1, <2>3
  <2> QED BY <2>4
<1>2. ASSUME NEW i \in Nat, i \in T PROVE i + 1 \in T
  <2>1. 2^(i + 1) = 2 * 2^i /\ 2^((k + i) + 1) = 2 * 2^(k + i) /\ k + (i + 1) = (k + i) + 1
    BY DEF Doubling
  <2>2. PICK x \in Nat : x = 2^k
    BY PowerPositive
  <2>3. PICK y \in Nat : y = 2^i
    BY PowerPositive
  <2>4. 2^(k + i) = x * y
    BY <1>2, <2>2, <2>3
  <2>5. 2^(k + (i + 1)) = 2 * (x * y) /\ 2^(i + 1) = 2 * y
    BY <2>1, <2>3, <2>4
  <2>6. 2 * (x * y) = x * (2 * y)
    OBVIOUS
  <2>7. 2^(k + (i + 1)) = 2^k * 2^(i + 1)
    BY <2>2, <2>5, <2>6
  <2> QED BY <2>7
<1>3. Nat \subseteq T
  BY <1>1, <1>2, SetInduction
<1> QED BY <1>3

\* A product grows with a factor.
LEMMA ProductGrows ==
  ASSUME NEW d \in Nat \ {0}, NEW x \in Int, NEW y \in Int, x < y
  PROVE  d * x + d <= d * y
<1>1. y - x >= 1 /\ y - x \in Nat
  OBVIOUS
<1>2. \A m \in Nat : m >= 1 => d * m >= d
  OBVIOUS
<1>3. d * (y - x) >= d
  BY <1>1, <1>2
<1>4. d * (y - x) = d * y - d * x
  OBVIOUS
<1>5. d * x \in Int /\ d * y \in Int
  OBVIOUS
<1> QED BY <1>3, <1>4, <1>5

\* A quotient is known by its rest.
LEMMA QuotientIs ==
  ASSUME NEW d \in Nat \ {0}, NEW x \in Int, NEW q \in Int, NEW rest \in 0..(d - 1),
         x = d * q + rest
  PROVE  x \div d = q
<1>1. PICK u \in Int, w \in 0..(d - 1) : u = x \div d /\ x = d * u + w
  BY DivMod, ModRange
<1>2. d * q \in Int /\ d * u \in Int
  OBVIOUS
<1>3. ~(u < q)
  <2>1. u < q => d * u + d <= d * q
    BY ProductGrows
  <2> QED BY <1>1, <1>2, <2>1
<1>4. ~(q < u)
  <2>1. q < u => d * q + d <= d * u
    BY ProductGrows
  <2> QED BY <1>1, <1>2, <2>1
<1> QED BY <1>1, <1>3, <1>4

\* Dividing twice is dividing by the product.
LEMMA QuotientOfQuotient ==
  ASSUME NEW c \in Nat \ {0}, NEW d \in Nat \ {0}, NEW x \in Int
  PROVE  (x \div c) \div d = x \div (c * d)
<1>1. PICK q \in Int, v \in 0..(c - 1) : q = x \div c /\ x = c * q + v
  BY DivMod, ModRange
<1>2. PICK u \in Int, w \in 0..(d - 1) : u = q \div d /\ q = d * u + w
  BY DivMod, ModRange
<1>3. c * d \in Nat \ {0}
  OBVIOUS
<1>4. c * q = (c * d) * u + c * w
  <2>1. c * (d * u + w) = (c * d) * u + c * w
    OBVIOUS
  <2> QED BY <1>2, <2>1
<1>5. c * w + v \in 0..(c * d - 1)
  <2>1. c * w + c <= c * d
    BY <1>2, ProductGrows
  <2>2. c * w \in Nat
    BY <1>2
  <2> QED BY <1>1, <1>3, <2>1, <2>2
<1>6. x = (c * d) * u + (c * w + v)
  <2>1. c * w \in Int /\ (c * d) * u \in Int /\ c * q \in Int
    BY <1>3
  <2> QED BY <1>1, <1>4, <2>1
<1>7. x \div (c * d) = u
  BY <1>3, <1>5, <1>6, QuotientIs
<1> QED BY <1>1, <1>2, <1>7

\* A number below the divisor has the quotient 0.
LEMMA SmallQuotient ==
  ASSUME NEW d \in Nat \ {0}, NEW z \in 0..(d - 1)
  PROVE  z \div d = 0
<1>1. PICK q \in Int : q = 0
  OBVIOUS
<1>2. z = d * q + z /\ z \in Int
  BY <1>1
<1>3. z \div d = q
  BY <1>2, QuotientIs
<1> QED BY <1>1, <1>3

\* A number is known by its digits in base 2^O, of which there are enough.
LEMMA DigitsTell ==
  ASSUME Doubling, NEW bits \in Nat \ {0}, NEW k \in Nat,
         NEW x \in 0..(2^(bits * k) - 1), NEW y \in 0..(2^(bits * k) - 1),
         \A i \in 1..k : (x \div 2^(bits * (k - i))) % 2^bits = (y \div 2^(bits * (k - i))) % 2^bits
  PROVE  x = y
<1> DEFINE P(j) == 2^(bits * j)
           T == {m \in Nat : m <= k => x \div P(k - m) = y \div P(k - m)}
<1>1. \A j \in Nat : P(j) \in Nat \ {0} /\ P(j + 1) = P(j) * 2^bits
  <2> SUFFICES ASSUME NEW j \in Nat PROVE P(j) \in Nat \ {0} /\ P(j + 1) = P(j) * 2^bits
    OBVIOUS
  <2>1. bits * j \in Nat /\ bits * (j + 1) = bits * j + bits
    OBVIOUS
  <2>2. 2^(bits * j + bits) = 2^(bits * j) * 2^bits
    BY <2>1, PowerOfSum
  <2> QED BY <2>1, <2>2, PowerPositive
<1>2. 2^bits \in Nat \ {0}
  BY PowerPositive
<1>3. P(0) = 1
  <2>1. bits * 0 = 0 /\ 2^0 = 1
    OBVIOUS
  <2> QED BY <2>1, Zenon
<1>4. x \in 0..(P(k) - 1) /\ y \in 0..(P(k) - 1) /\ x \in Int /\ y \in Int
  BY <1>1
<1>5. \A i \in 1..k : (x \div P(k - i)) % 2^bits = (y \div P(k - i)) % 2^bits
  OBVIOUS
<1> HIDE DEF P
<1>6. 0 \in T
  <2>1. PICK d \in Nat \ {0} : d = P(k) /\ x \in 0..(d - 1) /\ y \in 0..(d - 1)
    BY <1>1, <1>4
  <2>3. x \div d = 0
    BY <2>1, SmallQuotient
  <2>4. y \div d = 0
    BY <2>1, SmallQuotient
  <2>5. 0 <= k => x \div P(k - 0) = y \div P(k - 0)
    BY <2>1, <2>3, <2>4
  <2> QED BY <2>5
<1>7. ASSUME NEW m \in Nat, m \in T PROVE m + 1 \in T
  <2> SUFFICES ASSUME m + 1 <= k PROVE x \div P(k - (m + 1)) = y \div P(k - (m + 1))
    OBVIOUS
  <2>1. PICK j \in Nat : j = k - (m + 1) /\ j + 1 = k - m /\ m + 1 \in 1..k /\ k - (m + 1) = j
    OBVIOUS
  <2>2. (x \div P(j)) % 2^bits = (y \div P(j)) % 2^bits
    BY <1>5, <2>1
  <2>3. x \div P(j + 1) = y \div P(j + 1)
    BY <1>7, <2>1
  <2>4. P(j) \in Nat \ {0} /\ P(j + 1) = P(j) * 2^bits
    BY <1>1
  <2>5. PICK u \in Int : u = x \div P(j)
    BY <1>4, <2>4, DivMod
  <2>6. PICK v \in Int : v = y \div P(j)
    BY <1>4, <2>4, DivMod
  <2>7. u \div 2^bits = v \div 2^bits /\ u % 2^bits = v % 2^bits
    BY <1>2, <1>4, <2>2, <2>3, <2>4, <2>5, <2>6, QuotientOfQuotient
  <2>8. u = v
    BY <1>2, <2>7, DivMod
  <2> QED BY <2>1, <2>5, <2>6, <2>8
<1>8. Nat \subseteq T
  BY <1>6, <1>7, SetInduction
<1>9. x \div P(0) = y \div P(0)
  <2>1. k \in T /\ k - k = 0
    BY <1>8
  <2> QED BY <2>1
<1>10. x \div 1 = x /\ y \div 1 = y
  BY <1>4
<1> QED BY <1>3, <1>9, <1>10

\* A quotient rounded up is the least number that reaches.
LEMMA CeilReaches ==
  ASSUME NEW x \in Int, NEW d \in Nat \ {0}
  PROVE  /\ (x + d - 1) \div d \in Int
         /\ ((x + d - 1) \div d) * d >= x
         /\ \A m \in Int : x <= m * d => (x + d - 1) \div d <= m
         /\ x > 0 => (x + d - 1) \div d >= 1
<1>1. PICK q \in Int, w \in 0..(d - 1) : q = (x + d - 1) \div d /\ x + d - 1 = d * q + w
  BY DivMod, ModRange
<1>2. d * q \in Int /\ q * d = d * q
  OBVIOUS
<1>3. q * d >= x
  BY <1>1, <1>2
<1>4. ASSUME NEW m \in Int, x <= m * d PROVE q <= m
  <2>1. m < q => d * m + d <= d * q
    BY ProductGrows
  <2>2. d * m \in Int /\ m * d = d * m
    OBVIOUS
  <2> QED BY <1>1, <1>2, <1>4, <2>1, <2>2
<1>5. x > 0 => q >= 1
  <2>1. q < 1 => d * q + d <= d * 1
    BY ProductGrows
  <2> QED BY <1>1, <1>2, <2>1
<1> QED BY <1>1, <1>3, <1>4, <1>5
=============================================================================
