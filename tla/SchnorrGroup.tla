---------------------------- MODULE SchnorrGroup ----------------------------
(***************************************************************************)
(* What the BIP340 signatures add to the group: the parity of y, the       *)
(* challenge, and the verification of a signature (ecc/ssa.py).            *)
(*                                                                         *)
(* An affine y-coordinate enters the schemes only by its parity, and of a  *)
(* point and its negation exactly one has an odd one: the set OddY says    *)
(* which.  An x-coordinate is named by the one point with an even y it     *)
(* lifts to.                                                               *)
(***************************************************************************)
EXTENDS PrimeGroup, ArithmeticLemmas

CONSTANTS
  OddY,       \* the points whose affine y-coordinate is odd
  Msg,        \* the messages
  Challenge   \* Challenge[x_K, x_Q, msg]: the challenge, reduced mod n

ASSUME GroupAssumption ==
  /\ OddY \subseteq Finite
  /\ \A P \in Finite : P \in OddY <=> (n - P) \notin OddY
  /\ Challenge \in [Scalar \X Scalar \X Msg -> Scalar]

-----------------------------------------------------------------------------
HasOddY(P) == P \in OddY

\* The point with an even y-coordinate among P and its negation: what an
\* x-only public key, or the r of a signature, stands for.
XOnly(P) == IF HasOddY(P) THEN Negate(P) ELSE P

\* n - k for a point with an odd y-coordinate, k for the others: the one
\* conditional negation that BIP340, MuSig2 and FROST all apply to nonces.
FlipIfOdd(P, k) == IF HasOddY(P) THEN (n - k) % n ELSE k

\* Sig.assert_valid: r is the x-coordinate of a point, s a scalar.
IsSig(r, s) == r \in Finite /\ ~HasOddY(r) /\ s \in Scalar

\* BIP340 verification of the signature (r, s) of msg under the x-only key
\* x_Q: the challenge must not be zero, and K = s*G - c*Q must be a finite
\* point with an even y-coordinate whose x-coordinate is r.
SchnorrVerifies(x_Q, msg, r, s) ==
  LET c == Challenge[r, x_Q, msg]
      K == Add(Mult(n - c, x_Q), Mult(s, G))
  IN  /\ IsSig(r, s)
      /\ c # 0
      /\ K # INF
      /\ ~HasOddY(K)
      /\ K = r

-----------------------------------------------------------------------------
(***************************************************************************)
(* Lemmas the proofs about the multi-signatures share: the group modulo n, *)
(* sums of points, and the equations of a partial signature, of the tweaks *)
(* and of a signature, for every order and every set of odd points.        *)
(***************************************************************************)
LEMMA OrderPositive == n \in Nat \ {0} /\ n > 2
BY OrderAssumption, GroupAssumption

\* Every integer is congruent to itself.
LEMMA CongSelf == \A x : Cong(n, x, x)
BY DEF Cong

\* Congruence modulo n is kept by a multiplication.
LEMMA CongScale ==
  ASSUME NEW a \in Int, NEW x \in Int, NEW y \in Int, Cong(n, x, y)
  PROVE  Cong(n, a * x, a * y) /\ a * x \in Int /\ a * y \in Int
<1>1. Cong(n, a * x, a * y)
  BY OrderPositive, CongSelf, CongMul
<1> QED BY <1>1

\* Congruence modulo n is kept by a sum.
LEMMA CongSum ==
  ASSUME NEW x \in Int, NEW y \in Int, NEW u \in Int, NEW v \in Int,
         Cong(n, x, y), Cong(n, u, v)
  PROVE  Cong(n, x + u, y + v) /\ x + u \in Int /\ y + v \in Int
<1>1. Cong(n, x + u, y + v)
  BY OrderPositive, CongAdd
<1> QED BY <1>1

\* Reduced numbers that are congruent are equal.
LEMMA CongScalars ==
  ASSUME NEW x \in Scalar, NEW y \in Scalar, Cong(n, x, y)
  PROVE  x = y
<1>1. \A z \in Scalar : z % n = z
  BY OrderPositive DEF Scalar
<1> QED BY <1>1 DEF Cong

\* Reduction modulo n.
LEMMA CongReduce ==
  ASSUME NEW x \in Int
  PROVE  x % n \in Scalar /\ x % n \in Int /\ Cong(n, x % n, x) /\ Cong(n, x, x % n)
BY OrderPositive, CongMod, ModRange DEF Scalar

\* A point and its negation.
LEMMA CongNegate ==
  ASSUME NEW x \in Int
  PROVE  /\ Cong(n, n - x, (n - 1) * x) /\ Cong(n, n - x, -x) /\ Cong(n, (n - 1) * x, -x)
         /\ n - x \in Int /\ (n - 1) * x \in Int /\ -x \in Int
<1>1. n \in Nat \ {0} /\ n - x \in Int /\ (n - 1) * x \in Int /\ -x \in Int
  BY OrderPositive
<1>2. n - x = -x + n * 1 /\ (n - 1) * x = -x + n * x
  BY <1>1
<1>3. Cong(n, n - x, -x) /\ Cong(n, (n - 1) * x, -x)
  <2> DEFINE p == n - x
             q == (n - 1) * x
             r == -x
  <2>1. p \in Int /\ q \in Int /\ r \in Int /\ p = r + n * 1 /\ q = r + n * x
          /\ 1 \in Int
    BY <1>1, <1>2
  <2> HIDE DEF p, q, r
  <2>2. Cong(n, p, r)
    BY <1>1, <2>1, CongShift, Zenon
  <2>3. Cong(n, q, r)
    BY <1>1, <2>1, CongShift
  <2> QED BY <2>2, <2>3 DEF p, q, r
<1> QED BY <1>1, <1>3 DEF Cong

LEMMA GroupClosed ==
  ASSUME NEW P \in Int, NEW Q \in Int
  PROVE  Add(P, Q) \in Point /\ Negate(P) \in Point /\ Mult(P, Q) \in Point
<1>1. \A x \in Int : x % n \in 0..(n - 1)
  BY OrderPositive, ModRange
<1>2. P + Q \in Int /\ n - P \in Int /\ P * Q \in Int
  BY OrderPositive
<1> QED BY <1>1, <1>2 DEF Add, Negate, Mult, Point

\* Of a finite point the x-only one is a finite point.
LEMMA XOnlyFinite ==
  ASSUME NEW P \in Finite
  PROVE  XOnly(P) \in Finite
<1>1. n - P \in 1..(n - 1) /\ (n - P) % n = n - P
  BY OrderPositive DEF Finite, Point, INF
<1> QED BY <1>1 DEF XOnly, Negate, Finite, Point, INF

\* A sequence given by a function on 1..m has length m.
LEMMA LenOfFunction ==
  ASSUME NEW s, NEW m \in Nat, DOMAIN s = 1..m
  PROVE  Len(s) = m
OBVIOUS

\* The partial sums of a sequence of integers are scalars, each made of the one
\* before it and the next term.
LEMMA PartialSumsStep ==
  ASSUME NEW s, NEW m \in Nat, Len(s) = m, \A i \in 1..m : s[i] \in Int
  PROVE /\ PartialSums(s) \in [0..m -> Scalar]
        /\ PartialSums(s)[0] = 0
        /\ \A i \in 1..m : PartialSums(s)[i] = (PartialSums(s)[i - 1] + s[i]) % n
<1> DEFINE F == [p \in Scalar \X (1..m) |-> (p[1] + s[p[2]]) % n]
<1>1. F \in [Scalar \X (1..m) -> Scalar]
  BY OrderPositive DEF Scalar
<1>2. \A x \in Scalar, i \in 1..m : F[<<x, i>>] = (x + s[i]) % n
  OBVIOUS
<1> HIDE DEF F
<1>3. 0 \in Scalar
  BY OrderPositive DEF Scalar
<1>4. PICK g : Iterates(g, Scalar, 0, F, m)
  BY <1>1, <1>3, BoundedRecursionExists
<1>5. g \in [0..m -> Scalar] /\ g[0] = 0 /\ \A k \in 1..m : g[k] = (g[k - 1] + s[k]) % n
  <2>1. \A k \in 1..m : g[k - 1] \in Scalar
    BY <1>4 DEF Iterates
  <2> QED BY <1>2, <1>4, <2>1 DEF Iterates
<1>6. g = [i \in 0..m |-> IF i = 0 THEN 0 ELSE (g[i - 1] + s[i]) % n]
  BY <1>5
<1>7. PartialSums(s)
        = CHOOSE h : h = [i \in 0..m |-> IF i = 0 THEN 0 ELSE (h[i - 1] + s[i]) % n]
  BY DEF PartialSums
<1>8. PartialSums(s)
        = [i \in 0..m |-> IF i = 0 THEN 0 ELSE (PartialSums(s)[i - 1] + s[i]) % n]
  BY <1>6, <1>7
<1> DEFINE h == PartialSums(s)
<1>9. h = [i \in 0..m |-> IF i = 0 THEN 0 ELSE (h[i - 1] + s[i]) % n]
  BY <1>8
<1> HIDE DEF h
<1>10. h[0] = 0 /\ \A i \in 1..m : h[i] = (h[i - 1] + s[i]) % n
  <2>1. \A i \in 0..m : h[i] = IF i = 0 THEN 0 ELSE (h[i - 1] + s[i]) % n
    BY <1>9, Zenon
  <2>2. 0 \in 0..m /\ \A i \in 1..m : i \in 0..m /\ i # 0
    OBVIOUS
  <2> QED BY <2>1, <2>2, Zenon
<1>11. \A k \in 1..m : h[k - 1] \in Scalar => h[k] \in Scalar
  <2> SUFFICES ASSUME NEW k \in 1..m, h[k - 1] \in Scalar PROVE h[k] \in Scalar
    OBVIOUS
  <2>1. h[k - 1] + s[k] \in Int
    BY DEF Scalar
  <2>2. \A x \in Int : x % n \in Scalar
    BY OrderPositive, ModRange DEF Scalar
  <2>3. h[k] = (h[k - 1] + s[k]) % n
    BY <1>10
  <2>4. (h[k - 1] + s[k]) % n \in Scalar
    BY <2>1, <2>2
  <2> QED BY <2>3, <2>4
<1>12. \A k \in 0..m : h[k] \in Scalar
  BY <1>3, <1>10, <1>11, LoopInvariant
<1>13. h \in [0..m -> Scalar]
  BY <1>9, <1>12
<1> QED BY <1>10, <1>13 DEF h

LEMMA SumScalar ==
  ASSUME NEW s, NEW m \in Nat, Len(s) = m, \A i \in 1..m : s[i] \in Int
  PROVE  SumAll(s) \in Scalar
<1>1. m \in 0..m /\ PartialSums(s) \in [0..m -> Scalar]
  BY PartialSumsStep
<1> QED BY <1>1 DEF SumAll

LEMMA SumOfTwo ==
  ASSUME NEW a \in Point, NEW b \in Point
  PROVE  SumAll(<<a, b>>) = Add(a, b)
<1> DEFINE s == <<a, b>>
           h == PartialSums(s)
<1>1. Len(s) = 2 /\ s[1] = a /\ s[2] = b /\ 2 \in Nat
  OBVIOUS
<1>2. a \in Int /\ b \in Int /\ a % n = a
  BY OrderPositive DEF Point
<1>3. \A i \in 1..2 : s[i] \in Int
  BY <1>2
<1> HIDE DEF s
<1>4. h[0] = 0 /\ \A i \in 1..2 : h[i] = (h[i - 1] + s[i]) % n
  BY <1>1, <1>3, PartialSumsStep
<1> HIDE DEF h
<1>5. h[1] = a
  <2>1. h[1] = (h[0] + s[1]) % n
    BY <1>4
  <2>2. 0 + a = a
    BY <1>2
  <2> QED BY <1>1, <1>2, <1>4, <2>1, <2>2
<1>6. h[2] = (a + b) % n
  <2>1. h[2] = (h[1] + s[2]) % n
    BY <1>4
  <2> QED BY <1>1, <1>5, <2>1
<1> QED BY <1>1, <1>6 DEF SumAll, Add, h, s

\* What holds term by term modulo n of a linear combination of three sequences
\* holds of their sums.
LEMMA SumLinear ==
  ASSUME NEW m \in Nat, NEW s, NEW u, NEW v, NEW w,
         Len(s) = m, Len(u) = m, Len(v) = m, Len(w) = m,
         NEW a \in Int, NEW b \in Int, NEW c \in Int,
         \A i \in 1..m : s[i] \in Int /\ u[i] \in Int /\ v[i] \in Int /\ w[i] \in Int,
         \A i \in 1..m : Cong(n, s[i], a * u[i] + b * v[i] + c * w[i])
  PROVE  Cong(n, SumAll(s), a * SumAll(u) + b * SumAll(v) + c * SumAll(w))
<1> DEFINE S == PartialSums(s)
           U == PartialSums(u)
           V == PartialSums(v)
           W == PartialSums(w)
           f == [k \in 0..m |-> Cong(n, S[k], a * U[k] + b * V[k] + c * W[k])]
<1>1. /\ \A i \in 0..m : S[i] \in Int /\ U[i] \in Int /\ V[i] \in Int /\ W[i] \in Int
      /\ S[0] = 0 /\ U[0] = 0 /\ V[0] = 0 /\ W[0] = 0
  <2>1. /\ S \in [0..m -> Scalar] /\ U \in [0..m -> Scalar]
        /\ V \in [0..m -> Scalar] /\ W \in [0..m -> Scalar]
        /\ S[0] = 0 /\ U[0] = 0 /\ V[0] = 0 /\ W[0] = 0
    BY PartialSumsStep
  <2> HIDE DEF S, U, V, W
  <2> QED BY <2>1 DEF Scalar
<1>2. \A i \in 1..m : /\ S[i] = (S[i - 1] + s[i]) % n /\ U[i] = (U[i - 1] + u[i]) % n
                      /\ V[i] = (V[i - 1] + v[i]) % n /\ W[i] = (W[i - 1] + w[i]) % n
  BY PartialSumsStep
<1> HIDE DEF S, U, V, W
<1>3. f[0] = TRUE
  <2>1. 0 \in 0..m /\ a * U[0] + b * V[0] + c * W[0] = 0 /\ S[0] = 0
    BY <1>1
  <2>2. Cong(n, S[0], a * U[0] + b * V[0] + c * W[0])
    BY <2>1, CongSelf
  <2> QED BY <2>1, <2>2
<1>4. ASSUME NEW k \in 1..m, f[k - 1] \in {TRUE} PROVE f[k] \in {TRUE}
  <2>1. k - 1 \in 0..m /\ k \in 0..m
    OBVIOUS
  <2> DEFINE S0 == S[k - 1]  U0 == U[k - 1]  V0 == V[k - 1]  W0 == W[k - 1]
             x == s[k]  y == u[k]  z == v[k]  t == w[k]
             S1 == S[k]  U1 == U[k]  V1 == V[k]  W1 == W[k]
  <2>2. /\ S0 \in Int /\ U0 \in Int /\ V0 \in Int /\ W0 \in Int
        /\ S1 \in Int /\ U1 \in Int /\ V1 \in Int /\ W1 \in Int
        /\ x \in Int /\ y \in Int /\ z \in Int /\ t \in Int
    BY <1>1, <2>1
  <2>3. /\ S1 = (S0 + x) % n /\ U1 = (U0 + y) % n /\ V1 = (V0 + z) % n /\ W1 = (W0 + t) % n
    BY <1>2
  <2>4. Cong(n, S0, a * U0 + b * V0 + c * W0)
    BY <1>4, <2>1
  <2>5. Cong(n, x, a * y + b * z + c * t)
    OBVIOUS
  <2> HIDE DEF S0, U0, V0, W0, S1, U1, V1, W1, x, y, z, t
  <2>6. /\ S0 + x \in Int /\ U0 + y \in Int /\ V0 + z \in Int /\ W0 + t \in Int
    BY <2>2
  <2>7. /\ Cong(n, S1, S0 + x) /\ Cong(n, U0 + y, U1) /\ Cong(n, V0 + z, V1) /\ Cong(n, W0 + t, W1)
    BY <2>3, <2>6, OrderPositive, CongMod
  <2>8. /\ Cong(n, a * (U0 + y), a * U1) /\ a * (U0 + y) \in Int /\ a * U1 \in Int
    BY <2>2, <2>6, <2>7, CongScale
  <2>9. /\ Cong(n, b * (V0 + z), b * V1) /\ b * (V0 + z) \in Int /\ b * V1 \in Int
    BY <2>2, <2>6, <2>7, CongScale
  <2>10. /\ Cong(n, c * (W0 + t), c * W1) /\ c * (W0 + t) \in Int /\ c * W1 \in Int
    BY <2>2, <2>6, <2>7, CongScale
  <2>11. Cong(n, a * (U0 + y) + b * (V0 + z), a * U1 + b * V1)
         /\ a * (U0 + y) + b * (V0 + z) \in Int /\ a * U1 + b * V1 \in Int
    BY <2>8, <2>9, CongSum
  <2>12. Cong(n, (a * (U0 + y) + b * (V0 + z)) + c * (W0 + t), (a * U1 + b * V1) + c * W1)
    BY <2>10, <2>11, CongSum
  <2>13. Cong(n, S0 + x, (a * U0 + b * V0 + c * W0) + (a * y + b * z + c * t))
    <3>1. a * U0 + b * V0 + c * W0 \in Int /\ a * y + b * z + c * t \in Int
      BY <2>2
    <3> QED BY <2>2, <2>4, <2>5, <3>1, CongSum
  <2>14. (a * U0 + b * V0 + c * W0) + (a * y + b * z + c * t)
           = (a * (U0 + y) + b * (V0 + z)) + c * (W0 + t)
    BY <2>2
  <2>15. Cong(n, S1, (a * U1 + b * V1) + c * W1)
    BY <2>7, <2>12, <2>13, <2>14 DEF Cong
  <2> QED BY <2>1, <2>15 DEF S1, U1, V1, W1
<1>5. \A k \in 0..m : f[k] \in {TRUE}
  <2> HIDE DEF f
  <2>1. \A k \in 1..m : f[k - 1] \in {TRUE} => f[k] \in {TRUE}
    BY <1>4
  <2>2. f[0] \in {TRUE}
    BY <1>3
  <2> QED BY <2>1, <2>2, LoopInvariant
<1>6. m \in 0..m /\ Len(s) = m /\ Len(u) = m /\ Len(v) = m /\ Len(w) = m
  BY <1>5
<1>7. Cong(n, S[m], a * U[m] + b * V[m] + c * W[m])
  BY <1>5, <1>6
<1> QED BY <1>6, <1>7 DEF SumAll, S, U, V, W

\* The sign by which a number enters once it is negated for a point with an odd
\* y-coordinate.
SignY(P) == IF HasOddY(P) THEN -1 ELSE 1

\* A flipped scalar is the scalar with the sign of the point (FlipIfOdd).
LEMMA FlipCong ==
  ASSUME NEW P, NEW x \in Int
  PROVE  /\ FlipIfOdd(P, x) \in Int /\ SignY(P) * x \in Int /\ SignY(P) \in Int
         /\ Cong(n, FlipIfOdd(P, x), SignY(P) * x)
<1>1. CASE HasOddY(P)
  <2>1. FlipIfOdd(P, x) = (n - x) % n /\ SignY(P) = -1
    BY <1>1 DEF FlipIfOdd, SignY
  <2>2. (-1) * x = -x
    OBVIOUS
  <2>3. n - x \in Int /\ -x \in Int /\ Cong(n, n - x, -x)
    BY CongNegate
  <2>4. (n - x) % n \in Int /\ Cong(n, (n - x) % n, n - x)
    BY <2>3, CongReduce
  <2>5. Cong(n, (n - x) % n, -x)
    BY <2>3, <2>4 DEF Cong
  <2> QED BY <2>1, <2>2, <2>3, <2>4, <2>5
<1>2. CASE ~HasOddY(P)
  <2>1. FlipIfOdd(P, x) = x /\ SignY(P) = 1 /\ 1 * x = x
    BY <1>2 DEF FlipIfOdd, SignY
  <2> QED BY <2>1, CongSelf
<1> QED BY <1>1, <1>2

\* So is the point an x-coordinate lifts to.
LEMMA XOnlyCong ==
  ASSUME NEW P \in Finite
  PROVE  /\ XOnly(P) \in Finite /\ ~HasOddY(XOnly(P)) /\ XOnly(P) \in Int
         /\ Cong(n, XOnly(P), SignY(P) * P)
<1>1. P \in Int /\ P \in Point
  BY DEF Finite, Point
<1>2. XOnly(P) = FlipIfOdd(P, P)
  BY DEF XOnly, FlipIfOdd, Negate
<1>3. Cong(n, XOnly(P), SignY(P) * P)
  BY <1>1, <1>2, FlipCong
<1>4. ~HasOddY(XOnly(P))
  <2>1. CASE HasOddY(P)
    <3>1. n - P \in 1..(n - 1) /\ (n - P) % n = n - P
      BY OrderPositive DEF Finite, Point, INF
    <3>2. n - P \notin OddY
      BY <2>1, GroupAssumption DEF HasOddY
    <3> QED BY <2>1, <3>1, <3>2 DEF XOnly, Negate, HasOddY
  <2>2. CASE ~HasOddY(P)
    BY <2>2 DEF XOnly
  <2> QED BY <2>1, <2>2
<1>5. XOnly(P) \in Finite
  BY XOnlyFinite
<1> QED BY <1>3, <1>4, <1>5 DEF Finite, Point

\* The point the verifier computes is the nonce r exactly when s is r + e*q.
LEMMA VerifierEquation ==
  ASSUME NEW r \in Finite, NEW q \in Finite, NEW s \in Scalar, NEW e \in Scalar
  PROVE  Add(Mult(n - e, q), Mult(s, G)) = r <=> Cong(n, s, r + e * q)
<1> DEFINE K == Add(Mult(n - e, q), Mult(s, G))
           M == Mult(n - e, q)
           eq == e * q
<1>2. /\ e \in Int /\ s \in Int /\ n \in Int /\ r \in Int /\ q \in Int /\ r \in Scalar
  BY OrderPositive DEF Scalar, Finite, Point
<1>4. eq \in Int
  BY <1>2
<1>5. M \in Int /\ Cong(n, M, -eq) /\ -eq \in Int
  <2>1. n - e \in Int /\ Cong(n, n - e, -e) /\ -e \in Int
    BY <1>2, CongNegate
  <2>2. Cong(n, q * (n - e), q * (-e)) /\ q * (n - e) \in Int
    BY <1>2, <2>1, CongScale
  <2>3. q * (n - e) = (n - e) * q /\ q * (-e) = -eq
    BY <1>2
  <2>4. ((n - e) * q) % n \in Int /\ Cong(n, ((n - e) * q) % n, (n - e) * q)
    BY <2>2, <2>3, CongReduce
  <2>5. M = ((n - e) * q) % n
    BY DEF Mult
  <2>6. -eq \in Int
    BY <1>4
  <2> HIDE DEF eq, M
  <2> QED BY <2>2, <2>3, <2>4, <2>5, <2>6 DEF Cong
<1>6. Mult(s, G) = s
  <2>1. s * 1 = s /\ s % n = s
    BY OrderPositive DEF Scalar
  <2> QED BY <2>1 DEF Mult, G
<1>7. K = (M + s) % n
  BY <1>6 DEF Add
<1> HIDE DEF M, eq
<1>8. K \in Scalar /\ Cong(n, K, -eq + s) /\ -eq + s \in Int
  <2>1. Cong(n, M + s, -eq + s) /\ M + s \in Int /\ -eq + s \in Int
    BY <1>2, <1>5, CongSelf, CongSum
  <2>2. (M + s) % n \in Scalar /\ Cong(n, (M + s) % n, M + s)
    BY <2>1, CongReduce
  <2> QED BY <1>7, <2>1, <2>2 DEF Cong
<1> HIDE DEF K
<1>9. ASSUME K = r PROVE Cong(n, s, r + eq)
  <2>1. Cong(n, -eq + s, r)
    BY <1>8, <1>9 DEF Cong
  <2>2. Cong(n, (-eq + s) + eq, r + eq)
    BY <1>2, <1>4, <1>8, <2>1, CongSelf, CongSum
  <2>3. (-eq + s) + eq = s
    BY <1>2, <1>4
  <2> QED BY <2>2, <2>3
<1>10. ASSUME Cong(n, s, r + eq) PROVE K = r
  <2>1. r + eq \in Int
    BY <1>2, <1>4
  <2>2. Cong(n, s + (-eq), (r + eq) + (-eq))
    BY <1>2, <1>5, <1>10, <2>1, CongSelf, CongSum
  <2>3. s + (-eq) = -eq + s /\ (r + eq) + (-eq) = r
    BY <1>2, <1>4
  <2>4. Cong(n, K, r)
    BY <1>8, <2>2, <2>3 DEF Cong
  <2> QED BY <1>2, <1>8, <2>4, CongScalars
<1> QED BY <1>9, <1>10 DEF K, M, eq

\* BIP340's equation: the signature (x(R), s) verifies when s is the nonce plus
\* the challenge times the key, each with the sign its y-coordinate gives it.
LEMMA SchnorrEquation ==
  ASSUME NEW R \in Finite, NEW Q \in Finite, NEW msg, NEW s \in Scalar,
         Challenge[XOnly(R), XOnly(Q), msg] \in Scalar \ {0}
  PROVE  SchnorrVerifies(XOnly(Q), msg, XOnly(R), s)
           <=> Cong(n, s, XOnly(R) + Challenge[XOnly(R), XOnly(Q), msg] * XOnly(Q))
<1> DEFINE r == XOnly(R)
           q == XOnly(Q)
           e == Challenge[r, q, msg]
           K == Add(Mult(n - e, q), Mult(s, G))
<1>1. r \in Finite /\ ~HasOddY(r) /\ q \in Finite
  BY XOnlyCong
<1>2. r # INF
  BY <1>1 DEF Finite
<1>3. SchnorrVerifies(q, msg, r, s)
        <=> IsSig(r, s) /\ e # 0 /\ K # INF /\ ~HasOddY(K) /\ K = r
  BY DEF SchnorrVerifies
<1>4. e \in Scalar /\ e # 0
  OBVIOUS
<1> HIDE DEF r, q, e
<1>5. K = r <=> Cong(n, s, r + e * q)
  BY <1>1, <1>4, VerifierEquation
<1> HIDE DEF K
<1>6. SchnorrVerifies(q, msg, r, s) <=> K = r
  BY <1>1, <1>2, <1>3, <1>4 DEF IsSig
<1> QED BY <1>5, <1>6 DEF r, q, e

\* The nonce point of a signer, negated for an odd R, modulo n.
LEMMA NonceSum ==
  ASSUME NEW R, NEW b \in Int, NEW k_1 \in Int, NEW k_2 \in Int
  PROVE  /\ FlipIfOdd(R, Add(k_1, Mult(b, k_2))) \in Int
         /\ Cong(n, FlipIfOdd(R, Add(k_1, Mult(b, k_2))), SignY(R) * (k_1 + b * k_2))
         /\ SignY(R) * (k_1 + b * k_2) \in Int
<1> DEFINE y == b * k_2
           yn == Mult(b, k_2)
           R_s == Add(k_1, yn)
           sg == SignY(R)
<1>1. y \in Int /\ yn = y % n
  BY DEF Mult
<1>2. R_s = (k_1 + yn) % n
  BY DEF Add
<1> HIDE DEF y, yn, R_s
<1>3. yn \in Int /\ Cong(n, yn, y)
  BY <1>1, CongReduce
<1>4. Cong(n, k_1 + yn, k_1 + y) /\ k_1 + yn \in Int /\ k_1 + y \in Int
  BY <1>1, <1>3, CongSelf, CongSum
<1>5. R_s \in Int /\ Cong(n, R_s, k_1 + y)
  BY <1>2, <1>4, CongReduce DEF Cong
<1>6. sg \in Int /\ FlipIfOdd(R, R_s) \in Int /\ Cong(n, FlipIfOdd(R, R_s), sg * R_s)
  BY <1>5, FlipCong
<1> HIDE DEF sg
<1>7. Cong(n, sg * R_s, sg * (k_1 + y)) /\ sg * (k_1 + y) \in Int
  BY <1>4, <1>5, <1>6, CongScale
<1>8. Cong(n, FlipIfOdd(R, R_s), sg * (k_1 + y))
  BY <1>6, <1>7 DEF Cong
<1> QED BY <1>6, <1>7, <1>8 DEF sg, R_s, yn, y

\* The nonces sign negates one by one and the nonce point the verifier negates
\* as a whole are congruent.
LEMMA NonceShare ==
  ASSUME NEW R, NEW b \in Int, NEW k_1 \in Int, NEW k_2 \in Int,
         NEW x_1 \in Int, NEW x_2 \in Int,
         Cong(n, x_1, SignY(R) * k_1), Cong(n, x_2, SignY(R) * k_2)
  PROVE  /\ FlipIfOdd(R, Add(k_1, Mult(b, k_2))) \in Int
         /\ Cong(n, x_1 + b * x_2, FlipIfOdd(R, Add(k_1, Mult(b, k_2))))
<1> DEFINE sg == SignY(R)
           F == FlipIfOdd(R, Add(k_1, Mult(b, k_2)))
<1>1. F \in Int /\ Cong(n, F, sg * (k_1 + b * k_2))
  BY NonceSum
<1>2. sg \in Int /\ Cong(n, x_1, sg * k_1) /\ Cong(n, x_2, sg * k_2)
  BY DEF SignY
<1> HIDE DEF sg, F
<1>3. sg * k_1 \in Int /\ sg * k_2 \in Int
  BY <1>2
<1>4. Cong(n, b * x_2, b * (sg * k_2)) /\ b * x_2 \in Int /\ b * (sg * k_2) \in Int
  BY <1>2, <1>3, CongScale
<1>5. Cong(n, x_1 + b * x_2, sg * k_1 + b * (sg * k_2))
  BY <1>2, <1>3, <1>4, CongSum
<1>6. sg * k_1 + b * (sg * k_2) = sg * (k_1 + b * k_2)
  BY <1>2
<1>7. Cong(n, x_1 + b * x_2, F)
  BY <1>1, <1>5, <1>6 DEF Cong
<1> QED BY <1>1, <1>7 DEF F

\* The share of a private key in the signature is that of its public key in the
\* verification, wherever the two reduce modulo n.
LEMMA KeyShare ==
  ASSUME NEW e \in Int, NEW a \in Int, NEW S \in Int, NEW gacc \in Int, NEW d \in Int
  PROVE  LET M == Mult((e * a * ((S * gacc) % n)) % n, d) IN
         M \in Int /\ Cong(n, e * a * ((S * gacc * d) % n), M)
<1>1. n \in Nat \ {0}
  BY OrderPositive
<1> DEFINE ea == e * a
           g == S * gacc
           gd == g * d
           gn == g % n
           x == ea * gn
           xn == x % n
<1>2. ea \in Int /\ g \in Int /\ gd \in Int
  OBVIOUS
<1>3. Cong(n, ea, ea) /\ Cong(n, d, d)
  BY DEF Cong
<1> HIDE DEF ea, g
<1>4. gd % n \in Int /\ Cong(n, gd % n, gd)
  BY <1>1, <1>2, CongMod
<1>5. Cong(n, ea * (gd % n), ea * gd)
  <2> HIDE DEF gd
  <2> QED BY <1>1, <1>2, <1>3, <1>4, CongMul
<1>6. gn \in Int /\ Cong(n, gn, g)
  BY <1>1, <1>2, CongMod
<1>7. x \in Int /\ Cong(n, x, ea * g) /\ ea * g \in Int
  <2> HIDE DEF gn
  <2> QED BY <1>1, <1>2, <1>3, <1>6, CongMul
<1>8. xn \in Int /\ Cong(n, xn, x)
  <2> HIDE DEF x
  <2> QED BY <1>1, <1>7, CongMod
<1>9. xn * d \in Int /\ Cong(n, xn * d, x * d)
  <2> HIDE DEF x, xn
  <2> QED BY <1>1, <1>3, <1>7, <1>8, CongMul
<1>10. Cong(n, x * d, (ea * g) * d)
  <2> HIDE DEF x
  <2> QED BY <1>1, <1>3, <1>7, CongMul
<1>11. (ea * g) * d = ea * gd
  BY <1>2
<1>12. (xn * d) % n \in Int /\ Cong(n, (xn * d) % n, xn * d)
  <2> HIDE DEF xn
  <2> QED BY <1>1, <1>9, CongMod
<1>13. Cong(n, ea * (gd % n), (xn * d) % n)
  <2> HIDE DEF gd, xn, x
  <2> QED BY <1>5, <1>9, <1>10, <1>11, <1>12 DEF Cong
<1>14. Mult((e * a * ((S * gacc) % n)) % n, d) = (xn * d) % n
  BY DEF Mult, ea, g
<1>15. e * a * ((S * gacc * d) % n) = ea * (gd % n)
  BY DEF ea, g
<1> QED BY <1>12, <1>13, <1>14, <1>15

\* The arithmetic of the aggregation: A_1 and A_2 are the aggregate nonces, T the
\* adaptor, Q_0 the untweaked key, f the sign of R and S that of Q.
LEMMA AggregateArithmetic ==
  ASSUME NEW sum \in Int, NEW f \in Int, NEW b \in Int, NEW e \in Int, NEW g \in Int,
         NEW S \in Int, NEW gacc \in Int, NEW tacc \in Int, NEW A_1 \in Int, NEW A_2 \in Int,
         NEW T \in Int, NEW Q_0 \in Int, NEW Q \in Int, NEW xQ \in Int, NEW R \in Int,
         Cong(n, sum, f * A_1 + (f * b) * A_2 + (e * g) * Q_0),
         Cong(n, g, S * gacc), Cong(n, Q, gacc * Q_0 + tacc), Cong(n, xQ, S * Q),
         Cong(n, R, A_1 + T + b * A_2)
  PROVE  Cong(n, sum + e * S * tacc, f * (R - T) + e * xQ)
<1>1. Cong(n, f * (R - T), f * A_1 + (f * b) * A_2) /\ f * (R - T) \in Int
  <2>1. A_1 + T + b * A_2 \in Int /\ -T \in Int
    OBVIOUS
  <2>2. Cong(n, R + (-T), (A_1 + T + b * A_2) + (-T))
    BY <2>1, CongSelf, CongSum
  <2>3. R + (-T) = R - T /\ (A_1 + T + b * A_2) + (-T) = A_1 + b * A_2
        /\ R - T \in Int /\ A_1 + b * A_2 \in Int
    OBVIOUS
  <2>4. Cong(n, f * (R - T), f * (A_1 + b * A_2)) /\ f * (R - T) \in Int
    BY <2>2, <2>3, CongScale
  <2>5. f * (A_1 + b * A_2) = f * A_1 + (f * b) * A_2
    OBVIOUS
  <2> QED BY <2>4, <2>5
<1>2. Cong(n, e * xQ, e * (S * (gacc * Q_0 + tacc))) /\ e * xQ \in Int
  <2>1. gacc * Q_0 + tacc \in Int /\ S * Q \in Int
    OBVIOUS
  <2>2. Cong(n, S * Q, S * (gacc * Q_0 + tacc)) /\ S * (gacc * Q_0 + tacc) \in Int
    BY <2>1, CongScale
  <2>3. Cong(n, xQ, S * (gacc * Q_0 + tacc))
    BY <2>2 DEF Cong
  <2> QED BY <2>2, <2>3, CongScale
<1>3. Cong(n, (e * g) * Q_0, (e * Q_0) * (S * gacc)) /\ (e * g) * Q_0 \in Int
      /\ (e * Q_0) * (S * gacc) \in Int
  <2>1. e * Q_0 \in Int /\ S * gacc \in Int
    OBVIOUS
  <2>2. Cong(n, (e * Q_0) * g, (e * Q_0) * (S * gacc)) /\ (e * Q_0) * g \in Int
        /\ (e * Q_0) * (S * gacc) \in Int
    BY <2>1, CongScale
  <2>3. (e * Q_0) * g = (e * g) * Q_0
    OBVIOUS
  <2> QED BY <2>2, <2>3
<1> DEFINE x == f * A_1 + (f * b) * A_2
           y == (e * g) * Q_0
           z == (e * Q_0) * (S * gacc)
           w == e * S * tacc
           u == f * (R - T)
           k == e * xQ
           l == e * (S * (gacc * Q_0 + tacc))
<1>4. x \in Int /\ w \in Int /\ l \in Int
  OBVIOUS
<1>5. l = z + w
  OBVIOUS
<1>6. Cong(n, sum, x + y)
  OBVIOUS
<1> HIDE DEF x, y, z, w, u, k, l
<1>7. Cong(n, x + y, x + z) /\ x + y \in Int /\ x + z \in Int
  BY <1>3, <1>4, CongSelf, CongSum DEF y, z
<1>8. Cong(n, sum, x + z)
  BY <1>6, <1>7 DEF Cong
<1>9. Cong(n, sum + w, (x + z) + w)
  BY <1>4, <1>7, <1>8, CongSelf, CongSum
<1>10. Cong(n, u + k, x + l)
  BY <1>1, <1>2, <1>4, CongSum DEF u, k, l, x
<1>11. (x + z) + w = x + l
  BY <1>3, <1>4, <1>5 DEF z
<1>12. Cong(n, sum + w, u + k)
  BY <1>9, <1>10, <1>11 DEF Cong
<1> QED BY <1>12 DEF w, u, k

\* What the verifier compares a partial signature with: k_1 and k_2 are the
\* nonces of the signer, pk its key, a the coefficient of that key.
VerifierSide(R, b, k_1, k_2, e, a, g, pk) ==
  Add(FlipIfOdd(R, Add(k_1, Mult(b, k_2))), Mult((e * a * g) % n, pk))

\* It is the nonces with the sign of R and the key multiplied by its coefficient.
LEMMA ShareEquation ==
  ASSUME NEW R, NEW b \in Int, NEW k_1 \in Int, NEW k_2 \in Int,
         NEW e \in Int, NEW a \in Int, NEW g \in Int, NEW pk \in Int
  PROVE  /\ Mult(a, pk) \in Int
         /\ VerifierSide(R, b, k_1, k_2, e, a, g, pk) \in Int
         /\ Cong(n, VerifierSide(R, b, k_1, k_2, e, a, g, pk),
                 SignY(R) * k_1 + (SignY(R) * b) * k_2 + (e * g) * Mult(a, pk))
<1> DEFINE F == FlipIfOdd(R, Add(k_1, Mult(b, k_2)))
           M == Mult((e * a * g) % n, pk)
           T == Mult(a, pk)
           sg == SignY(R)
<1>1. F \in Int /\ Cong(n, F, sg * (k_1 + b * k_2)) /\ sg * (k_1 + b * k_2) \in Int
  BY NonceSum
<1>2. sg \in Int
  BY DEF SignY
<1> HIDE DEF sg
<1>3. T \in Int /\ M \in Int /\ Cong(n, M, (e * g) * T) /\ (e * g) * T \in Int
  <2> DEFINE x == e * a * g
             xn == x % n
             y == a * pk
             eg == e * g
  <2>1. x \in Int /\ y \in Int /\ eg \in Int
    OBVIOUS
  <2>2. x * pk = eg * y
    OBVIOUS
  <2>3. T = y % n /\ M = (xn * pk) % n
    BY DEF Mult
  <2> HIDE DEF x, y, eg, T, M
  <2>4. T \in Int /\ Cong(n, y, T)
    BY <2>1, <2>3, CongReduce
  <2>5. xn \in Int /\ Cong(n, xn, x)
    BY <2>1, CongReduce
  <2> HIDE DEF xn
  <2>6. Cong(n, pk * xn, pk * x) /\ pk * xn \in Int
    BY <2>1, <2>5, CongScale
  <2>7. pk * xn = xn * pk /\ pk * x = eg * y
    BY <2>1, <2>2, <2>5
  <2>8. M \in Int /\ Cong(n, M, xn * pk)
    BY <2>3, <2>6, <2>7, CongReduce
  <2>9. Cong(n, eg * y, eg * T) /\ eg * T \in Int
    BY <2>1, <2>4, CongScale
  <2>10. Cong(n, M, eg * T)
    BY <2>6, <2>7, <2>8, <2>9 DEF Cong
  <2> QED BY <2>4, <2>8, <2>9, <2>10 DEF eg
<1> HIDE DEF T, F, M
<1>4. Cong(n, F + M, sg * (k_1 + b * k_2) + (e * g) * T) /\ F + M \in Int
  BY <1>1, <1>3, CongSum
<1>5. (F + M) % n \in Int /\ Cong(n, (F + M) % n, F + M)
  BY <1>4, CongReduce
<1>6. sg * (k_1 + b * k_2) + (e * g) * T = sg * k_1 + (sg * b) * k_2 + (e * g) * T
  <2>1. sg * (k_1 + b * k_2) = sg * k_1 + (sg * b) * k_2
    BY <1>2
  <2> QED BY <2>1
<1>7. Cong(n, (F + M) % n, sg * k_1 + (sg * b) * k_2 + (e * g) * T)
  BY <1>4, <1>5, <1>6 DEF Cong
<1> QED BY <1>3, <1>5, <1>7 DEF VerifierSide, T, F, M, sg, Add

\* One tweak t keeps a key Q the image of the untweaked one Q0 under two
\* accumulators, whichever sign g it enters with.
LEMMA TweakArithmetic ==
  ASSUME NEW Q \in Int, NEW P \in Int, NEW g \in Int, NEW t \in Int, NEW Q0 \in Int,
         NEW ga \in Int, NEW ta \in Int,
         Cong(n, Q, ga * Q0 + ta), Cong(n, P, g * Q)
  PROVE  Cong(n, Add(P, Mult(t, G)), ((g * ga) % n) * Q0 + ((t + g * ta) % n))
<1> DEFINE Qn == Add(P, Mult(t, G))
           gn == (g * ga) % n
           tn == (t + g * ta) % n
<1>1. Cong(n, Qn, P + t) /\ Qn \in Int /\ P + t \in Int
  <2>1. Mult(t, G) = (t * 1) % n /\ t * 1 = t
    BY DEF Mult, G
  <2>2. Mult(t, G) \in Int /\ Cong(n, Mult(t, G), t)
    BY <2>1, CongReduce
  <2> DEFINE M == Mult(t, G)
  <2> HIDE DEF M
  <2>3. M \in Int /\ Cong(n, M, t)
    BY <2>2 DEF M
  <2>4. Cong(n, P + M, P + t) /\ P + M \in Int /\ P + t \in Int
    BY <2>3, CongSelf, CongSum
  <2>5. Cong(n, (P + M) % n, P + M) /\ (P + M) % n \in Int
    BY <2>4, CongReduce
  <2> QED BY <2>4, <2>5 DEF Cong, M, Add
<1>2. Cong(n, P, g * (ga * Q0 + ta)) /\ g * (ga * Q0 + ta) \in Int
  <2>1. ga * Q0 + ta \in Int
    OBVIOUS
  <2>2. Cong(n, g * Q, g * (ga * Q0 + ta)) /\ g * (ga * Q0 + ta) \in Int
    BY <2>1, CongScale
  <2> QED BY <2>2 DEF Cong
<1>3. Cong(n, P + t, g * (ga * Q0 + ta) + t) /\ g * (ga * Q0 + ta) + t \in Int
  BY <1>2, CongSelf, CongSum
<1>4. g * (ga * Q0 + ta) + t = Q0 * (g * ga) + (t + g * ta)
  OBVIOUS
<1>5. /\ g * ga \in Int /\ t + g * ta \in Int
      /\ gn \in Int /\ Cong(n, g * ga, gn) /\ tn \in Int /\ Cong(n, t + g * ta, tn)
  <2>1. g * ga \in Int /\ t + g * ta \in Int
    OBVIOUS
  <2> QED BY <2>1, CongReduce
<1> HIDE DEF gn, tn, Qn
<1>6. Cong(n, Q0 * (g * ga), Q0 * gn) /\ Q0 * (g * ga) \in Int /\ Q0 * gn \in Int
  BY <1>5, CongScale
<1>7. Cong(n, Q0 * (g * ga) + (t + g * ta), Q0 * gn + tn)
  BY <1>5, <1>6, CongSum
<1>8. Q0 * gn = gn * Q0
  BY <1>5
<1>9. Cong(n, Qn, gn * Q0 + tn)
  BY <1>1, <1>3, <1>4, <1>7, <1>8 DEF Cong
<1> QED BY <1>9 DEF gn, tn, Qn

=============================================================================
