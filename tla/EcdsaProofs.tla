---------------------------- MODULE EcdsaProofs ----------------------------
(***************************************************************************)
(* What Ecdsa signs verifies, recovers and opens, and the check of a       *)
(* signature blames the right cause, for every cyclic curve group, whatever *)
(* its order, its cofactor and the coordinates of its points; and, on the  *)
(* same curves, a batch of BIP340 signatures (SchnorrBatch) says what they *)
(* would say one by one.                                                   *)
(***************************************************************************)
EXTENDS Ecdsa, ArithmeticLemmas, FiniteSetTheorems, SequenceTheorems

-----------------------------------------------------------------------------
(* The group                                                               *)

\* The orders are positive numbers, and the whole group has n*h points.
LEMMA Orders ==
  /\ n \in Nat \ {0} /\ n > 2 /\ h \in Nat \ {0} /\ N \in Nat \ {0}
  /\ N = n * h /\ N = h * n
<1>1. n \in Nat /\ n > 2 /\ h \in Nat /\ h > 0
  BY GroupAssumption
<1>2. \A x, y \in Nat : x > 0 /\ y > 0 => x * y \in Nat /\ x * y > 0 /\ x * y = y * x
  OBVIOUS
<1>3. n * h \in Nat /\ n * h > 0 /\ n * h = h * n
  BY <1>1, <1>2
<1> QED BY <1>1, <1>3 DEF N

\* Multiples of h, modulo n*h, are multiples of G counted modulo n.
LEMMA ScaleMod == ASSUME NEW y \in Int PROVE (y * h) % N = (y % n) * h
BY Orders, ScaledMod, Zenon

\* mult by the generator.
LEMMA MultG ==
  ASSUME NEW k \in Int
  PROVE  /\ Mult(k, G) = (k % n) * h
         /\ Mult(k, G) \in Point
         /\ k % n # 0 => Mult(k, G) \in Finite
         /\ k % n = 0 => Mult(k, G) = INF
<1>1. n \in Nat \ {0} /\ h \in Nat \ {0} /\ N \in Nat \ {0} /\ N = n * h
  BY Orders
<1> DEFINE r == k % n
<1>2. r \in 0..(n - 1) /\ r \in Int
  BY <1>1, ModRange
<1>3. r % n = r
  BY <1>1, <1>2
<1>4. Mult(k, G) = (r * h) % N
  BY DEF Mult, G
<1> HIDE DEF r
<1>5. Mult(k, G) = r * h
  BY <1>2, <1>3, <1>4, ScaleMod
<1>6. Mult(k, G) \in 0..(N - 1)
  <2>1. r * h \in Int
    BY <1>1, <1>2
  <2> QED BY <1>1, <1>4, <2>1, ModRange
<1>7. r # 0 => r * h # 0
  BY <1>1, <1>2
<1>8. r = 0 => r * h = 0
  BY <1>1
<1> QED BY <1>1, <1>5, <1>6, <1>7, <1>8 DEF Point, Finite, INF, r

\* The multiples of G by a scalar but zero are the multiples of h.
LEMMA MultGInRange ==
  ASSUME NEW k \in 1..(n - 1)
  PROVE  Mult(k, G) = k * h /\ Mult(k, G) \in Finite
<1>1. k \in Int /\ k % n = k /\ k # 0
  BY Orders
<1> QED BY <1>1, MultG

\* a*(q*G) + b*G is (a*q + b)*G: what verification and recovery compute.
LEMMA DoubleMult ==
  ASSUME NEW e \in Int, NEW f \in Int, NEW q \in Int
  PROVE  Add(Mult(e, Mult(q, G)), Mult(f, G)) = Mult(e * q + f, G)
<1> DEFINE u == e % n
           v == q % n
           w == f % n
           y == u * v
<1>1. n \in Nat \ {0} /\ h \in Nat \ {0} /\ h \in Int /\ N \in Nat \ {0}
  BY Orders
<1>2. u \in Int /\ v \in Int /\ w \in Int /\ Cong(n, u, e) /\ Cong(n, v, q) /\ Cong(n, w, f)
  BY <1>1, CongMod
<1>3. Mult(q, G) = v * h /\ Mult(f, G) = w * h
  BY MultG
<1>4. Mult(e, Mult(q, G)) = (u * (v * h)) % N
  BY <1>3 DEF Mult
<1> HIDE DEF u, v, w
<1>5. u * (v * h) = y * h /\ y \in Int
  BY <1>1, <1>2
<1>6. Mult(e, Mult(q, G)) = (y % n) * h
  BY <1>4, <1>5, ScaleMod
<1>7. y % n \in Int /\ Cong(n, y % n, y)
  BY <1>1, <1>5, CongMod
<1>8. Cong(n, y, e * q)
  BY <1>1, <1>2, CongMul
<1> HIDE DEF y
<1> DEFINE z == y % n
<1>9. z \in Int /\ Cong(n, z, e * q) /\ e * q \in Int
  BY <1>7, <1>8, CongTrans
<1>10. Add(Mult(e, Mult(q, G)), Mult(f, G)) = (z * h + w * h) % N
  BY <1>3, <1>6 DEF Add
<1> HIDE DEF z
<1>11. z * h + w * h = (z + w) * h /\ z + w \in Int
  BY <1>1, <1>2, <1>9
<1>12. (z * h + w * h) % N = ((z + w) % n) * h
  BY <1>11, ScaleMod
<1>13. Cong(n, z + w, e * q + f)
  BY <1>1, <1>2, <1>9, CongAdd
<1>14. (z + w) % n = (e * q + f) % n
  BY <1>13 DEF Cong
<1>15. e * q + f \in Int
  BY <1>9
<1> QED BY <1>10, <1>12, <1>14, <1>15, MultG

\* The inverse of a scalar is one.
LEMMA ModInvIsInverse ==
  ASSUME NEW k \in 1..(n - 1)
  PROVE  ModInv(k) \in 1..(n - 1) /\ (k * ModInv(k)) % n = 1
<1>1. \E i \in 1..(n - 1) : (k * i) % n = 1
  BY PrimeAssumption
<1>2. ModInv(k) = CHOOSE i \in 1..(n - 1) : (k * i) % n = 1
  BY DEF ModInv, Inverses
<1> QED BY <1>1, <1>2

\* Congruent multiples are the same point.
LEMMA CongMult ==
  ASSUME NEW x \in Int, NEW y \in Int, Cong(n, x, y)
  PROVE  Mult(x, G) = Mult(y, G)
BY MultG DEF Cong

-----------------------------------------------------------------------------
(* The equation of a signature                                             *)

\* r and s sign c under the key q with the nonce k.
Fits(c, q, k, r, s) == Cong(n, c + r * q, k * s)

\* What verification recomputes is the point of the nonce.
LEMMA VerifiedNonce ==
  ASSUME NEW c \in Int, NEW q \in Int, NEW k \in Int, NEW r \in Int,
         NEW s \in 1..(n - 1), Fits(c, q, k, r, s)
  PROVE  NoncePoint(c, Mult(q, G), r, s) = Mult(k, G)
<1> DEFINE w == ModInv(s)
           e == r * w
           f == c * w
<1>1. n \in Nat \ {0} /\ n > 1 /\ s \in Int
  BY Orders
<1>2. w \in Int /\ (s * w) % n = 1
  BY <1>1, ModInvIsInverse
<1> HIDE DEF w
<1>3. Cong(n, (r * w) * q + c * w, k)
  BY <1>1, <1>2, VerifiedCong DEF Fits
<1>4. e \in Int /\ f \in Int /\ e * q + f \in Int
  BY <1>2
<1>5. NoncePoint(c, Mult(q, G), r, s) = Mult(e * q + f, G)
  BY <1>4, DoubleMult DEF NoncePoint, w
<1> QED BY <1>3, <1>4, <1>5, CongMult

\* What recovery computes from the point of the nonce is the key.
LEMMA RecoveredKey ==
  ASSUME NEW c \in Int, NEW q \in Int, NEW k \in Int, NEW s \in Int,
         NEW r \in 1..(n - 1), Fits(c, q, k, r, s)
  PROVE  CandidateKey(c, r, s, Mult(k, G)) = Mult(q, G)
<1> DEFINE w == ModInv(r)
           t == c + r * q
           e == w * s
           f == -(w * c)
           b == r * w
           d == k * s
<1>1. n \in Nat \ {0} /\ 1 % n = 1
  BY Orders
<1>2. w \in Int /\ b % n = 1
  BY ModInvIsInverse
<1>3. r \in Int
  BY Orders
<1> HIDE DEF w
<1>4. t \in Int /\ e \in Int /\ f \in Int /\ b \in Int /\ d \in Int
  BY <1>2, <1>3
<1>5. CandidateKey(c, r, s, Mult(k, G)) = Mult(e * k + f, G)
  BY <1>4, DoubleMult DEF CandidateKey, w
<1>6. e * k + f = w * d + f
  BY <1>2
<1>7. Cong(n, w, w) /\ Cong(n, q, q) /\ Cong(n, f, f)
  BY DEF Cong
<1>8. Cong(n, t, d)
  BY DEF Fits
<1>9. w * t + f = q * b
  BY <1>2, <1>3
<1>10. Cong(n, b, 1)
  BY <1>1, <1>2 DEF Cong
<1> HIDE DEF t, e, f, b, d
<1>11. Cong(n, w * t, w * d)
  BY <1>1, <1>2, <1>4, <1>7, <1>8, CongMul
<1>12. w * t \in Int /\ w * d \in Int /\ w * d + f \in Int /\ q * 1 = q
  BY <1>2, <1>4
<1>13. Cong(n, w * t + f, w * d + f)
  BY <1>1, <1>4, <1>7, <1>11, <1>12, CongAdd
<1>14. Cong(n, q * b, q * 1)
  BY <1>1, <1>4, <1>7, <1>10, CongMul
<1>15. Cong(n, w * d + f, q)
  BY <1>9, <1>12, <1>13, <1>14 DEF Cong
<1> QED BY <1>5, <1>6, <1>12, <1>15, CongMult

\* The s of _sign_recoverable_ fits.
LEMMA RawSFits ==
  ASSUME NEW c \in Int, NEW q \in Int, NEW k \in 1..(n - 1), RawR(k) \in Int
  PROVE  RawS(c, q, k) \in 0..(n - 1) /\ Fits(c, q, k, RawR(k), RawS(c, q, k))
<1> DEFINE w == ModInv(k)
           r == RawR(k)
<1>1. n \in Nat \ {0} /\ n > 1 /\ k \in Int
  BY Orders
<1>2. w \in Int /\ (k * w) % n = 1
  BY <1>1, ModInvIsInverse
<1>3. RawS(c, q, k) = (w * (c + r * q)) % n
  BY DEF RawS
<1>4. r \in Int
  OBVIOUS
<1> HIDE DEF w, r
<1>5. /\ (w * (c + r * q)) % n \in 0..(n - 1)
      /\ Cong(n, c + r * q, k * ((w * (c + r * q)) % n))
  BY <1>1, <1>2, <1>4, SolvedCong
<1> QED BY <1>3, <1>5 DEF Fits, r

\* Negating s negates the nonce.
LEMMA NegatedFits ==
  ASSUME NEW c \in Int, NEW q \in Int, NEW k \in Int, NEW r \in Int,
         NEW s \in Int, Fits(c, q, k, r, s)
  PROVE  Fits(c, q, n - k, r, n - s)
<1> DEFINE t == c + r * q
<1>1. t \in Int /\ Cong(n, t, k * s) /\ n \in Nat \ {0}
  BY Orders DEF Fits
<1> HIDE DEF t
<1>2. Cong(n, t, (n - k) * (n - s))
  BY <1>1, NegatedCong
<1> QED BY <1>2 DEF Fits, t

\* Opposite nonces have one x-coordinate.
LEMMA OppositeNonce ==
  ASSUME NEW k \in 1..(n - 1)
  PROVE  /\ n - k \in 1..(n - 1)
         /\ Mult(n - k, G) = N - Mult(k, G)
         /\ Mult(k, G) \in Finite /\ Mult(n - k, G) \in Finite
         /\ XOf[Mult(n - k, G)] = XOf[Mult(k, G)]
         /\ RawR(n - k) = RawR(k)
<1>1. n \in Nat /\ h \in Nat /\ k \in Int /\ N = n * h
  BY Orders
<1>2. n - k \in 1..(n - 1)
  BY <1>1
<1>3. Mult(k, G) = k * h /\ Mult(n - k, G) = (n - k) * h
  BY <1>2, MultGInRange
<1>4. Mult(k, G) \in Finite /\ Mult(n - k, G) \in Finite
  BY <1>2, MultGInRange
<1>5. (n - k) * h = n * h - k * h
  BY <1>1
<1>6. Mult(n - k, G) = N - Mult(k, G)
  BY <1>1, <1>3, <1>5
<1>7. XOf[Mult(n - k, G)] = XOf[Mult(k, G)]
  BY <1>4, <1>6, CoordinatesAssumption
<1> QED BY <1>2, <1>4, <1>6, <1>7 DEF RawR

\* An x-coordinate is a field element, split by n into r and what r lost.
LEMMA XRange ==
  ASSUME NEW K \in Finite
  PROVE  /\ p \in Nat \ {0} /\ XOf[K] \in 0..(p - 1) /\ XOf[K] \in Nat
         /\ XOf[K] \div n \in Nat /\ XOf[K] % n \in 0..(n - 1)
         /\ XOf[K] = (XOf[K] % n) + (XOf[K] \div n) * n
<1>1. p \in Nat /\ XOf[K] \in 0..(p - 1)
  BY GroupAssumption, CoordinatesAssumption
<1> DEFINE x == XOf[K]
<1>2. x \in Nat /\ p > 0 /\ n \in Nat \ {0}
  BY <1>1, Orders
<1> HIDE DEF x
<1>3. x \div n \in Nat /\ x % n \in 0..(n - 1) /\ x = n * (x \div n) + (x % n)
  <2> DEFINE d == x \div n
  <2>1. d \in Int /\ x % n \in 0..(n - 1) /\ x = n * d + (x % n)
    BY <1>2, DivMod, ModRange
  <2> HIDE DEF d
  <2>2. \A m \in Nat \ {0}, i \in Int : i < 0 => m * i <= -m
    OBVIOUS
  <2>3. ~ (d < 0)
    BY <1>2, <2>1, <2>2
  <2> QED BY <2>1, <2>3 DEF d
<1>4. x = (x % n) + (x \div n) * n
  BY <1>2, <1>3
<1> QED BY <1>1, <1>2, <1>3, <1>4 DEF x

\* The r of a point is congruent to an x-coordinate Sig.assert_valid tries.
LEMMA RFromPoint ==
  ASSUME NEW K \in Finite, NEW s \in 1..(n - 1), XOf[K] % n # 0
  PROVE  IsSig(XOf[K] % n, s)
<1> DEFINE x == XOf[K]
           r == x % n
           j == x \div n
           l == p \div n
<1>1. p \in Nat \ {0} /\ x \in Nat /\ x < p /\ j \in Nat /\ r \in 0..(n - 1) /\ x = r + j * n
  BY XRange
<1>2. n \in Nat \ {0} /\ l \in Int /\ p % n \in 0..(n - 1) /\ p = n * l + (p % n)
  BY <1>1, Orders, DivMod, ModRange
<1>3. IsXCoordinate(x)
  BY DEF IsXCoordinate
<1> HIDE DEF x, r, j, l
<1>4. j <= l
  <2> SUFFICES ASSUME l + 1 <= j PROVE FALSE
    BY <1>1, <1>2
  <2>1. \A u, v, m \in Int : m > 0 /\ u <= v => u * m <= v * m
    OBVIOUS
  <2>2. (l + 1) * n <= j * n
    BY <1>1, <1>2, <2>1
  <2>3. (l + 1) * n = n * l + n
    BY <1>2
  <2> QED BY <1>1, <1>2, <2>2, <2>3
<1>5. j \in 0..l
  BY <1>1, <1>2, <1>4
<1>6. r \in 1..(n - 1)
  BY <1>1, <1>2 DEF r, x
<1>7. \E y \in {r + i * n : i \in 0..l} : y < p /\ IsXCoordinate(y)
  BY <1>1, <1>3, <1>5
<1> QED BY <1>6, <1>7 DEF IsSig, r, x, l

\* A signature that fits a nonce of its r verifies.
LEMMA FittingVerifies ==
  ASSUME NEW c \in Int, NEW q \in Int, NEW k \in 1..(n - 1), NEW s \in 1..(n - 1),
         RawR(k) # 0, Fits(c, q, k, RawR(k), s)
  PROVE  AssertAsValid_(c, Mult(q, G), RawR(k), s) /\ Verify_(c, Mult(q, G), RawR(k), s)
<1>1. Mult(k, G) \in Finite /\ k \in Int
  BY MultGInRange
<1>2. RawR(k) \in Int
  BY <1>1, XRange DEF RawR
<1>3. NoncePoint(c, Mult(q, G), RawR(k), s) = Mult(k, G)
  BY <1>1, <1>2, VerifiedNonce
<1>4. Mult(k, G) # INF
  BY <1>1 DEF Finite, INF
<1>5. AssertAsValid_(c, Mult(q, G), RawR(k), s)
  BY <1>3, <1>4 DEF AssertAsValid_, RawR
<1>6. IsSig(RawR(k), s)
  BY <1>1, RFromPoint DEF RawR
<1> QED BY <1>5, <1>6 DEF Verify_

\* What _sign_recoverable_ returns: r and s are in range and fit the nonce or
\* its opposite, and the key_id is the one of that nonce's point.
LEMMA Made ==
  ASSUME NEW c \in Scalar, NEW q \in 1..(n - 1), NEW k \in 1..(n - 1),
         NEW lowerS \in BOOLEAN, Signable(c, q, k)
  PROVE  LET S == SignRecoverable_(c, q, k, lowerS)
         IN  /\ S.r = RawR(k) /\ S.r \in 1..(n - 1)
             /\ S.s \in 1..(n - 1)
             /\ S = [r |-> S.r, s |-> S.s, keyId |-> S.keyId] /\ S.keyId \in Int
             /\ lowerS => IsLowS(S.s)
             /\ \E i \in {k, n - k} :
                  /\ i \in 1..(n - 1) /\ RawR(i) = RawR(k)
                  /\ Fits(c, q, i, S.r, S.s)
                  /\ \E bit \in {0, 1} :
                       /\ S.keyId = 2 * (XOf[Mult(i, G)] \div n) + bit
                       /\ N - Mult(i, G) = Mult(i, G) \/ Parity(Mult(i, G)) = bit
<1> DEFINE S == SignRecoverable_(c, q, k, lowerS)
           K == Mult(k, G)
           s == RawS(c, q, k)
           d == XOf[K] \div n
<1>1. n \in Nat /\ n > 2 /\ N \in Nat /\ c \in Int /\ q \in Int /\ k \in Int
  BY Orders DEF Scalar
<1>2. K \in Finite /\ K \in Int /\ N - K \in Finite
  BY OppositeNonce, <1>1 DEF Finite
<1>3. RawR(k) \in 0..(n - 1) /\ d \in Nat
  BY <1>2, XRange DEF RawR
<1>4. RawR(k) \in 1..(n - 1)
  BY <1>3 DEF Signable
<1>5. s \in 0..(n - 1) /\ Fits(c, q, k, RawR(k), s)
  BY <1>1, <1>3, RawSFits
<1>6. s \in 1..(n - 1)
  BY <1>5 DEF Signable
<1>7. Parity(K) \in {0, 1} /\ KeyId(K) = 2 * d + Parity(K) /\ KeyId(K) \in Int
  BY <1>3 DEF Parity, KeyId
<1> HIDE DEF s, K, d
<1>8. CASE lowerS /\ ~IsLowS(s)
  <2>1. S = [r |-> RawR(k), s |-> n - s, keyId |-> FlipParity(KeyId(K))]
    BY <1>8 DEF SignRecoverable_, s, K
  <2>2. n - s \in 1..(n - 1) /\ IsLowS(n - s)
    <3>1. n \div 2 \in Int /\ n = 2 * (n \div 2) + (n % 2) /\ n % 2 \in 0..1
      BY <1>1, DivMod, ModRange
    <3> QED BY <1>1, <1>6, <1>8, <3>1 DEF IsLowS
  <2>3. Fits(c, q, n - k, RawR(k), n - s)
    BY <1>1, <1>3, <1>5, NegatedFits
  <2>4. /\ n - k \in 1..(n - 1) /\ RawR(n - k) = RawR(k)
        /\ Mult(n - k, G) = N - K /\ XOf[Mult(n - k, G)] \div n = d
    BY OppositeNonce DEF K, d
  <2>5. FlipParity(KeyId(K)) = 2 * d + (1 - Parity(K)) /\ FlipParity(KeyId(K)) \in Int
    BY <1>3, <1>7 DEF FlipParity
  <2>6. 1 - Parity(K) \in {0, 1}
    BY <1>7
  <2>7. N - (N - K) = N - K \/ Parity(N - K) = 1 - Parity(K)
    BY <1>1, <1>2, CoordinatesAssumption DEF Parity
  <2>8. \E bit \in {0, 1} :
          /\ FlipParity(KeyId(K)) = 2 * (XOf[Mult(n - k, G)] \div n) + bit
          /\ N - Mult(n - k, G) = Mult(n - k, G) \/ Parity(Mult(n - k, G)) = bit
    BY <2>4, <2>5, <2>6, <2>7
  <2>9. /\ S.r = RawR(k) /\ S.s = n - s /\ S.keyId = FlipParity(KeyId(K))
        /\ S = [r |-> S.r, s |-> S.s, keyId |-> S.keyId]
    BY <2>1
  <2> HIDE DEF S
  <2> QED BY <1>4, <2>2, <2>3, <2>4, <2>5, <2>8, <2>9 DEF S
<1>9. CASE ~(lowerS /\ ~IsLowS(s))
  <2>1. S = [r |-> RawR(k), s |-> s, keyId |-> KeyId(K)]
    BY <1>9 DEF SignRecoverable_, s, K
  <2>2. lowerS => IsLowS(s)
    BY <1>9
  <2>3. \E bit \in {0, 1} :
          /\ KeyId(K) = 2 * (XOf[Mult(k, G)] \div n) + bit
          /\ N - Mult(k, G) = Mult(k, G) \/ Parity(Mult(k, G)) = bit
    BY <1>7 DEF K, d
  <2>4. /\ S.r = RawR(k) /\ S.s = s /\ S.keyId = KeyId(K)
        /\ S = [r |-> S.r, s |-> S.s, keyId |-> S.keyId]
    BY <2>1
  <2> HIDE DEF S
  <2> QED BY <1>4, <1>5, <1>6, <1>7, <2>2, <2>3, <2>4 DEF S
<1> QED BY <1>8, <1>9

\* The x-coordinate and the parity of a point are its own.
LEMMA LiftOf ==
  ASSUME NEW K \in Finite, NEW bit \in {0, 1}, N - K = K \/ Parity(K) = bit
  PROVE  IsXCoordinate(XOf[K]) /\ Lift(XOf[K], bit) = K
<1> DEFINE X == XOf[K]
<1>1. K \in Finite /\ XOf[K] = X /\ (N - K = K \/ Parity(K) = bit)
  OBVIOUS
<1>2. ASSUME NEW P \in Finite, XOf[P] = X, N - P = P \/ Parity(P) = bit
      PROVE  P = K
  <2>1. P \in {K, N - K}
    BY <1>1, <1>2, CoordinatesAssumption
  <2>2. CASE P = N - K /\ N - K # K
    <3>1. N - P = K /\ K \in Int
      BY <1>1, Orders, <2>2 DEF Finite
    <3>2. K \in OddY <=> (N - K) \notin OddY
      BY <1>1, <2>2, CoordinatesAssumption
    <3>3. Parity(P) # Parity(K)
      BY <2>2, <3>2 DEF Parity
    <3> QED BY <1>1, <1>2, <2>2, <3>1, <3>3
  <2> QED BY <2>1, <2>2
<1> HIDE DEF X
<1> QED BY <1>1, <1>2 DEF IsXCoordinate, Lift, X

\* A key_id that names the point of a fitting nonce recovers the key.
LEMMA FittingRecovers ==
  ASSUME NEW c \in Int, NEW q \in 1..(n - 1), NEW k \in 1..(n - 1), NEW s \in 1..(n - 1),
         RawR(k) # 0, Fits(c, q, k, RawR(k), s), NEW bit \in {0, 1},
         N - Mult(k, G) = Mult(k, G) \/ Parity(Mult(k, G)) = bit
  PROVE  RecoverPubKey(2 * (XOf[Mult(k, G)] \div n) + bit, c, RawR(k), s) = Mult(q, G)
<1> DEFINE K == Mult(k, G)
           X == XOf[K]
           d == X \div n
           r == RawR(k)
           i == 2 * d + bit
           Q == Mult(q, G)
<1>1. K \in Finite /\ K = k * h /\ Q \in Finite
  BY MultGInRange
<1>2. /\ p \in Nat \ {0} /\ X \in 0..(p - 1) /\ X \in Nat /\ d \in Nat
      /\ r \in 0..(n - 1) /\ X = r + d * n
  BY <1>1, XRange DEF RawR
<1>3. n \in Nat \ {0} /\ h \in Nat \ {0} /\ k \in Int /\ q \in Int /\ N = n * h /\ N \in Nat \ {0}
  BY Orders
<1>4. r \in 1..(n - 1) /\ s \in Int
  BY <1>2, <1>3
<1>5. Q # INF
  BY <1>1 DEF Finite, INF
<1>6. CandidateKey(c, r, s, K) = Q
  BY <1>3, <1>4, RecoveredKey
<1>7. AssertAsValid_(c, Q, r, s)
  BY <1>3, FittingVerifies
<1>8. IsXCoordinate(X) /\ Lift(X, bit) = K
  BY <1>1, LiftOf
<1>9. InSubgroup(K)
  <2> DEFINE y == n * K
             o == N
  <2>1. y \in Int /\ o \in Nat \ {0} /\ k \in Int /\ 0 \in Int /\ y = 0 + o * k
    BY <1>1, <1>3
  <2> HIDE DEF y, o, K
  <2>2. y % o = 0 % o
    BY <2>1, ModUnique
  <2>3. 0 % o = 0
    BY <2>1
  <2> QED BY <2>2, <2>3 DEF InSubgroup, INF, y, o
<1> HIDE DEF K, X, d, r, Q
<1>10. i % 2 = bit /\ i \div 2 = d
  BY <1>2
<1>11. CandidateX(i, r) = X
  <2>1. X % p = X
    BY <1>2
  <2> QED BY <1>2, <1>10, <2>1 DEF CandidateX
<1>12. RecoverPubKey(i, c, r, s) = Q
  BY <1>2, <1>5, <1>6, <1>7, <1>8, <1>9, <1>10, <1>11 DEF RecoverPubKey
<1> QED BY <1>12 DEF i, d, X, K, r, Q

\* What _sign_recoverable_ returns verifies with either s, and its key_id
\* recovers the key.
LEMMA MadeVerifies ==
  ASSUME NEW c \in Scalar, NEW q \in 1..(n - 1), NEW k \in 1..(n - 1),
         NEW lowerS \in BOOLEAN, Signable(c, q, k)
  PROVE  LET S == SignRecoverable_(c, q, k, lowerS)
         IN  /\ Verify_(c, Mult(q, G), S.r, S.s)
             /\ Verify_(c, Mult(q, G), S.r, n - S.s)
             /\ AssertAsValid_(c, Mult(q, G), S.r, S.s)
             /\ RecoverPubKey(S.keyId, c, S.r, S.s) = Mult(q, G)
<1> DEFINE S == SignRecoverable_(c, q, k, lowerS)
<1>1. /\ S.r = RawR(k) /\ S.r \in 1..(n - 1) /\ S.s \in 1..(n - 1)
      /\ \E i \in {k, n - k} :
           /\ i \in 1..(n - 1) /\ RawR(i) = RawR(k)
           /\ Fits(c, q, i, S.r, S.s)
           /\ \E bit \in {0, 1} :
                /\ S.keyId = 2 * (XOf[Mult(i, G)] \div n) + bit
                /\ N - Mult(i, G) = Mult(i, G) \/ Parity(Mult(i, G)) = bit
  BY Made
<1> HIDE DEF S
<1>2. PICK i \in {k, n - k} :
        /\ i \in 1..(n - 1) /\ RawR(i) = RawR(k)
        /\ Fits(c, q, i, S.r, S.s)
        /\ \E bit \in {0, 1} :
             /\ S.keyId = 2 * (XOf[Mult(i, G)] \div n) + bit
             /\ N - Mult(i, G) = Mult(i, G) \/ Parity(Mult(i, G)) = bit
  BY <1>1
<1>3. PICK bit \in {0, 1} :
        /\ S.keyId = 2 * (XOf[Mult(i, G)] \div n) + bit
        /\ N - Mult(i, G) = Mult(i, G) \/ Parity(Mult(i, G)) = bit
  BY <1>2
<1>4. n \in Nat /\ c \in Int /\ q \in Int /\ i \in Int /\ S.s \in Int /\ S.r \in Int
  BY <1>1, <1>2, Orders DEF Scalar
<1>5. RawR(i) = S.r /\ RawR(i) # 0
  BY <1>1, <1>2
<1>6. AssertAsValid_(c, Mult(q, G), S.r, S.s) /\ Verify_(c, Mult(q, G), S.r, S.s)
  BY <1>1, <1>2, <1>4, <1>5, FittingVerifies
<1>7. Verify_(c, Mult(q, G), S.r, n - S.s)
  <2>1. n - i \in 1..(n - 1) /\ RawR(n - i) = S.r /\ n - S.s \in 1..(n - 1)
    BY <1>1, <1>2, <1>4, <1>5, OppositeNonce
  <2>2. Fits(c, q, n - i, S.r, n - S.s)
    BY <1>2, <1>4, NegatedFits
  <2> QED BY <1>1, <1>4, <2>1, <2>2, FittingVerifies
<1>8. RecoverPubKey(S.keyId, c, S.r, S.s) = Mult(q, G)
  BY <1>1, <1>2, <1>3, <1>4, <1>5, FittingRecovers
<1> QED BY <1>6, <1>7, <1>8 DEF S

-----------------------------------------------------------------------------
(* The signing call                                                        *)

\* What a request that is not refused holds.
LEMMA RequestFacts ==
  ASSUME NEW req \in Requests
  PROVE  /\ req.c \in Scalar /\ req.key \in 0..n
         /\ req.nonce \in AtMostOne(0..n) /\ req.lowerS \in BOOLEAN
         /\ req.grind \in BOOLEAN /\ req.verify \in BOOLEAN
         /\ req.given \in AtMostOne(Point) /\ req.commit \in AtMostOne(Commit)
BY EcdsaAssumption DEF Request

\* The entropy of every attempt is some.
LEMMA GrindEntropyType ==
  ASSUME NEW i \in 0..MaxCounter
  PROVE  GrindEntropy(i) \in Entropy
<1>1. i # 0 => i \in 1..MaxCounter
  BY EcdsaAssumption
<1> QED BY <1>1 DEF GrindEntropy, Entropy

\* The nonce of an attempt, before and after its commitment.
LEMMA NonceTypes ==
  ASSUME NEW req \in Requests, ~Refused(req), NEW q \in 1..(n - 1),
         NEW i \in 0..MaxCounter
  PROVE  /\ DerivedNonce(req, q, i) \in 1..(n - 1)
         /\ FinalNonce(req, DerivedNonce(req, q, i)) \in 0..(n - 1)
<1> DEFINE k == DerivedNonce(req, q, i)
           m == CHOOSE x \in req.commit : TRUE
<1>1. req.commit # {} => m \in Commit
  BY RequestFacts DEF AtMostOne
<1>2. k \in 1..(n - 1)
  <2>1. CASE req.nonce # {}
    <3>1. req.nonce \subseteq 1..(n - 1)
      BY DEF Refused
    <3> QED BY <2>1, <3>1 DEF DerivedNonce
  <2>2. CASE req.nonce = {}
    <3> DEFINE e == IF req.commit = {} THEN GrindEntropy(i) ELSE <<"s2c", m>>
    <3>1. e \in Entropy
      BY <1>1, GrindEntropyType DEF Entropy
    <3>2. k = Nonce[req.c, q, e]
      BY <2>2 DEF DerivedNonce
    <3> HIDE DEF e
    <3>3. <<req.c, q, e>> \in Scalar \X (1..(n - 1)) \X Entropy
      BY <3>1, RequestFacts
    <3> QED BY <3>2, <3>3, EcdsaAssumption
  <2> QED BY <2>1, <2>2
<1>3. n \in Nat \ {0} /\ k \in Int
  BY <1>2, Orders
<1>4. FinalNonce(req, k) \in 0..(n - 1)
  <2>1. CASE req.commit = {}
    BY <1>2, <1>3, <2>1 DEF FinalNonce
  <2>2. CASE req.commit # {}
    <3> HIDE DEF k, m
    <3>1. Mult(k, G) \in Finite
      BY <1>2, MultGInRange
    <3> DEFINE t == Tweak[Mult(k, G), m]
    <3>2. <<Mult(k, G), m>> \in Finite \X Commit
      BY <1>1, <2>2, <3>1
    <3>3. t \in 1..(n - 1)
      BY <3>2, EcdsaAssumption, Zenon
    <3>4. FinalNonce(req, k) = (k + t) % n
      BY <2>2, Zenon DEF FinalNonce, CommitNonce, m
    <3> HIDE DEF t
    <3>5. k + t \in Int
      BY <1>3, <3>3
    <3> QED BY <1>3, <3>4, <3>5, ModRange
  <2> QED BY <2>1, <2>2
<1> QED BY <1>2, <1>4

\* What the last attempt of a call left, where nothing went wrong.
SignedWith(req, i, S, R) ==
  LET k0 == DerivedNonce(req, req.key, i)
      k  == FinalNonce(req, k0)
  IN  /\ Signable(req.c, req.key, k)
      /\ S = SignRecoverable_(req.c, req.key, k, req.lowerS)
      /\ req.commit # {} => R = Mult(k0, G)
      /\ req.grind => IsLowR(S.r)

NoneLowBefore(req, i) ==
  \A j \in 0..(i - 1) : ~IsLowR(RawR(CoreNonce(req.c, req.key, j)))

\* The invariant the properties of a call rest on: the types; where nothing
\* went wrong, no counter before this one had a low r, and a signature to be
\* checked or returned is the one of the last attempt.
SigningInv ==
  /\ TypeOK
  /\ Signed => ~Refused(call)
  /\ phase = "idle" => counter = 0 /\ ~faulted
  /\ ~faulted /\ call.grind => NoneLowBefore(call, counter)
  /\ ~faulted /\ (phase = "checking" \/ Signed) => SignedWith(call, counter, sig, receipt)

\* The invariant holds before the call.
LEMMA SigningInvInit == Init => SigningInv
<1> SUFFICES ASSUME Init PROVE SigningInv
  OBVIOUS
<1> USE DEF Init
<1>1. call \in Requests /\ call.key \in 0..n
  BY RequestFacts
<1>2. 0 \in 0..(n - 1) /\ 0 \in Point /\ 0 \in 0..MaxCounter
  BY Orders, EcdsaAssumption DEF Point
<1>3. NoSig \in Sigs
  BY <1>2 DEF NoSig, Sigs
<1>4. TypeOK
  BY <1>1, <1>2, <1>3 DEF TypeOK, Outcomes, INF
<1>5. NoneLowBefore(call, 0)
  BY DEF NoneLowBefore
<1> QED BY <1>4, <1>5 DEF SigningInv, Signed

\* Refusing or accepting the arguments keeps the invariant.
LEMMA CallStep ==
  ASSUME SigningInv, NEW k \in MayHold(call), Call(k)
  PROVE  SigningInv'
<1> USE DEF Call
<1>1. TypeOK /\ call \in Requests /\ call.key \in 0..n /\ n \in Nat
  BY RequestFacts, Orders DEF SigningInv, TypeOK
<1>2. k \in 0..n
  BY <1>1 DEF MayHold
<1>3. ~Refused(call) => call.key \in 1..(n - 1)
  BY DEF Refused
<1>4. ~Refused(call) => k \in 1..(n - 1)
  BY <1>3 DEF MayHold
<1>5. TypeOK'
  BY <1>1, <1>2, <1>4 DEF TypeOK, Outcomes, Refused
<1>6. call.grind => NoneLowBefore(call, counter)
  BY DEF SigningInv
<1>7. phase' # "idle" /\ phase' # "checking" /\ ~Signed'
  BY DEF Signed
<1>8. (~faulted /\ call.grind => NoneLowBefore(call, counter))'
  BY <1>6 DEF NoneLowBefore
<1> QED BY <1>5, <1>7, <1>8 DEF SigningInv

\* A computation that goes wrong still leaves two scalars in range.
LEMMA ComputedInRange ==
  ASSUME NEW R, R = [r |-> R.r, s |-> R.s, keyId |-> R.keyId], R.r \in 1..(n - 1),
         R.s \in 1..(n - 1), R.keyId \in Int, NEW S \in MayCompute(R)
  PROVE  S \in Sigs /\ S.r \in 1..(n - 1) /\ S.s \in 1..(n - 1)
<1>1. n \in Nat
  BY Orders
<1>2. \A x, y \in 1..(n - 1) : x \in 0..(n - 1) /\ y \in 0..(n - 1)
  BY <1>1
<1>3. ASSUME NEW x \in 1..(n - 1), NEW y \in 1..(n - 1),
             S = [r |-> x, s |-> y, keyId |-> R.keyId]
      PROVE  S \in Sigs /\ S.r \in 1..(n - 1) /\ S.s \in 1..(n - 1)
  BY <1>2, <1>3 DEF Sigs
<1>4. CASE S = R
  BY <1>3, <1>4
<1>5. CASE \E x \in 1..(n - 1) : S = [R EXCEPT !.r = x]
  <2>1. PICK x \in 1..(n - 1) : S = [R EXCEPT !.r = x]
    BY <1>5
  <2>2. S = [r |-> x, s |-> R.s, keyId |-> R.keyId]
    BY <2>1
  <2> QED BY <1>3, <2>2
<1>6. CASE \E x \in 1..(n - 1) : S = [R EXCEPT !.s = x]
  <2>1. PICK x \in 1..(n - 1) : S = [R EXCEPT !.s = x]
    BY <1>6
  <2>2. S = [r |-> R.r, s |-> x, keyId |-> R.keyId]
    BY <2>1
  <2> QED BY <1>3, <2>2
<1>7. S = R \/ (\E x \in 1..(n - 1) : S = [R EXCEPT !.r = x])
            \/ (\E x \in 1..(n - 1) : S = [R EXCEPT !.s = x])
  BY DEF MayCompute
<1> QED BY <1>4, <1>5, <1>6, <1>7

\* A call that grinds signs with Core's nonces.
LEMMA GrindsCoreNonces ==
  ASSUME NEW req, ~Refused(req), req.grind, NEW q, NEW i
  PROVE  FinalNonce(req, DerivedNonce(req, q, i)) = CoreNonce(req.c, q, i)
<1>1. req.nonce = {} /\ req.commit = {}
  BY DEF Refused
<1> QED BY <1>1, Zenon DEF FinalNonce, DerivedNonce, CoreNonce, GrindEntropy

\* Some counter of the grinding loop has a low r.
LEMMA LowFound ==
  ASSUME NEW c \in Scalar, NEW q \in 1..(n - 1)
  PROVE  \E i \in 0..MaxCounter : IsLowR(RawR(CoreNonce(c, q, i)))
BY GrindAssumption, Zenon DEF IsLowR, RawR, CoreNonce

\* An attempt keeps the invariant, also one that goes wrong.
LEMMA AttemptStep ==
  ASSUME SigningInv, Attempt
  PROVE  SigningInv'
<1> DEFINE k0 == DerivedNonce(call, held, counter)
           k  == FinalNonce(call, k0)
           R  == SignRecoverable_(call.c, held, k, call.lowerS)
<1>1. /\ TypeOK /\ phase = "signing" /\ call \in Requests /\ ~Refused(call)
      /\ held \in 1..(n - 1) /\ counter \in 0..MaxCounter
      /\ ~faulted => held = call.key
  BY DEF SigningInv, TypeOK, Attempt
<1>2. k0 \in 1..(n - 1) /\ k \in 0..(n - 1)
  BY <1>1, NonceTypes
<1>3. n \in Nat \ {0} /\ MaxCounter \in Nat /\ 0 \in Point
  BY Orders, EcdsaAssumption DEF Point
<1>4. receipt' = (IF call.commit = {} THEN INF ELSE Mult(k0, G)) /\ call' = call /\ held' = held
  BY DEF Attempt
<1>5. receipt' \in Point
  BY <1>2, <1>3, <1>4, MultG DEF INF
<1>6. /\ call.c \in Scalar /\ call.grind \in BOOLEAN /\ call.verify \in BOOLEAN
      /\ call.lowerS \in BOOLEAN
  BY <1>1, RequestFacts
<1>7. CASE ~Signable(call.c, held, k)
  <2>1. /\ phase' = "done" /\ outcome' = "failed"
        /\ counter' = counter /\ sig' = sig /\ faulted' = faulted
    BY <1>7 DEF Attempt
  <2>2. TypeOK'
    BY <1>1, <1>4, <1>5, <2>1 DEF TypeOK, Outcomes
  <2>3. (~faulted /\ call.grind => NoneLowBefore(call, counter))'
    BY <1>4, <2>1 DEF SigningInv, NoneLowBefore
  <2> QED BY <2>1, <2>2, <2>3 DEF SigningInv, Signed
<1>8. CASE Signable(call.c, held, k)
  <2>1. PICK S \in MayCompute(R) :
          /\ sig' = S
          /\ faulted' = (faulted \/ S # R)
          /\ IF call.grind /\ ~IsLowR(S.r)
             THEN /\ counter' = IF counter < MaxCounter THEN counter + 1 ELSE counter
                  /\ UNCHANGED <<phase, outcome>>
             ELSE /\ phase'   = IF call.verify THEN "checking" ELSE "done"
                  /\ outcome' = IF call.verify THEN "none"     ELSE "signed"
                  /\ UNCHANGED counter
    BY <1>8 DEF Attempt
  <2>2. k \in 1..(n - 1)
    BY <1>2, <1>8 DEF Signable
  <2> HIDE DEF k, k0
  <2>3. /\ R.r = RawR(k) /\ R.r \in 1..(n - 1) /\ R.s \in 1..(n - 1)
        /\ R = [r |-> R.r, s |-> R.s, keyId |-> R.keyId] /\ R.keyId \in Int
    BY <1>1, <1>6, <1>8, <2>2, Made
  <2> HIDE DEF R
  <2>4. S \in Sigs /\ S.r \in 1..(n - 1) /\ S.s \in 1..(n - 1)
    BY <2>3, ComputedInRange
  <2>5. ~faulted' => S = R /\ ~faulted /\ held = call.key
    BY <1>1, <2>1
  <2>6. ~faulted' /\ call.grind => \A j \in 0..(counter - 1) : ~IsLowR(RawR(CoreNonce(call.c, call.key, j)))
    BY <2>5 DEF SigningInv, NoneLowBefore
  <2>7. CASE call.grind /\ ~IsLowR(S.r)
    <3>1. /\ counter' = IF counter < MaxCounter THEN counter + 1 ELSE counter
          /\ phase' = phase /\ outcome' = outcome
      BY <2>1, <2>7
    <3>2. counter' \in 0..MaxCounter
      BY <1>1, <1>3, <3>1
    <3>3. TypeOK'
      BY <1>1, <1>4, <1>5, <2>1, <2>4, <2>5, <3>1, <3>2 DEF TypeOK
    <3>4. ASSUME ~faulted'
          PROVE  NoneLowBefore(call, counter')
      <4>1. held = call.key /\ ~IsLowR(RawR(k))
        BY <2>3, <2>5, <2>7, <3>4
      <4>2. k = CoreNonce(call.c, call.key, counter)
        BY <1>1, <2>7, <4>1, GrindsCoreNonces DEF k, k0
      <4>3. \A j \in 0..counter : j \in 0..(counter - 1) \/ j = counter
        BY <1>1, <1>3
      <4>4. \A j \in 0..counter : ~IsLowR(RawR(CoreNonce(call.c, call.key, j)))
        BY <2>6, <2>7, <3>4, <4>1, <4>2, <4>3
      <4>5. counter # MaxCounter
        BY <1>1, <1>6, <4>1, <4>4, LowFound
      <4>6. counter' - 1 = counter
        BY <1>1, <1>3, <3>1, <4>5
      <4> QED BY <4>4, <4>6 DEF NoneLowBefore
    <3>5. NoneLowBefore(call, counter)' <=> NoneLowBefore(call, counter')
      BY <1>4 DEF NoneLowBefore
    <3> QED BY <1>1, <3>1, <3>3, <3>4, <3>5 DEF SigningInv, Signed
  <2>8. CASE ~(call.grind /\ ~IsLowR(S.r))
    <3>1. /\ phase'   = IF call.verify THEN "checking" ELSE "done"
          /\ outcome' = IF call.verify THEN "none"     ELSE "signed"
          /\ counter' = counter
      BY <2>1, <2>8
    <3>2. TypeOK'
      BY <1>1, <1>4, <1>5, <2>1, <2>4, <2>5, <3>1 DEF TypeOK, Outcomes
    <3>3. ASSUME ~faulted', call.grind
          PROVE  NoneLowBefore(call, counter)'
      BY <1>4, <2>6, <3>1, <3>3 DEF NoneLowBefore
    <3>4. ASSUME ~faulted'
          PROVE  SignedWith(call, counter, sig, receipt)'
      <4>1. held = call.key /\ S = R
        BY <2>5, <3>4
      <4>2. call.grind => IsLowR(S.r)
        BY <1>6, <2>8
      <4>3. call.commit # {} => receipt' = Mult(k0, G)
        BY <1>4 DEF k0
      <4>4. k = FinalNonce(call, k0) /\ k0 = DerivedNonce(call, call.key, counter)
        BY <4>1 DEF k, k0
      <4>5. SignedWith(call, counter, S, receipt')
        BY <1>8, <4>1, <4>2, <4>3, <4>4 DEF SignedWith, R
      <4> QED BY <1>4, <2>1, <3>1, <4>5 DEF SignedWith
    <3>5. ~Refused(call)'
      BY <1>1, <1>4 DEF Refused
    <3> QED BY <1>4, <3>1, <3>2, <3>3, <3>4, <3>5 DEF SigningInv
  <2> QED BY <2>7, <2>8
<1> QED BY <1>7, <1>8

\* The check changes the phase and the outcome only.
LEMMA CheckStep ==
  ASSUME SigningInv, Check
  PROVE  SigningInv'
<1>1. /\ TypeOK /\ phase = "checking" /\ phase' = "done"
      /\ outcome' \in {"signed", "notThisKeys", "doesNotVerify"}
      /\ UNCHANGED <<call, held, counter, sig, receipt, faulted>>
      /\ ~Refused(call)
  BY DEF SigningInv, TypeOK, Check, CheckOutcome
<1>2. TypeOK'
  BY <1>1 DEF TypeOK, Outcomes
<1>3. ~Refused(call)'
  BY <1>1 DEF Refused
<1>4. (~faulted /\ call.grind => NoneLowBefore(call, counter))'
  BY <1>1 DEF SigningInv, NoneLowBefore
<1>5. (~faulted => SignedWith(call, counter, sig, receipt))'
  BY <1>1 DEF SigningInv, SignedWith
<1> QED BY <1>1, <1>2, <1>3, <1>4, <1>5 DEF SigningInv

\* Every step keeps the invariant.
LEMMA SigningInvInductive ==
  ASSUME SigningInv, [Next]_vars
  PROVE  SigningInv'
<1>1. CASE \E k \in MayHold(call) : Call(k)
  BY <1>1, CallStep
<1>2. CASE Attempt
  BY <1>2, AttemptStep
<1>3. CASE Check
  BY <1>3, CheckStep
<1>4. CASE UNCHANGED vars
  BY <1>4 DEF vars, SigningInv, TypeOK, Signed, Refused, NoneLowBefore, SignedWith
<1> QED BY <1>1, <1>2, <1>3, <1>4 DEF Next

\* The invariant of a signing call holds throughout it.
THEOREM SigningInvariant == Spec => []SigningInv
<1>1. Init => SigningInv
  BY SigningInvInit
<1>2. SigningInv /\ [Next]_vars => SigningInv'
  BY SigningInvInductive
<1> QED BY <1>1, <1>2, PTL DEF Spec

\* Every variable keeps its type.
THEOREM TypeCorrect == Spec => []TypeOK
<1>1. SigningInv => TypeOK
  BY DEF SigningInv
<1> QED BY <1>1, SigningInvariant, PTL

-----------------------------------------------------------------------------
(* The properties                                                          *)

\* A signature nothing went wrong in is what _sign_recoverable_ made of the
\* caller's key and a nonce in range.
LEMMA SignedFacts ==
  ASSUME SigningInv, ~faulted, phase = "checking" \/ Signed
  PROVE  /\ call \in Requests /\ ~Refused(call)
         /\ call.c \in Scalar /\ call.key \in 1..(n - 1) /\ call.lowerS \in BOOLEAN
         /\ SignedWith(call, counter, sig, receipt)
         /\ LET k0 == DerivedNonce(call, call.key, counter)
                k  == FinalNonce(call, k0)
            IN  /\ k0 \in 1..(n - 1) /\ k \in 1..(n - 1)
                /\ Signable(call.c, call.key, k)
                /\ sig = SignRecoverable_(call.c, call.key, k, call.lowerS)
<1>1. call \in Requests /\ ~Refused(call) /\ counter \in 0..MaxCounter
  BY DEF SigningInv, TypeOK
<1>2. call.key \in 1..(n - 1) /\ call.c \in Scalar /\ call.lowerS \in BOOLEAN
  BY <1>1, RequestFacts DEF Refused
<1>3. SignedWith(call, counter, sig, receipt)
  BY DEF SigningInv
<1> DEFINE k0 == DerivedNonce(call, call.key, counter)
           k  == FinalNonce(call, k0)
<1>4. k0 \in 1..(n - 1) /\ k \in 0..(n - 1)
  BY <1>1, <1>2, NonceTypes
<1>5. Signable(call.c, call.key, k) /\ sig = SignRecoverable_(call.c, call.key, k, call.lowerS)
  BY <1>3 DEF SignedWith
<1> HIDE DEF k0, k
<1>6. k \in 1..(n - 1)
  BY <1>4, <1>5, Orders DEF Signable
<1> QED BY <1>1, <1>2, <1>3, <1>4, <1>5, <1>6 DEF k, k0

\* sign_ may skip the validation of what it returns: the signature verifies
\* under the signer's key, with s and with n - s, and s is low where asked.
THEOREM SignaturesVerify == Spec => []SignatureVerifies
<1>1. SigningInv => SignatureVerifies
  <2> SUFFICES ASSUME SigningInv, Signed, ~faulted
               PROVE  /\ Verify_(call.c, OwnKey, sig.r, sig.s)
                      /\ Verify_(call.c, OwnKey, sig.r, n - sig.s)
                      /\ call.lowerS => IsLowS(sig.s)
    BY DEF SignatureVerifies
  <2> DEFINE k == FinalNonce(call, DerivedNonce(call, call.key, counter))
  <2>1. /\ call.c \in Scalar /\ call.key \in 1..(n - 1) /\ call.lowerS \in BOOLEAN
        /\ k \in 1..(n - 1) /\ Signable(call.c, call.key, k)
        /\ sig = SignRecoverable_(call.c, call.key, k, call.lowerS)
    BY SignedFacts
  <2> HIDE DEF k
  <2>2. call.lowerS => IsLowS(sig.s)
    BY <2>1, Made
  <2>3. /\ Verify_(call.c, Mult(call.key, G), sig.r, sig.s)
        /\ Verify_(call.c, Mult(call.key, G), sig.r, n - sig.s)
    BY <2>1, MadeVerifies
  <2> QED BY <2>2, <2>3 DEF OwnKey
<1> QED BY <1>1, SigningInvariant, PTL

\* What recover_pub_key_ answers to the key_id returned with a signature.
KeyIdRecovers ==
  Signed /\ ~faulted => RecoverPubKey(sig.keyId, call.c, sig.r, sig.s) = OwnKey

\* The key_id returned with a signature recovers the signer's key.
THEOREM KeyIdsRecover == Spec => []KeyIdRecovers
<1>1. SigningInv => KeyIdRecovers
  <2> SUFFICES ASSUME SigningInv, Signed, ~faulted
               PROVE  RecoverPubKey(sig.keyId, call.c, sig.r, sig.s) = OwnKey
    BY DEF KeyIdRecovers
  <2> DEFINE k == FinalNonce(call, DerivedNonce(call, call.key, counter))
  <2>1. /\ call.c \in Scalar /\ call.key \in 1..(n - 1) /\ call.lowerS \in BOOLEAN
        /\ k \in 1..(n - 1) /\ Signable(call.c, call.key, k)
        /\ sig = SignRecoverable_(call.c, call.key, k, call.lowerS)
    BY SignedFacts
  <2> HIDE DEF k
  <2> QED BY <2>1, MadeVerifies DEF OwnKey
<1> QED BY <1>1, SigningInvariant, PTL

\* The receipt returned with a commitment opens it.
THEOREM CommitmentsOpen == Spec => []CommitmentOpens
<1>1. SigningInv => CommitmentOpens
  <2> SUFFICES ASSUME SigningInv, Signed, ~faulted, NEW m \in call.commit
               PROVE  receipt # INF /\ AssertCommitment(m, receipt, sig.r)
    BY DEF CommitmentOpens
  <2> DEFINE k0 == DerivedNonce(call, call.key, counter)
             k  == FinalNonce(call, k0)
             t  == Tweak[receipt, m]
  <2>1. /\ call \in Requests /\ call.c \in Scalar /\ call.key \in 1..(n - 1)
        /\ call.lowerS \in BOOLEAN /\ k0 \in 1..(n - 1)
        /\ k \in 1..(n - 1) /\ Signable(call.c, call.key, k)
        /\ sig = SignRecoverable_(call.c, call.key, k, call.lowerS)
        /\ SignedWith(call, counter, sig, receipt)
    BY SignedFacts
  <2>2. receipt = Mult(k0, G)
    BY <2>1 DEF SignedWith
  <2>3. call.commit = {m} /\ m \in Commit
    BY <2>1, RequestFacts DEF AtMostOne
  <2>4. m = CHOOSE x \in call.commit : TRUE
    BY <2>3
  <2> HIDE DEF k0
  <2>5. receipt \in Finite /\ receipt # INF
    BY <2>1, <2>2, MultGInRange DEF Finite, INF
  <2>6. t \in 1..(n - 1)
    <3>1. <<receipt, m>> \in Finite \X Commit
      BY <2>3, <2>5
    <3> QED BY <3>1, EcdsaAssumption, Zenon
  <2>7. k = (k0 + t) % n
    <3>1. call.commit # {}
      OBVIOUS
    <3>2. k = CommitNonce(k0, m)
      BY <2>4, <3>1, Zenon DEF FinalNonce
    <3> QED BY <2>2, <3>2, Zenon DEF CommitNonce
  <2>8. CommitPoint(receipt, m) = Add(receipt, Mult(t, G))
    BY Zenon DEF CommitPoint
  <2>9. sig.r = RawR(k)
    <3> HIDE DEF k
    <3> QED BY <2>1, Made
  <2> HIDE DEF t, k
  <2>10. n \in Nat \ {0} /\ k0 \in Int /\ t \in Int /\ k \in Int /\ 1 \in Int /\ k0 + t \in Int
    BY <2>1, <2>6, Orders
  <2>11. CommitPoint(receipt, m) = Mult(k, G)
    <3>1. Mult(1, Mult(k0, G)) = Mult(k0, G)
      <4>1. Mult(k0, G) \in Nat /\ Mult(k0, G) < N /\ 1 % n = 1
        BY <2>1, MultGInRange, Orders DEF Finite
      <4>2. Mult(1, Mult(k0, G)) = ((1 % n) * Mult(k0, G)) % N
        BY DEF Mult
      <4> HIDE DEF Mult
      <4>3. N \in Nat /\ \A x \in Nat, z \in Nat : x < z => (1 * x) % z = x
        BY Orders
      <4> QED BY <4>1, <4>2, <4>3
    <3>2. Add(Mult(1, Mult(k0, G)), Mult(t, G)) = Mult(1 * k0 + t, G)
      BY <2>10, DoubleMult
    <3>3. 1 * k0 + t = k0 + t
      BY <2>10
    <3>4. Cong(n, k, k0 + t)
      BY <2>7, <2>10, CongMod
    <3> QED BY <2>2, <2>8, <2>10, <3>1, <3>2, <3>3, <3>4, CongMult
  <2>12. Mult(k, G) # INF
    BY <2>1, MultGInRange DEF Finite, INF
  <2> QED BY <2>5, <2>9, <2>11, <2>12 DEF AssertCommitment, RawR
<1> QED BY <1>1, SigningInvariant, PTL

\* A ground signature is the one of the first counter whose r is low.
THEOREM GroundSignaturesAreFirst == Spec => []GroundToFirstLow
<1>1. SigningInv => GroundToFirstLow
  <2> SUFFICES ASSUME SigningInv, Signed, call.grind, ~faulted
               PROVE  sig = SignRecoverable_(call.c, call.key, FirstLowNonce(call.c, call.key), call.lowerS)
    BY DEF GroundToFirstLow
  <2> DEFINE low(i) == RawR(CoreNonce(call.c, call.key, i)) < LowRBound
             k == FinalNonce(call, DerivedNonce(call, call.key, counter))
  <2>1. /\ call \in Requests /\ ~Refused(call) /\ counter \in 0..MaxCounter
        /\ call.c \in Scalar /\ call.key \in 1..(n - 1) /\ call.lowerS \in BOOLEAN
        /\ k \in 1..(n - 1) /\ Signable(call.c, call.key, k)
        /\ sig = SignRecoverable_(call.c, call.key, k, call.lowerS)
        /\ SignedWith(call, counter, sig, receipt)
    BY SignedFacts DEF SigningInv, TypeOK
  <2>2. k = CoreNonce(call.c, call.key, counter)
    BY <2>1, GrindsCoreNonces
  <2>3. IsLowR(sig.r)
    BY <2>1 DEF SignedWith
  <2> HIDE DEF k
  <2>4. sig.r = RawR(k)
    BY <2>1, Made
  <2>5. low(counter)
    BY <2>2, <2>3, <2>4 DEF IsLowR
  <2>6. \A j \in 0..(counter - 1) : ~low(j)
    BY DEF SigningInv, NoneLowBefore, IsLowR
  <2>7. MaxCounter \in Nat /\ LowRBound \in Int
    BY EcdsaAssumption
  <2>8. \A i \in 0..MaxCounter : RawR(CoreNonce(call.c, call.key, i)) \in Int
    <3>1. ASSUME NEW i \in 0..MaxCounter
          PROVE  RawR(CoreNonce(call.c, call.key, i)) \in Int
      <4> DEFINE e == IF i = 0 THEN NoEntropy ELSE <<i>>
      <4>1. e \in Entropy
        BY GrindEntropyType DEF GrindEntropy
      <4> HIDE DEF e
      <4>2. <<call.c, call.key, e>> \in Scalar \X (1..(n - 1)) \X Entropy
        BY <2>1, <4>1
      <4>3. Nonce[call.c, call.key, e] \in 1..(n - 1)
        BY <4>2, EcdsaAssumption, Zenon
      <4>4. CoreNonce(call.c, call.key, i) \in 1..(n - 1)
        BY <4>3, Zenon DEF CoreNonce, e
      <4>5. Mult(CoreNonce(call.c, call.key, i), G) \in Finite
        BY <4>4, MultGInRange
      <4>6. XOf[Mult(CoreNonce(call.c, call.key, i), G)] % n \in 0..(n - 1)
        BY <4>5, XRange
      <4> QED BY <4>6 DEF RawR
    <3> QED BY <3>1
  <2>9. \A i \in 0..MaxCounter :
          RawR(CoreNonce(call.c, call.key, i)) >= LowRBound <=> ~low(i)
    BY <2>7, <2>8
  <2> DEFINE first(i) == /\ low(i)
                         /\ \A j \in 0..(i - 1) : RawR(CoreNonce(call.c, call.key, j)) >= LowRBound
             f == CHOOSE i \in 0..MaxCounter : first(i)
  <2>10. \A i \in 0..MaxCounter : \A j \in 0..(i - 1) : j \in 0..MaxCounter
    BY <2>7
  <2>11. first(counter)
    BY <2>1, <2>5, <2>6, <2>9, <2>10
  <2>12. f \in 0..MaxCounter /\ first(f)
    BY <2>1, <2>11
  <2>13. FirstLowNonce(call.c, call.key) = CoreNonce(call.c, call.key, f)
    BY DEF FirstLowNonce
  <2> HIDE DEF f
  <2>14. f = counter
    <3>1. \A i \in 0..(f - 1) : ~low(i)
      BY <2>9, <2>10, <2>12
    <3>2. low(f)
      BY <2>12
    <3> HIDE DEF low
    <3>3. f \in Nat /\ counter \in Nat
      BY <2>1, <2>7, <2>12
    <3>4. f \notin 0..(counter - 1) /\ counter \notin 0..(f - 1)
      BY <2>5, <2>6, <3>1, <3>2
    <3> QED BY <3>3, <3>4
  <2> QED BY <2>1, <2>2, <2>13, <2>14
<1> QED BY <1>1, SigningInvariant, PTL

\* The check of a signature nothing went wrong in passes under the signer's
\* own key.
LEMMA OwnKeyPasses ==
  ASSUME SigningInv, ~faulted, phase = "checking"
  PROVE  held = call.key /\ AssertAsValid_(call.c, OwnKey, sig.r, sig.s)
<1> DEFINE k == FinalNonce(call, DerivedNonce(call, call.key, counter))
<1>1. /\ call.c \in Scalar /\ call.key \in 1..(n - 1) /\ call.lowerS \in BOOLEAN
      /\ k \in 1..(n - 1) /\ Signable(call.c, call.key, k)
      /\ sig = SignRecoverable_(call.c, call.key, k, call.lowerS)
  BY SignedFacts
<1>2. held = call.key
  BY DEF SigningInv, TypeOK
<1> HIDE DEF k
<1> QED BY <1>1, <1>2, MadeVerifies DEF OwnKey

\* A caller hears of a computation that went wrong, or of a public key that is
\* not the private key's, only if that is so.
THEOREM CausesAreBlamed == Spec => []BlamesTheCause
<1>1. Init => BlamesTheCause
  BY DEF Init, BlamesTheCause
<1>2. ASSUME SigningInv, BlamesTheCause, [Next]_vars
      PROVE  BlamesTheCause'
  <2>1. ASSUME NEW k \in MayHold(call), Call(k)
        PROVE  BlamesTheCause'
    BY <2>1 DEF Call, BlamesTheCause
  <2>2. CASE Attempt
    <3>1. phase' = "done" => outcome' \in {"failed", "signed"}
      BY <2>2 DEF Attempt
    <3> QED BY <3>1 DEF BlamesTheCause
  <2>3. CASE Check
    <3> SUFFICES ASSUME ~faulted'
                 PROVE  /\ outcome' # "doesNotVerify"
                        /\ outcome' = "notThisKeys" => call.given # {OwnKey}
      BY <2>3 DEF Check, BlamesTheCause, OwnKey
    <3>1. /\ phase = "checking" /\ ~faulted
          /\ outcome' = CheckOutcome(call.given, held, call.c, sig.r, sig.s)
      BY <2>3 DEF Check
    <3>2. held = call.key /\ AssertAsValid_(call.c, OwnKey, sig.r, sig.s)
      BY <1>2, <3>1, OwnKeyPasses
    <3>3. Mult(held, G) = OwnKey
      BY <3>2 DEF OwnKey
    <3>4. CASE call.given = {}
      BY <3>1, <3>2, <3>3, <3>4 DEF CheckOutcome, CheckedUnder
    <3>5. CASE call.given # {}
      BY <3>1, <3>2, <3>3, <3>5 DEF CheckOutcome, CheckedUnder
    <3> QED BY <3>4, <3>5
  <2>4. CASE UNCHANGED vars
    BY <1>2, <2>4 DEF vars, BlamesTheCause, OwnKey
  <2> QED BY <1>2, <2>1, <2>2, <2>3, <2>4 DEF Next
<1>3. SigningInv /\ BlamesTheCause /\ [Next]_vars => BlamesTheCause'
  BY <1>2
<1> QED BY <1>1, <1>3, SigningInvariant, PTL DEF Spec

\* What NothingSpoiledIsReturned says of verification.
CheckedVerifies ==
  Signed /\ call.verify =>
    \A Q \in CheckedUnder(call.given, held) : Verify_(call.c, Q, sig.r, sig.s)

\* A checked signature that is returned verifies under a key fixed before it
\* existed, however its computation went.
THEOREM CheckedSignaturesVerify == Spec => []CheckedVerifies
<1>1. Init => CheckedVerifies
  BY DEF Init, CheckedVerifies, Signed
<1>2. ASSUME SigningInv, CheckedVerifies, [Next]_vars
      PROVE  CheckedVerifies'
  <2>1. ASSUME NEW k \in MayHold(call), Call(k)
        PROVE  CheckedVerifies'
    BY <2>1 DEF Call, CheckedVerifies, Signed
  <2>2. CASE Attempt
    BY <1>2, <2>2 DEF Attempt, SigningInv, TypeOK, CheckedVerifies, Signed
  <2>3. CASE Check
    <3> SUFFICES ASSUME outcome' = "signed",
                        NEW Q \in CheckedUnder(call.given, held)
                 PROVE  Verify_(call.c, Q, sig.r, sig.s)
      BY <2>3 DEF Check, CheckedVerifies, Signed, CheckedUnder
    <3> DEFINE K == NoncePoint(call.c, Q, sig.r, sig.s)
    <3>1. /\ phase = "checking"
          /\ CheckOutcome(call.given, held, call.c, sig.r, sig.s) = "signed"
      BY <2>3 DEF Check
    <3>2. sig.r \in 1..(n - 1) /\ sig.s \in 1..(n - 1) /\ call \in Requests
      BY <1>2, <3>1 DEF SigningInv, TypeOK
    <3>3. AssertAsValid_(call.c, Q, sig.r, sig.s)
      BY <3>1 DEF CheckOutcome
    <3>4. K # INF /\ XOf[K] % n = sig.r
      BY <3>3 DEF AssertAsValid_
    <3>5. K \in Point
      <4>1. held \in 1..(n - 1) /\ call.c \in Int
        BY <1>2, <3>1, <3>2, RequestFacts, Orders DEF SigningInv, TypeOK, Scalar
      <4>2. Mult(held, G) \in Int
        BY <4>1, MultGInRange, Orders DEF Finite
      <4>3. Q \in Int
        BY <3>2, <4>2, RequestFacts, Orders DEF CheckedUnder, AtMostOne, Point
      <4>4. \A x, y \in Int : Add(x, y) \in Point
        <5>1. ASSUME NEW x \in Int, NEW y \in Int PROVE Add(x, y) \in Point
          <6>1. x + y \in Int
            OBVIOUS
          <6> QED BY <6>1, Orders, ModRange DEF Add, Point
        <5> QED BY <5>1
      <4>5. \A x, y \in Int : Mult(x, y) \in Int
        <5>1. ASSUME NEW x \in Int, NEW y \in Int PROVE Mult(x, y) \in Int
          <6> DEFINE z == (x % n) * y
          <6>1. z \in Int
            BY Orders
          <6> HIDE DEF z
          <6>2. z % N \in 0..(N - 1)
            BY <6>1, Orders, ModRange
          <6> QED BY <6>2, Orders DEF Mult, z
        <5> QED BY <5>1
      <4>6. ModInv(sig.s) \in Int
        <5>1. ModInv(sig.s) \in 1..(n - 1)
          BY <3>2, ModInvIsInverse
        <5> QED BY <5>1, Orders
      <4>7. sig.r * ModInv(sig.s) \in Int /\ call.c * ModInv(sig.s) \in Int /\ G \in Int
        BY <3>2, <4>1, <4>6, Orders DEF G
      <4> QED BY <4>3, <4>4, <4>5, <4>7 DEF NoncePoint
    <3>6. K \in Finite
      BY <3>4, <3>5, Orders DEF Point, Finite, INF
    <3> HIDE DEF K
    <3>7. IsSig(XOf[K] % n, sig.s)
      BY <3>2, <3>4, <3>6, RFromPoint
    <3> QED BY <3>3, <3>4, <3>7 DEF Verify_
  <2>4. CASE UNCHANGED vars
    BY <1>2, <2>4 DEF vars, CheckedVerifies, Signed, CheckedUnder
  <2> QED BY <1>2, <2>1, <2>2, <2>3, <2>4 DEF Next
<1>3. SigningInv /\ CheckedVerifies /\ [Next]_vars => CheckedVerifies'
  BY <1>2
<1> QED BY <1>1, <1>3, SigningInvariant, PTL DEF Spec

-----------------------------------------------------------------------------
(* Recovery                                                                *)

\* The points of the subgroup are the multiples of G.
LEMMA SubgroupIsMultiples ==
  ASSUME NEW Q \in Finite, InSubgroup(Q)
  PROVE  \E q \in 1..(n - 1) : Q = Mult(q, G)
<1> DEFINE y == n * Q
           t == y \div N
<1>1. n \in Nat \ {0} /\ h \in Nat \ {0} /\ N \in Nat \ {0} /\ N = n * h /\ Q \in Int /\ y \in Int
  BY Orders DEF Finite
<1>2. t \in Int /\ y = N * t
  <2> HIDE DEF y
  <2>1. t \in Int /\ y = N * t + (y % N)
    BY <1>1, DivMod
  <2>2. y % N = 0
    BY DEF InSubgroup, INF, y
  <2> HIDE DEF t
  <2> QED BY <1>1, <2>1, <2>2
<1>3. Q = t * h
  <2> HIDE DEF t
  <2>1. n * Q = n * (t * h) /\ t * h \in Int
    BY <1>1, <1>2
  <2> DEFINE d == t * h
  <2> HIDE DEF d
  <2> QED BY <1>1, <2>1 DEF d
<1> HIDE DEF t
<1>4. t \in 1..(n - 1)
  <2>1. 1 <= Q /\ Q <= N - 1
    BY <1>1 DEF Finite
  <2>2. t > 0
    BY <1>1, <1>2, <1>3, <2>1
  <2>3. t < n
    <3> SUFFICES ASSUME t >= n PROVE FALSE
      BY <1>1, <1>2
    <3>1. t * h >= n * h
      BY <1>1, <1>2
    <3> QED BY <1>1, <1>3, <2>1, <3>1
  <2> QED BY <1>1, <1>2, <2>2, <2>3
<1>5. Mult(t, G) = t * h
  BY <1>4, MultGInRange
<1> QED BY <1>3, <1>4, <1>5

\* On a curve of cofactor 1 every point is in the subgroup.
LEMMA WholeCurve ==
  ASSUME h = 1, NEW Q \in Finite
  PROVE  InSubgroup(Q)
<1>1. n \in Nat \ {0} /\ N = n /\ Q \in Int /\ n * Q \in Int /\ n * Q = 0 + n * Q
  BY Orders DEF Finite
<1>2. (n * Q) % n = 0 % n
  <2> DEFINE y == n * Q
  <2>1. y \in Int /\ y = 0 + n * Q /\ 0 \in Int
    BY <1>1
  <2> HIDE DEF y
  <2>2. y % n = 0 % n
    BY <1>1, <2>1, ModUnique
  <2> QED BY <2>2 DEF y
<1>3. 0 % n = 0
  BY <1>1
<1> QED BY <1>1, <1>2, <1>3 DEF InSubgroup, INF

\* Different scalars make different points.
LEMMA MultGInjective ==
  ASSUME NEW q \in 1..(n - 1), NEW k \in 1..(n - 1), Mult(q, G) = Mult(k, G)
  PROVE  q = k
<1>1. q * h = k * h /\ h \in Nat \ {0} /\ q \in Int /\ k \in Int
  BY MultGInRange, Orders
<1> QED BY <1>1

\* The order is odd: no multiple of G is its own opposite.
LEMMA NotItsOpposite ==
  ASSUME NEW k \in 1..(n - 1)
  PROVE  N - Mult(k, G) # Mult(k, G)
<1>1. n \in Nat /\ n > 2 /\ h \in Nat \ {0} /\ N = n * h /\ k \in Int /\ Mult(k, G) = k * h
  BY Orders, MultGInRange
<1> SUFFICES ASSUME N - k * h = k * h PROVE FALSE
  BY <1>1
<1>2. n = 2 * k
  <2>1. n * h = (2 * k) * h
    BY <1>1
  <2> DEFINE e == 2 * k
  <2>2. e \in Int
    BY <1>1
  <2> HIDE DEF e
  <2> QED BY <1>1, <2>1, <2>2 DEF e
<1>3. PICK i \in 1..(n - 1) : (2 * i) % n = 1
  <2>1. 2 \in 1..(n - 1)
    BY <1>1
  <2> QED BY <2>1, PrimeAssumption, Zenon
<1>4. 2 * i \in Int /\ 2 * i = n * ((2 * i) \div n) + 1 /\ (2 * i) \div n \in Int
  <2> DEFINE e == 2 * i
  <2>1. e \in Int /\ e % n = 1 /\ n \in Nat \ {0}
    BY <1>1, <1>3
  <2> HIDE DEF e
  <2> QED BY <2>1, DivMod DEF e
<1> DEFINE m == (2 * i) \div n
<1>5. 2 * i = 2 * (k * m) + 1 /\ k * m \in Int /\ i \in Int
  BY <1>1, <1>2, <1>4
<1> HIDE DEF m
<1> DEFINE z == k * m
<1> HIDE DEF z
<1> QED BY <1>5 DEF z

\* What an x-coordinate lifts to is a point that has it, and the parity.
LEMMA Lifted ==
  ASSUME NEW x, NEW bit \in {0, 1}, IsXCoordinate(x)
  PROVE  /\ Lift(x, bit) \in Finite /\ XOf[Lift(x, bit)] = x
         /\ N - Lift(x, bit) = Lift(x, bit) \/ Parity(Lift(x, bit)) = bit
<1>1. PICK P \in Finite : XOf[P] = x
  BY DEF IsXCoordinate
<1>2. N \in Nat \ {0} /\ P \in Int /\ N - P \in Finite /\ N - (N - P) = P
  BY Orders DEF Finite
<1>3. XOf[N - P] = x
  BY <1>1, <1>2, CoordinatesAssumption
<1>4. N - P = P \/ Parity(P) = bit \/ Parity(N - P) = bit
  <2>1. N - P # P => (P \in OddY <=> (N - P) \notin OddY)
    BY <1>1, CoordinatesAssumption
  <2> QED BY <2>1 DEF Parity
<1>5. \E K \in Finite : XOf[K] = x /\ (N - K = K \/ Parity(K) = bit)
  BY <1>1, <1>2, <1>3, <1>4
<1> QED BY <1>5 DEF Lift

\* k is the nonce that r and s fit under q, its point what verification recomputes.
IsNonceOf(k, c, q, r, s) ==
  Fits(c, q, k, r, s) /\ NoncePoint(c, Mult(q, G), r, s) = Mult(k, G)

\* q is the key that r and s fit with the nonce k, and recovery computes it.
IsKeyOf(q, c, k, r, s) ==
  Fits(c, q, k, r, s) /\ CandidateKey(c, r, s, Mult(k, G)) = Mult(q, G)

\* Whatever r and s are, they fit one nonce, and its point is what verification
\* recomputes.
LEMMA NonceOfSignature ==
  ASSUME NEW c \in Int, NEW q \in Int, NEW r \in Int, NEW s \in 1..(n - 1)
  PROVE  \E k \in 0..(n - 1) : IsNonceOf(k, c, q, r, s)
<1> DEFINE w == ModInv(s)
           t == c + r * q
           y == w * t
           b == s * w
           k == y % n
<1>1. n \in Nat \ {0} /\ 1 % n = 1 /\ s \in Int
  BY Orders
<1>2. w \in Int /\ b % n = 1
  BY ModInvIsInverse
<1> HIDE DEF w
<1>3. t \in Int /\ y \in Int /\ b \in Int
  BY <1>1, <1>2
<1>4. s * y = b * t
  BY <1>1, <1>2, <1>3
<1>5. Cong(n, b, 1) /\ Cong(n, s, s) /\ Cong(n, t, t)
  BY <1>1, <1>2 DEF Cong
<1> HIDE DEF t, y, b
<1>6. k \in 0..(n - 1) /\ k \in Int /\ Cong(n, k, y)
  BY <1>1, <1>3, CongMod, ModRange
<1> HIDE DEF k
<1>7. Cong(n, k * s, y * s)
  BY <1>1, <1>3, <1>5, <1>6, CongMul
<1>8. Cong(n, b * t, 1 * t) /\ 1 * t = t /\ y * s = s * y
  BY <1>1, <1>3, <1>5, CongMul
<1>9. Fits(c, q, k, r, s)
  BY <1>4, <1>7, <1>8 DEF Fits, Cong, t
<1>10. NoncePoint(c, Mult(q, G), r, s) = Mult(k, G)
  BY <1>6, <1>9, VerifiedNonce
<1> QED BY <1>6, <1>9, <1>10 DEF IsNonceOf

\* And they fit one key for any nonce.
LEMMA KeyOfNonce ==
  ASSUME NEW c \in Int, NEW k \in Int, NEW r \in 1..(n - 1), NEW s \in Int
  PROVE  \E q \in 0..(n - 1) : IsKeyOf(q, c, k, r, s)
<1> DEFINE w == ModInv(r)
           t == k * s - c
           y == w * t
           b == r * w
           q == y % n
<1>1. n \in Nat \ {0} /\ 1 % n = 1 /\ r \in Int
  BY Orders
<1>2. w \in Int /\ b % n = 1
  BY ModInvIsInverse
<1> HIDE DEF w
<1>3. t \in Int /\ y \in Int /\ b \in Int
  BY <1>1, <1>2
<1>4. r * y = b * t /\ c + t = k * s
  BY <1>1, <1>2, <1>3
<1>5. Cong(n, b, 1) /\ Cong(n, r, r) /\ Cong(n, t, t) /\ Cong(n, c, c)
  BY <1>1, <1>2 DEF Cong
<1> HIDE DEF t, y, b
<1>6. q \in 0..(n - 1) /\ q \in Int /\ Cong(n, q, y)
  BY <1>1, <1>3, CongMod, ModRange
<1> HIDE DEF q
<1>7. Cong(n, r * q, r * y)
  BY <1>1, <1>3, <1>5, <1>6, CongMul
<1>8. Cong(n, b * t, 1 * t) /\ 1 * t = t
  BY <1>1, <1>3, <1>5, CongMul
<1>9. Cong(n, r * q, t) /\ r * q \in Int
  BY <1>1, <1>4, <1>6, <1>7, <1>8 DEF Cong
<1>10. Cong(n, c + r * q, c + t)
  BY <1>1, <1>3, <1>5, <1>9, CongAdd
<1>11. Fits(c, q, k, r, s)
  BY <1>4, <1>10 DEF Fits
<1>12. CandidateKey(c, r, s, Mult(k, G)) = Mult(q, G)
  BY <1>6, <1>11, RecoveredKey
<1> QED BY <1>6, <1>11, <1>12 DEF IsKeyOf

\* A point of the subgroup is the nonce of one key that r and s fit.
LEMMA KeyOfPoint ==
  ASSUME NEW c \in Int, NEW r \in 1..(n - 1), NEW s \in Int,
         NEW K \in Finite, h = 1 \/ InSubgroup(K)
  PROVE  \E k \in 1..(n - 1), q \in 0..(n - 1) :
           K = Mult(k, G) /\ Fits(c, q, k, r, s) /\ CandidateKey(c, r, s, K) = Mult(q, G)
<1>1. PICK k \in 1..(n - 1) : K = Mult(k, G)
  BY WholeCurve, SubgroupIsMultiples
<1>2. PICK q \in 0..(n - 1) : IsKeyOf(q, c, k, r, s)
  <2>1. k \in Int
    OBVIOUS
  <2> QED BY <2>1, KeyOfNonce
<1>3. Fits(c, q, k, r, s) /\ CandidateKey(c, r, s, K) = Mult(q, G)
  BY <1>1, <1>2 DEF IsKeyOf
<1> QED BY <1>1, <1>3

\* One nonce fits a key, r and s.
LEMMA OneNonceFits ==
  ASSUME NEW c \in Int, NEW q \in Int, NEW r \in Int, NEW s \in 1..(n - 1),
         NEW k \in 0..(n - 1), NEW m \in 0..(n - 1),
         Fits(c, q, k, r, s), Fits(c, q, m, r, s)
  PROVE  k = m
<1> DEFINE w == ModInv(s)
           b == s * w
<1>1. n \in Nat \ {0} /\ 1 % n = 1 /\ s \in Int /\ k \in Int /\ m \in Int
  BY Orders
<1>2. w \in Int /\ b % n = 1
  BY ModInvIsInverse
<1> HIDE DEF w
<1>3. b \in Int /\ k * s \in Int /\ m * s \in Int
  BY <1>1, <1>2
<1>4. (k * s) * w = k * b /\ (m * s) * w = m * b
  BY <1>1, <1>2
<1>5. Cong(n, b, 1) /\ Cong(n, w, w) /\ Cong(n, k, k) /\ Cong(n, m, m)
  BY <1>1, <1>2 DEF Cong
<1>6. Cong(n, k * s, m * s)
  BY DEF Fits, Cong
<1> HIDE DEF b
<1>7. Cong(n, (k * s) * w, (m * s) * w)
  BY <1>1, <1>2, <1>3, <1>5, <1>6, CongMul
<1>8. Cong(n, k * b, k * 1) /\ Cong(n, m * b, m * 1) /\ k * 1 = k /\ m * 1 = m
  BY <1>1, <1>3, <1>5, CongMul
<1>9. k % n = m % n
  BY <1>4, <1>7, <1>8 DEF Cong
<1>10. k % n = k /\ m % n = m
  BY <1>1
<1> QED BY <1>9, <1>10

\* What recovery asks of a key_id, and what it answers: a key whose signature
\* has a nonce of the x-coordinate and the parity the key_id names.
LEMMA RecoveredFits ==
  ASSUME NEW c \in Int, NEW r \in 1..(n - 1), NEW s \in 1..(n - 1), NEW i \in Int,
         RecoverPubKey(i, c, r, s) # INF
  PROVE  \E q \in 1..(n - 1), k \in 1..(n - 1) :
           /\ RecoverPubKey(i, c, r, s) = Mult(q, G)
           /\ Fits(c, q, k, r, s) /\ RawR(k) = r
           /\ XOf[Mult(k, G)] = CandidateX(i, r)
           /\ Parity(Mult(k, G)) = i % 2
<1> DEFINE x == CandidateX(i, r)
           bit == i % 2
           K == Lift(x, bit)
           Q == CandidateKey(c, r, s, K)
<1>1. /\ x \in 0..(p - 1) /\ IsXCoordinate(x)
      /\ h = 1 \/ InSubgroup(K)
      /\ Q # INF /\ RecoverPubKey(i, c, r, s) = Q
      /\ h = 1 \/ AssertAsValid_(c, Q, r, s)
  BY DEF RecoverPubKey
<1>2. bit \in {0, 1} /\ i = 2 * (i \div 2) + bit /\ i \div 2 \in Int
  OBVIOUS
<1> HIDE DEF bit, x
<1>3. K \in Finite /\ XOf[K] = x /\ (N - K = K \/ Parity(K) = bit)
  <2>1. bit \in {0, 1} /\ IsXCoordinate(x)
    BY <1>1, <1>2
  <2> QED BY <2>1, Lifted, Zenon
<1>4. n \in Nat \ {0} /\ n > 2 /\ r \in Int /\ s \in Int /\ r % n = r
  BY Orders
<1> HIDE DEF K, Q
<1>5. PICK k \in 1..(n - 1), q \in 0..(n - 1) :
        /\ K = Mult(k, G) /\ Fits(c, q, k, r, s)
        /\ CandidateKey(c, r, s, K) = Mult(q, G)
  BY <1>1, <1>3, <1>4, KeyOfPoint
<1>6. k \in Int
  OBVIOUS
<1>7. Fits(c, q, k, r, s) /\ CandidateKey(c, r, s, Mult(k, G)) = Mult(q, G)
  BY <1>5
<1>8. Q = Mult(q, G)
  BY <1>5, <1>7 DEF Q
<1>9. q \in 1..(n - 1)
  <2>1. q # 0
    <3> SUFFICES ASSUME q = 0 PROVE FALSE
      OBVIOUS
    <3>1. 0 % n = 0 /\ 0 \in Int
      BY <1>4
    <3>2. Mult(0, G) = INF
      BY <3>1, MultG
    <3> QED BY <1>1, <1>8, <3>2
  <2> QED BY <1>4, <2>1
<1>10. Parity(K) = bit
  BY <1>3, <1>5, NotItsOpposite
<1>11. x % n = r
  <2>1. CASE h = 1
    <3> DEFINE e == i \div 2
    <3>1. x = r + e * n /\ e \in Int
      BY <1>2, <2>1 DEF CandidateX, x
    <3> HIDE DEF e
    <3>2. x = r + n * e /\ x \in Int
      BY <1>4, <3>1
    <3>3. x % n = r % n
      BY <1>4, <3>1, <3>2, ModUnique
    <3> QED BY <1>4, <3>3
  <2>2. CASE h # 1
    <3>1. AssertAsValid_(c, Q, r, s)
      BY <1>1, <2>2
    <3>2. q \in Int
      BY <1>9
    <3>3. NoncePoint(c, Mult(q, G), r, s) = Mult(k, G)
      BY <1>4, <1>6, <1>7, <3>2, VerifiedNonce
    <3> QED BY <1>3, <1>5, <1>8, <3>1, <3>3 DEF AssertAsValid_
  <2> QED BY <2>1, <2>2
<1>12. RawR(k) = r
  BY <1>3, <1>5, <1>11 DEF RawR
<1>13. /\ RecoverPubKey(i, c, r, s) = Mult(q, G) /\ Fits(c, q, k, r, s)
       /\ XOf[Mult(k, G)] = x /\ Parity(Mult(k, G)) = bit
  BY <1>1, <1>3, <1>5, <1>7, <1>8, <1>10
<1> QED BY <1>9, <1>12, <1>13 DEF x, bit

\* The multiples of G are public keys.
LEMMA MultGIsPubKey ==
  ASSUME NEW q \in 1..(n - 1)
  PROVE  Mult(q, G) \in PubKey
<1>1. Mult(q, G) \in Finite /\ Mult(q, G) = q * h
  BY MultGInRange
<1>2. InSubgroup(Mult(q, G))
  <2> DEFINE y == n * (q * h)
             o == N
  <2>1. y \in Int /\ o \in Nat \ {0} /\ q \in Int /\ 0 \in Int /\ y = 0 + o * q
    BY Orders
  <2> HIDE DEF y, o
  <2>2. y % o = 0 % o
    BY <2>1, ModUnique
  <2>3. 0 % o = 0
    BY <2>1
  <2> QED BY <1>1, <2>2, <2>3 DEF InSubgroup, INF, y, o
<1> QED BY <1>1, <1>2 DEF PubKey

\* So what is recovered is a public key, and the signature verifies under it.
LEMMA RecoveredVerifies ==
  ASSUME NEW c \in Int, NEW r \in 1..(n - 1), NEW s \in 1..(n - 1), NEW i \in Int,
         RecoverPubKey(i, c, r, s) # INF
  PROVE  /\ RecoverPubKey(i, c, r, s) \in PubKey
         /\ Verify_(c, RecoverPubKey(i, c, r, s), r, s)
<1>1. PICK q \in 1..(n - 1), k \in 1..(n - 1) :
        /\ RecoverPubKey(i, c, r, s) = Mult(q, G)
        /\ Fits(c, q, k, r, s) /\ RawR(k) = r
  BY RecoveredFits
<1>2. r # 0 /\ q \in Int
  BY Orders
<1>3. Verify_(c, Mult(q, G), r, s)
  BY <1>1, <1>2, FittingVerifies
<1>4. Mult(q, G) \in PubKey
  BY MultGIsPubKey
<1> QED BY <1>1, <1>3, <1>4

\* n comes off an x-coordinate at most h times.
LEMMA LostAtMost ==
  ASSUME NEW K \in Finite
  PROVE  XOf[K] \div n \in 0..h
<1> DEFINE X == XOf[K]
           d == X \div n
<1>1. /\ n \in Nat \ {0} /\ h \in Nat \ {0} /\ p \in Nat \ {0}
      /\ X \in 0..(p - 1) /\ d \in Nat /\ X % n \in 0..(n - 1) /\ X = (X % n) + d * n
  BY Orders, XRange
<1> DEFINE z == X % n
<1> HIDE DEF X, d, z
<1>2. SUFFICES ASSUME d > h PROVE FALSE
  BY <1>1 DEF X, d
<1>3. z \in 0..(n - 1) /\ X = z + d * n
  BY <1>1 DEF z
<1>4. d * n >= (h + 1) * n /\ (h + 1) * n = n * (h + 1)
  BY <1>1, <1>2
<1>5. p <= n * (h + 1)
  BY RecoveryAssumption
<1> DEFINE u == d * n
           v == n * (h + 1)
<1>6. u \in Int /\ v \in Int /\ u >= v /\ X = z + u /\ p <= v
  BY <1>1, <1>3, <1>4, <1>5
<1> HIDE DEF u, v
<1> QED BY <1>1, <1>3, <1>6

\* A key under which a signature verifies is recovered by one of the key_ids.
LEMMA VerifiedRecovers ==
  ASSUME NEW c \in Int, NEW r \in 1..(n - 1), NEW s \in 1..(n - 1), NEW Q \in PubKey,
         AssertAsValid_(c, Q, r, s)
  PROVE  \E i \in 0..(2 * h + 1) : RecoverPubKey(i, c, r, s) = Q
<1>1. PICK q \in 1..(n - 1) : Q = Mult(q, G)
  BY SubgroupIsMultiples DEF PubKey
<1>2. q \in Int /\ r \in Int /\ n \in Nat \ {0} /\ n > 2 /\ h \in Nat
  BY Orders
<1>3. PICK k \in 0..(n - 1) : IsNonceOf(k, c, q, r, s)
  BY <1>2, NonceOfSignature
<1> DEFINE K == Mult(k, G)
<1>4. K # INF /\ XOf[K] % n = r
  BY <1>1, <1>3 DEF AssertAsValid_, IsNonceOf
<1>5. k \in 1..(n - 1)
  <2>1. k # 0
    <3> SUFFICES ASSUME k = 0 PROVE FALSE
      OBVIOUS
    <3>1. 0 % n = 0 /\ 0 \in Int
      BY <1>2
    <3>2. Mult(0, G) = INF
      BY <3>1, MultG
    <3> QED BY <1>4, <3>2
  <2> QED BY <1>2, <2>1
<1>6. RawR(k) = r /\ r # 0
  BY <1>2, <1>4 DEF RawR
<1>7. K \in Finite
  BY <1>5, MultGInRange
<1> DEFINE d == XOf[K] \div n
           i == 2 * d + Parity(K)
<1>8. d \in 0..h
  BY <1>7, LostAtMost
<1>9. Parity(K) \in {0, 1}
  BY DEF Parity
<1>10. RecoverPubKey(i, c, r, s) = Mult(q, G)
  BY <1>3, <1>5, <1>6, <1>9, FittingRecovers DEF IsNonceOf
<1>11. i \in 0..(2 * h + 1)
  <2> HIDE DEF d, K
  <2> QED BY <1>2, <1>8, <1>9
<1> QED BY <1>1, <1>10, <1>11

\* What leaves no remainder is a multiple.
LEMMA NoRemainder ==
  ASSUME NEW m \in Nat \ {0}, NEW x \in Int, x % m = 0
  PROVE  \E q \in Int : x = m * q
<1>1. x \div m \in Int /\ x = m * (x \div m) + (x % m)
  BY DivMod
<1>2. PICK q \in Int : x = m * q + 0
  BY <1>1
<1>3. PICK w \in Int : w = m * q
  OBVIOUS
<1> QED BY <1>2, <1>3

LEMMA FieldOrder == p \in Nat \ {0}
<1>1. 1 \in 1..(n - 1)
  BY Orders
<1> QED BY <1>1, Orders, MultGInRange, XRange

\* Where x is reduced modulo p, two candidates of one r have their j a multiple
\* of p apart.
LEMMA SameCandidate ==
  ASSUME h # 1, NEW r \in Int, NEW d \in Int, NEW e \in Int,
         (r + d * n) % p = (r + e * n) % p
  PROVE  (d - e) % p = 0
<1>1. p \in Nat \ {0} /\ n \in Nat \ {0} /\ h \in Nat \ {0}
  BY Orders, FieldOrder
<1> DEFINE u == r + d * n
           v == r + e * n
           w == (d - e) * n
<1>2. u \in Int /\ v \in Int /\ w \in Int /\ u + -v = w
  BY <1>1
<1>3. u % p = v % p
  OBVIOUS
<1> HIDE DEF u, v, w
<1>4. Cong(p, u, v) /\ Cong(p, -v, -v)
  BY <1>3 DEF Cong
<1>5. -v \in Int /\ v + -v = 0
  BY <1>2
<1>6. Cong(p, u + -v, v + -v)
  BY <1>1, <1>2, <1>4, <1>5, CongAdd
<1>7. w % p = 0 % p
  BY <1>2, <1>5, <1>6 DEF Cong
<1>8. PICK f \in Int : f = d - e
  OBVIOUS
<1>9. ((f % p) * n) % p = 0
  <2>1. p \in Nat \ {0} /\ n \in Int /\ f \in Int
    BY <1>1
  <2>3. ((f % p) * n) % p = (f * n) % p
    BY <2>1, ModMul, Zenon
  <2>2. (f * n) % p = 0
    BY <1>1, <1>7, <1>8 DEF w
  <2> QED BY <2>2, <2>3
<1>10. f % p \in 0..(p - 1)
  BY <1>1, ModRange
<1>11. h > 1
  BY <1>1
<1>12. f % p \notin 1..(p - 1)
  BY <1>9, <1>11, RecoveryAssumption
<1> QED BY <1>1, <1>8, <1>10, <1>12

\* Two key_ids that recover one key have one parity and one candidate.
LEMMA SameKey ==
  ASSUME NEW c \in Int, NEW r \in 1..(n - 1), NEW s \in 1..(n - 1),
         NEW i \in Int, NEW j \in Int,
         RecoverPubKey(i, c, r, s) # INF,
         RecoverPubKey(j, c, r, s) = RecoverPubKey(i, c, r, s)
  PROVE  CandidateX(i, r) = CandidateX(j, r) /\ i % 2 = j % 2
<1>1. n \in Nat \ {0} /\ r \in Int
  BY Orders
<1>2. PICK q \in 1..(n - 1), k \in 1..(n - 1) :
        /\ RecoverPubKey(i, c, r, s) = Mult(q, G)
        /\ Fits(c, q, k, r, s)
        /\ XOf[Mult(k, G)] = CandidateX(i, r)
        /\ Parity(Mult(k, G)) = i % 2
  BY RecoveredFits
<1>3. PICK t \in 1..(n - 1), m \in 1..(n - 1) :
        /\ RecoverPubKey(j, c, r, s) = Mult(t, G)
        /\ Fits(c, t, m, r, s)
        /\ XOf[Mult(m, G)] = CandidateX(j, r)
        /\ Parity(Mult(m, G)) = j % 2
  BY RecoveredFits
<1>4. q = t
  BY <1>2, <1>3, MultGInjective
<1>5. k = m
  <2>1. q \in Int /\ k \in 0..(n - 1) /\ m \in 0..(n - 1)
    BY <1>1
  <2>2. Fits(c, q, k, r, s) /\ Fits(c, q, m, r, s)
    BY <1>2, <1>3, <1>4
  <2> QED BY <1>1, <2>1, <2>2, OneNonceFits
<1> QED BY <1>2, <1>3, <1>5

\* What key_ids that recover one key are to each other: the same, or, where x is
\* reduced modulo p, a multiple of 2*p apart.
Wrapped(i, j) == IF h = 1 THEN i = j ELSE (i - j) % (2 * p) = 0

LEMMA SameKeyWrapped ==
  ASSUME NEW c \in Int, NEW r \in 1..(n - 1), NEW s \in 1..(n - 1),
         NEW i \in Int, NEW j \in Int,
         RecoverPubKey(j, c, r, s) # INF,
         RecoverPubKey(i, c, r, s) = RecoverPubKey(j, c, r, s)
  PROVE  Wrapped(i, j)
<1>1. p \in Nat \ {0} /\ n \in Nat \ {0} /\ h \in Nat \ {0} /\ r \in Int
  BY Orders, FieldOrder
<1>2. CandidateX(i, r) = CandidateX(j, r) /\ i % 2 = j % 2
  BY SameKey
<1> DEFINE d == i \div 2
           e == j \div 2
<1>3. d \in Int /\ e \in Int /\ i = 2 * d + (i % 2) /\ j = 2 * e + (j % 2)
  OBVIOUS
<1>4. i - j = 2 * (d - e)
  BY <1>2, <1>3
<1> HIDE DEF d, e
<1>5. CASE h = 1
  <2>1. r + d * n = r + e * n
    BY <1>2, <1>5 DEF CandidateX, d, e
  <2>2. d * n = e * n
    BY <1>1, <1>3, <2>1
  <2>3. d = e
    BY <1>1, <1>3, <2>2
  <2> QED BY <1>4, <1>3, <1>5, <2>3 DEF Wrapped
<1>6. CASE h # 1
  <2>1. (r + d * n) % p = (r + e * n) % p
    BY <1>2, <1>6 DEF CandidateX, d, e
  <2>2. (d - e) % p = 0
    BY <1>1, <1>3, <1>6, <2>1, SameCandidate
  <2>3. PICK f \in Int : f = d - e
    BY <1>3
  <2>4. f % p = 0
    BY <2>2, <2>3
  <2>5. PICK q \in Int : f = p * q
    BY <1>1, <2>4, NoRemainder
  <2>6. i - j = 0 + (2 * p) * q /\ 2 * p \in Nat \ {0} /\ i - j \in Int
    BY <1>1, <1>4, <2>3, <2>5
  <2>7. (i - j) % (2 * p) = 0 % (2 * p)
    BY <2>6, ModUnique
  <2>8. 0 % (2 * p) = 0
    BY <2>6
  <2> QED BY <1>6, <2>7, <2>8 DEF Wrapped
<1> QED BY <1>5, <1>6

\* The converse: such key_ids recover the same.
LEMMA WrappedSameKey ==
  ASSUME NEW c, NEW r \in 1..(n - 1), NEW s, NEW i \in Int, NEW j \in Int, Wrapped(i, j)
  PROVE  RecoverPubKey(i, c, r, s) = RecoverPubKey(j, c, r, s)
<1>1. p \in Nat \ {0} /\ n \in Nat \ {0} /\ h \in Nat \ {0} /\ r \in Int
  BY Orders, FieldOrder
<1>2. CASE h = 1
  BY <1>2 DEF Wrapped
<1>3. CASE h # 1
  <2>1. (i - j) % (2 * p) = 0 /\ 2 * p \in Nat \ {0} /\ i - j \in Int
    BY <1>1, <1>3 DEF Wrapped
  <2>2. PICK q \in Int : i - j = (2 * p) * q
    <3>1. PICK m \in Nat \ {0}, x \in Int : m = 2 * p /\ x = i - j
      BY <2>1
    <3>2. x % m = 0
      BY <2>1, <3>1
    <3>3. PICK q \in Int : x = m * q
      BY <3>2, NoRemainder
    <3> QED BY <3>1, <3>3
  <2>3. PICK e \in Int : e = j \div 2 /\ j = 2 * e + (j % 2)
    OBVIOUS
  <2>4. PICK bit \in {0, 1} : bit = j % 2
    OBVIOUS
  <2>5. PICK t \in Int : t = p * q
    BY <1>1
  <2>6. PICK u \in Int : u = e + t /\ i = 2 * u + bit
    BY <1>1, <2>2, <2>3, <2>4, <2>5
  <2>7. i \div 2 = e + t /\ i % 2 = j % 2
    <3>1. i \div 2 = u /\ i % 2 = bit
      BY <2>6
    <3> QED BY <2>4, <2>6, <3>1
  <2>8. CandidateX(i, r) = CandidateX(j, r)
    <3>1. r + (e + t) * n = (r + e * n) + p * (q * n)
      BY <1>1, <2>5
    <3>2. r + (e + t) * n \in Int /\ r + e * n \in Int /\ q * n \in Int
      BY <1>1
    <3>3. (r + (e + t) * n) % p = (r + e * n) % p
      BY <1>1, <3>1, <3>2, ModUnique
    <3> QED BY <1>3, <2>3, <2>7, <3>3 DEF CandidateX
  <2> QED BY <2>7, <2>8 DEF RecoverPubKey
<1> QED BY <1>2, <1>3

\* In the range that is listed a key is recovered by one key_id only.
LEMMA SameKeySameId ==
  ASSUME NEW c \in Int, NEW r \in 1..(n - 1), NEW s \in 1..(n - 1),
         NEW i \in 0..(2 * h + 1), NEW j \in 0..(2 * h + 1),
         RecoverPubKey(i, c, r, s) # INF,
         RecoverPubKey(j, c, r, s) = RecoverPubKey(i, c, r, s)
  PROVE  i = j
<1>1. p \in Nat \ {0} /\ h \in Nat \ {0} /\ i \in Int /\ j \in Int
  BY Orders, FieldOrder
<1>2. Wrapped(j, i)
  BY <1>1, SameKeyWrapped
<1>3. CASE h = 1
  BY <1>2, <1>3 DEF Wrapped
<1>4. CASE h # 1
  <2>1. h + 1 < p
    BY <1>1, <1>4, RecoveryAssumption
  <2>2. PICK m \in Nat \ {0} : m = 2 * p
    BY <1>1
  <2>3. j - i \in (-(m - 1))..(m - 1)
    BY <1>1, <2>1, <2>2
  <2>4. (j - i) % m = 0
    BY <1>2, <1>4, <2>2 DEF Wrapped
  <2>5. PICK q \in Int : j - i = m * q
    <3>1. PICK x \in Int : x = j - i
      BY <1>1
    <3>2. x % m = 0
      BY <2>4, <3>1
    <3> QED BY <3>1, <3>2, NoRemainder
  <2>6. q = 0
    <3> SUFFICES ASSUME q # 0 PROVE FALSE
      OBVIOUS
    <3>1. m * q >= m \/ m * q <= -m
      BY MulPos
    <3> QED BY <2>3, <2>5, <3>1
  <2> QED BY <1>1, <2>5, <2>6
<1> QED BY <1>3, <1>4

-----------------------------------------------------------------------------
(* The list of recovered keys                                              *)

\* The keys recovered by the key_ids below i.
RecoveredBelow(i, c, r, s) ==
  {Q \in PubKey : \E j \in 0..(i - 1) : RecoverPubKey(j, c, r, s) = Q}

\* keys lists the members of S, each of them once.
ListsOnce(keys, S) ==
  /\ keys \in Seq(PubKey)
  /\ {keys[i] : i \in DOMAIN keys} = S
  /\ \A i, j \in DOMAIN keys : keys[i] = keys[j] => i = j

\* A list goes on with something new.
LEMMA AppendOnce ==
  ASSUME NEW keys, NEW S, ListsOnce(keys, S), NEW Q \in PubKey, Q \notin S
  PROVE  ListsOnce(Append(keys, Q), S \cup {Q})
<1> DEFINE more == Append(keys, Q)
           m == Len(keys)
<1>1. keys \in Seq(PubKey) /\ m \in Nat /\ DOMAIN keys = 1..m
  BY DEF ListsOnce
<1>2. /\ more \in Seq(PubKey) /\ DOMAIN more = 1..(m + 1)
      /\ more[m + 1] = Q /\ \A i \in 1..m : more[i] = keys[i]
  BY <1>1
<1>3. \A i \in 1..m : keys[i] \in S
  BY <1>1 DEF ListsOnce
<1>4. \A e \in S : \E i \in 1..m : keys[i] = e
  BY <1>1 DEF ListsOnce
<1>5. \A i, j \in 1..m : keys[i] = keys[j] => i = j
  BY <1>1 DEF ListsOnce
<1>6. \A i \in 1..(m + 1) : i \in 1..m \/ i = m + 1
  BY <1>1
<1>7. \A i \in 1..m : i \in 1..(m + 1)
  BY <1>1
<1>8. m + 1 \in 1..(m + 1)
  BY <1>1
<1> HIDE DEF more, m
<1>9. {more[i] : i \in DOMAIN more} = S \cup {Q}
  <2>1. ASSUME NEW i \in 1..(m + 1) PROVE more[i] \in S \cup {Q}
    BY <1>2, <1>3, <1>6
  <2>2. ASSUME NEW e \in S \cup {Q} PROVE \E i \in 1..(m + 1) : more[i] = e
    BY <1>2, <1>4, <1>7, <1>8
  <2> QED BY <1>2, <2>1, <2>2
<1>10. \A i, j \in 1..(m + 1) : more[i] = more[j] => i = j
  BY <1>2, <1>3, <1>5, <1>6
<1> QED BY <1>2, <1>9, <1>10 DEF ListsOnce, more

\* What recover_pub_keys_ lists: whatever its key_ids recover, once each.
LEMMA RecoveredList ==
  ASSUME NEW c \in Int, NEW r \in 1..(n - 1), NEW s \in 1..(n - 1)
  PROVE  ListsOnce(RecoverPubKeys(c, r, s), RecoveredBelow(2 * (h + 1), c, r, s))
<1> DEFINE m == 2 * (h + 1)
           R(i) == RecoverPubKey(i, c, r, s)
           F == [x \in Seq(PubKey) \X (1..m) |->
                   IF R(x[2] - 1) = INF THEN x[1] ELSE Append(x[1], R(x[2] - 1))]
           step(y, i) == IF R(i - 1) = INF THEN y ELSE Append(y, R(i - 1))
<1>1. m \in Nat /\ h \in Nat
  BY Orders
<1>2. \A i \in Int : R(i) # INF => R(i) \in PubKey
  BY RecoveredVerifies
<1>3. \A i \in 0..(m - 1), j \in 0..(m - 1) : R(i) # INF /\ R(i) = R(j) => i = j
  <2>1. ASSUME NEW i \in 0..(m - 1), NEW j \in 0..(m - 1), R(i) # INF, R(i) = R(j)
        PROVE  i = j
    <3>1. i \in 0..(2 * h + 1) /\ j \in 0..(2 * h + 1)
      BY <1>1
    <3> QED BY <2>1, <3>1, SameKeySameId
  <2> QED BY <2>1
<1> HIDE DEF R
<1>4. F \in [Seq(PubKey) \X (1..m) -> Seq(PubKey)]
  <2>1. ASSUME NEW y \in Seq(PubKey), NEW i \in 1..m
        PROVE  step(y, i) \in Seq(PubKey)
    <3>1. i - 1 \in Int
      BY <1>1
    <3> QED BY <1>2, <3>1
  <2> QED BY <2>1
<1>5. \A y \in Seq(PubKey), i \in 1..m : F[<<y, i>>] = step(y, i)
  OBVIOUS
<1> HIDE DEF F, m
<1>6. PICK g : Iterates(g, Seq(PubKey), << >>, F, m)
  <2>1. << >> \in Seq(PubKey)
    OBVIOUS
  <2> QED BY <1>1, <1>4, <2>1, BoundedRecursionExists
<1>7. /\ g \in [0..m -> Seq(PubKey)] /\ g[0] = << >>
      /\ \A i \in 1..m : g[i] = step(g[i - 1], i)
  <2>1. g \in [0..m -> Seq(PubKey)] /\ g[0] = << >> /\ \A i \in 1..m : g[i] = F[<<g[i - 1], i>>]
    BY <1>6 DEF Iterates
  <2>2. \A i \in 1..m : g[i - 1] \in Seq(PubKey)
    BY <1>1, <2>1
  <2> QED BY <1>5, <2>1, <2>2
<1> DEFINE upTo == [i \in 0..m |-> IF i = 0 THEN << >> ELSE step(g[i - 1], i)]
<1>8. g = upTo
  <2>1. \A i \in 0..m : i = 0 \/ i \in 1..m
    BY <1>1
  <2>2. \A i \in 0..m : g[i] = IF i = 0 THEN << >> ELSE step(g[i - 1], i)
    BY <1>7, <2>1
  <2>3. g = [i \in 0..m |-> g[i]]
    BY <1>7
  <2> QED BY <2>2, <2>3
<1> DEFINE H == CHOOSE f : f = [i \in 0..m |-> IF i = 0 THEN << >> ELSE step(f[i - 1], i)]
<1>9. RecoverPubKeys(c, r, s) = H[m]
  BY DEF RecoverPubKeys, m, R
<1>10. H = [i \in 0..m |-> IF i = 0 THEN << >> ELSE step(H[i - 1], i)]
  BY <1>8
<1> HIDE DEF H
<1>11. H[0] = << >> /\ \A i \in 1..m : H[i] = step(H[i - 1], i)
  <2>1. 0 \in 0..m /\ \A i \in 1..m : i \in 0..m /\ i # 0
    BY <1>1
  <2> QED BY <1>10, <2>1
<1> DEFINE good(i) == ListsOnce(H[i], RecoveredBelow(i, c, r, s))
           X == {i \in 0..m : good(i)}
           f == [i \in 0..m |-> i]
<1>12. good(0)
  BY <1>11 DEF ListsOnce, RecoveredBelow
<1>13. ASSUME NEW i \in 1..m, good(i - 1)
       PROVE  good(i)
  <2>1. i \in Nat /\ i - 1 \in 0..(m - 1) /\ i - 1 \in Int
    BY <1>1
  <2>2. \A j \in 0..(i - 1) : j = i - 1 \/ j \in 0..((i - 1) - 1)
    BY <2>1
  <2>3. \A j \in 0..((i - 1) - 1) : j \in 0..(i - 1) /\ j \in 0..(m - 1) /\ j # i - 1
    BY <1>1, <2>1
  <2>4. i - 1 \in 0..(i - 1)
    BY <2>1
  <2>5. CASE R(i - 1) = INF
    <3>1. H[i] = H[i - 1]
      BY <1>11, <2>5
    <3>2. INF \notin PubKey
      BY DEF PubKey, Finite, INF
    <3>3. RecoveredBelow(i, c, r, s) = RecoveredBelow(i - 1, c, r, s)
      BY <2>2, <2>3, <2>5, <3>2 DEF RecoveredBelow, R
    <3> QED BY <1>13, <3>1, <3>3
  <2>6. CASE R(i - 1) # INF
    <3>1. H[i] = Append(H[i - 1], R(i - 1))
      BY <1>11, <2>6
    <3>2. R(i - 1) \in PubKey
      BY <1>2, <2>1, <2>6
    <3>3. R(i - 1) \notin RecoveredBelow(i - 1, c, r, s)
      BY <1>3, <2>1, <2>3, <2>6 DEF RecoveredBelow, R
    <3>4. RecoveredBelow(i, c, r, s) = RecoveredBelow(i - 1, c, r, s) \cup {R(i - 1)}
      BY <2>2, <2>3, <2>4, <3>2 DEF RecoveredBelow, R
    <3>5. ListsOnce(Append(H[i - 1], R(i - 1)), RecoveredBelow(i - 1, c, r, s) \cup {R(i - 1)})
      BY <1>13, <3>2, <3>3, AppendOnce
    <3> QED BY <3>1, <3>4, <3>5
  <2> QED BY <2>5, <2>6
<1>14. f[0] \in X /\ \A i \in 1..m : f[i - 1] \in X => f[i] \in X
  <2>1. 0 \in 0..m /\ \A i \in 1..m : i \in 0..m /\ i - 1 \in 0..m
    BY <1>1
  <2>2. 0 \in X
    BY <1>12, <2>1
  <2>3. \A i \in 1..m : i - 1 \in X => i \in X
    BY <1>13, <2>1
  <2> HIDE DEF X
  <2> QED BY <2>1, <2>2, <2>3
<1>15. \A i \in 0..m : f[i] \in X
  <2> HIDE DEF f, X
  <2> QED BY <1>1, <1>14, LoopInvariant
<1>16. m \in 0..m
  BY <1>1
<1>17. good(m)
  <2>1. f[m] \in X /\ f[m] = m
    BY <1>15, <1>16
  <2> QED BY <2>1
<1> QED BY <1>9, <1>17 DEF m

\* A key is recovered by some key_id in range if and only if the signature
\* verifies under it.
LEMMA RecoveredAreVerifiers ==
  ASSUME NEW c \in Int, NEW r \in 1..(n - 1), NEW s \in 1..(n - 1)
  PROVE  RecoveredBelow(2 * (h + 1), c, r, s) = {Q \in PubKey : Verify_(c, Q, r, s)}
<1>1. h \in Nat /\ 2 * (h + 1) - 1 = 2 * h + 1
  BY Orders
<1>2. ASSUME NEW Q \in PubKey, NEW j \in 0..(2 * h + 1), RecoverPubKey(j, c, r, s) = Q
      PROVE  Verify_(c, Q, r, s)
  <2>1. Q # INF /\ j \in Int
    BY DEF PubKey, Finite, INF
  <2> QED BY <1>2, <2>1, RecoveredVerifies
<1>3. ASSUME NEW Q \in PubKey, Verify_(c, Q, r, s)
      PROVE  \E j \in 0..(2 * h + 1) : RecoverPubKey(j, c, r, s) = Q
  BY <1>3, VerifiedRecovers DEF Verify_
<1> QED BY <1>1, <1>2, <1>3 DEF RecoveredBelow

\* recover_pub_keys_ lists exactly the public keys verify_ accepts the
\* signature under, each of them once, whatever r and s are.
THEOREM ListsAreVerifiers == Spec => []RecoveryListsVerifiers
<1>1. SigningInv => RecoveryListsVerifiers
  <2> SUFFICES ASSUME SigningInv, IsSig(sig.r, sig.s)
               PROVE  LET keys == RecoverPubKeys(call.c, sig.r, sig.s)
                      IN  /\ {keys[i] : i \in DOMAIN keys}
                               = {Q \in PubKey : Verify_(call.c, Q, sig.r, sig.s)}
                          /\ \A i, j \in DOMAIN keys : keys[i] = keys[j] => i = j
    BY DEF RecoveryListsVerifiers
  <2>1. sig.r \in 1..(n - 1) /\ sig.s \in 1..(n - 1)
    BY DEF IsSig
  <2>2. call \in Requests
    BY DEF SigningInv, TypeOK
  <2>3. call.c \in Int
    BY <2>2, RequestFacts, Orders DEF Scalar
  <2> DEFINE keys == RecoverPubKeys(call.c, sig.r, sig.s)
             S == RecoveredBelow(2 * (h + 1), call.c, sig.r, sig.s)
  <2>4. ListsOnce(keys, S)
    BY <2>1, <2>3, RecoveredList
  <2>5. S = {Q \in PubKey : Verify_(call.c, Q, sig.r, sig.s)}
    BY <2>1, <2>3, RecoveredAreVerifiers
  <2> HIDE DEF keys, S
  <2>6. /\ {keys[i] : i \in DOMAIN keys} = {Q \in PubKey : Verify_(call.c, Q, sig.r, sig.s)}
        /\ \A i, j \in DOMAIN keys : keys[i] = keys[j] => i = j
    BY <2>4, <2>5 DEF ListsOnce
  <2> QED BY <2>6 DEF keys
<1> QED BY <1>1, SigningInvariant, PTL

\* The key_id of a signature is in the range recover_pub_keys_ tries.
LEMMA KeyIdInRange ==
  ASSUME NEW c \in Scalar, NEW q \in 1..(n - 1), NEW k \in 1..(n - 1),
         NEW lowerS \in BOOLEAN, Signable(c, q, k)
  PROVE  SignRecoverable_(c, q, k, lowerS).keyId \in 0..(2 * h + 1)
<1> DEFINE keyId == SignRecoverable_(c, q, k, lowerS).keyId
<1>1. PICK i \in 1..(n - 1), bit \in {0, 1} : keyId = 2 * (XOf[Mult(i, G)] \div n) + bit
  BY Made
<1> DEFINE d == XOf[Mult(i, G)] \div n
<1>2. d \in 0..h /\ h \in Nat
  BY MultGInRange, LostAtMost, Orders
<1> HIDE DEF d, keyId
<1>3. keyId = 2 * d + bit
  BY <1>1 DEF d
<1>4. keyId \in 0..(2 * h + 1)
  BY <1>2, <1>3
<1> QED BY <1>4 DEF keyId

\* The key_id returned with a signature is listed and recovers the signer's key.
\* No other key_id does where the curve is of prime order; where it has a
\* cofactor, those a multiple of 2*p away do and no others (dsa.py:601, 2245-2276).
THEOREM KeyIdsNameSigners == Spec => []KeyIdNamesSigner
<1>1. SigningInv => KeyIdNamesSigner
  <2> SUFFICES ASSUME SigningInv, Signed, ~faulted
               PROVE  /\ sig.keyId \in 0..(2 * h + 1)
                      /\ \A i \in (-2 * p)..(2 * p + 2 * h + 1) :
                           RecoverPubKey(i, call.c, sig.r, sig.s) = OwnKey
                             <=> Wrapped(i, sig.keyId)
    BY DEF KeyIdNamesSigner, Wrapped
  <2> DEFINE k == FinalNonce(call, DerivedNonce(call, call.key, counter))
             R(i) == RecoverPubKey(i, call.c, sig.r, sig.s)
  <2>1. /\ call.c \in Scalar /\ call.key \in 1..(n - 1) /\ call.lowerS \in BOOLEAN
        /\ k \in 1..(n - 1) /\ Signable(call.c, call.key, k)
        /\ sig = SignRecoverable_(call.c, call.key, k, call.lowerS)
    BY SignedFacts
  <2> HIDE DEF k
  <2>2. sig.r \in 1..(n - 1) /\ sig.s \in 1..(n - 1) /\ call.c \in Int
    BY <2>1, Made, Orders DEF Scalar
  <2>3. R(sig.keyId) = OwnKey
    BY <2>1, MadeVerifies DEF OwnKey
  <2>4. OwnKey # INF
    BY <2>1, MultGInRange DEF OwnKey, Finite, INF
  <2>5. sig.keyId \in 0..(2 * h + 1)
    BY <2>1, KeyIdInRange
  <2>6. sig.keyId \in Int
    BY <2>5
  <2>7. ASSUME NEW i \in Int
        PROVE  R(i) = OwnKey <=> Wrapped(i, sig.keyId)
    <3>1. ASSUME R(i) = OwnKey PROVE Wrapped(i, sig.keyId)
      <4>1. R(sig.keyId) # INF /\ R(i) = R(sig.keyId)
        BY <2>3, <2>4, <3>1
      <4> QED BY <2>2, <2>6, <4>1, SameKeyWrapped
    <3>2. ASSUME Wrapped(i, sig.keyId) PROVE R(i) = OwnKey
      <4>1. R(i) = R(sig.keyId)
        BY <2>2, <2>6, <3>2, WrappedSameKey
      <4> QED BY <2>3, <4>1
    <3> QED BY <3>1, <3>2
  <2> HIDE DEF R
  <2>8. \A i \in (-2 * p)..(2 * p + 2 * h + 1) : R(i) = OwnKey <=> Wrapped(i, sig.keyId)
    <3>1. p \in Int /\ h \in Int
      BY Orders, FieldOrder
    <3> QED BY <2>7, <3>1
  <2> QED BY <2>5, <2>8 DEF R
<1> QED BY <1>1, SigningInvariant, PTL

\* What is signed is signed with a key in range.
HeldInRange == Signed => held \in 1..(n - 1)

\* The key in memory stays in range while a call signs.
LEMMA HeldStaysInRange == Spec => []HeldInRange
<1>1. Init => HeldInRange
  BY DEF Init, HeldInRange, Signed
<1>2. ASSUME SigningInv, HeldInRange, [Next]_vars
      PROVE  HeldInRange'
  <2>1. ASSUME NEW k \in MayHold(call), Call(k)
        PROVE  HeldInRange'
    BY <2>1 DEF Call, HeldInRange, Signed
  <2>2. CASE Attempt
    BY <1>2, <2>2 DEF Attempt, SigningInv, TypeOK, HeldInRange
  <2>3. CASE Check
    BY <1>2, <2>3 DEF Check, SigningInv, TypeOK, HeldInRange
  <2>4. CASE UNCHANGED vars
    BY <1>2, <2>4 DEF vars, HeldInRange, Signed
  <2> QED BY <1>2, <2>1, <2>2, <2>3, <2>4 DEF Next
<1>3. SigningInv /\ HeldInRange /\ [Next]_vars => HeldInRange'
  BY <1>2
<1> QED BY <1>1, <1>3, SigningInvariant, PTL DEF Spec

\* A checked signature that is returned verifies under a key fixed before it
\* existed, and a key_id recovers that key, however its computation went.
THEOREM SpoiledAreNotReturned == Spec => []NothingSpoiledIsReturned
<1>1. SigningInv /\ CheckedVerifies /\ HeldInRange => NothingSpoiledIsReturned
  <2> SUFFICES ASSUME SigningInv, CheckedVerifies, HeldInRange, Signed, call.verify,
                      NEW Q \in CheckedUnder(call.given, held)
               PROVE  /\ Verify_(call.c, Q, sig.r, sig.s)
                      /\ \E i \in 0..(2 * h + 1) : RecoverPubKey(i, call.c, sig.r, sig.s) = Q
    BY DEF NothingSpoiledIsReturned
  <2>1. Verify_(call.c, Q, sig.r, sig.s)
    BY DEF CheckedVerifies
  <2>2. call \in Requests /\ ~Refused(call) /\ held \in 1..(n - 1)
    BY DEF SigningInv, TypeOK, HeldInRange
  <2>3. call.c \in Int
    BY <2>2, RequestFacts, Orders DEF Scalar
  <2>4. Q \in PubKey
    <3>1. CASE call.given # {}
      BY <2>2, <3>1 DEF CheckedUnder, Refused
    <3>2. CASE call.given = {}
      BY <2>2, <3>2, MultGIsPubKey DEF CheckedUnder
    <3> QED BY <3>1, <3>2
  <2>5. sig.r \in 1..(n - 1) /\ sig.s \in 1..(n - 1) /\ AssertAsValid_(call.c, Q, sig.r, sig.s)
    BY <2>1 DEF Verify_, IsSig
  <2> QED BY <2>1, <2>3, <2>4, <2>5, VerifiedRecovers
<1> QED BY <1>1, SigningInvariant, CheckedSignaturesVerify, HeldStaysInRange, PTL


-----------------------------------------------------------------------------
(***************************************************************************)
(* Batches of BIP340 signatures (SchnorrBatch), on the same curves.        *)
(***************************************************************************)
CONSTANTS Msg, Challenge, Batches
VARIABLES batch, stage, scalars, x_coords, t

Ver == INSTANCE SchnorrBatch

\* The group of the batch is the one above.
LEMMA SameGroup ==
  /\ Ver!N = N /\ Ver!Finite = Finite /\ Ver!G = G /\ Ver!INF = INF
  /\ Ver!Scalar = 0..(n - 1) /\ Ver!FieldElement = 0..(p - 1)
  /\ \A P, Q : Ver!Add(P, Q) = Add(P, Q)
  /\ \A k, P : Ver!Mult(k, P) = Mult(k, P)
  /\ \A P : Ver!Parity(P) = Parity(P) /\ (Ver!InSubgroup(P) <=> InSubgroup(P))
  /\ \A x : (Ver!IsXCoordinate(x) <=> IsXCoordinate(x)) /\ Ver!EvenPoint(x) = Lift(x, 0)
  /\ \A k : Ver!ModInv(k) = ModInv(k)
<1>1. Ver!N = N /\ Ver!Finite = Finite /\ Ver!G = G /\ Ver!INF = INF
  BY DEF Ver!N, N, Ver!Finite, Finite, Ver!G, G, Ver!INF, INF
<1>2. Ver!Scalar = 0..(n - 1) /\ Ver!FieldElement = 0..(p - 1)
  BY DEF Ver!Scalar, Ver!FieldElement
<1>3. /\ \A P, Q : Ver!Add(P, Q) = Add(P, Q)
      /\ \A k, P : Ver!Mult(k, P) = Mult(k, P)
  BY <1>1 DEF Ver!Add, Add, Ver!Mult, Mult
<1>4. \A P : Ver!Parity(P) = Parity(P) /\ (Ver!InSubgroup(P) <=> InSubgroup(P))
  BY <1>1 DEF Ver!Parity, Parity, Ver!InSubgroup, InSubgroup
<1>5. \A x : Ver!IsXCoordinate(x) <=> IsXCoordinate(x)
  BY <1>1 DEF Ver!IsXCoordinate, IsXCoordinate
<1>6. \A x : Ver!EvenPoint(x) = Lift(x, 0)
  BY <1>1, <1>4 DEF Ver!EvenPoint, Ver!Lift, Lift
<1>7. \A k : Ver!ModInv(k) = ModInv(k)
  <2>1. Ver!Inverses = Inverses
    BY DEF Ver!Inverses, Inverses
  <2> QED BY <2>1 DEF Ver!ModInv, ModInv
<1> QED BY <1>1, <1>2, <1>3, <1>4, <1>5, <1>6, <1>7

\* Multiples of G add as their scalars do, and are the same modulo n alone.
LEMMA SumOfMultiples ==
  ASSUME NEW a \in Int, NEW b \in Int
  PROVE  Add(Mult(a, G), Mult(b, G)) = Mult(a + b, G)
<1>1. PICK x, y : x = a % n /\ y = b % n
  OBVIOUS
<1>2. /\ n \in Nat \ {0} /\ h \in Int /\ x \in Int /\ y \in Int /\ a + b \in Int
      /\ Cong(n, x, a) /\ Cong(n, y, b)
  BY <1>1, Orders, CongMod
<1>3. Mult(a, G) = x * h /\ Mult(b, G) = y * h /\ Mult(a + b, G) = ((a + b) % n) * h
  BY <1>1, <1>2, MultG
<1>4. x * h + y * h = (x + y) * h /\ x + y \in Int
  BY <1>2
<1>5. ((x + y) * h) % N = ((x + y) % n) * h
  BY <1>4, ScaleMod
<1>6. (x + y) % n = (a + b) % n
  <2>1. Cong(n, x + y, a + b)
    BY <1>2, CongAdd
  <2> QED BY <2>1 DEF Cong
<1> QED BY <1>3, <1>4, <1>5, <1>6 DEF Add

LEMMA MultipleOfMultiple ==
  ASSUME NEW a \in Int, NEW b \in Int
  PROVE  Mult(a, Mult(b, G)) = Mult(a * b, G)
<1>1. PICK P : P = Mult(b, G)
  OBVIOUS
<1>2. P \in Int /\ N \in Nat \ {0} /\ n \in Nat \ {0} /\ 0 % n = 0
  BY <1>1, MultG, Orders DEF Point
<1>3. Mult(0, G) = 0
  BY <1>2, MultG DEF INF
<1>4. PICK y : y = (a % n) * P
  OBVIOUS
<1>5. y \in Int
  <2>1. a % n \in Int
    BY <1>2, ModRange
  <2> QED BY <1>2, <1>4, <2>1
<1>6. y % N \in 0..(N - 1)
  BY <1>2, <1>5, ModRange
<1>7. Add(Mult(a, P), 0) = Mult(a, P)
  <2>1. Mult(a, P) = y % N
    BY <1>4 DEF Mult
  <2>2. \A z \in 0..(N - 1) : (z + 0) % N = z
    BY <1>2
  <2> QED BY <1>6, <2>1, <2>2 DEF Add
<1>8. Add(Mult(a, P), Mult(0, G)) = Mult(a * b + 0, G)
  BY <1>1, DoubleMult
<1>9. a * b + 0 = a * b
  OBVIOUS
<1> QED BY <1>1, <1>3, <1>7, <1>8, <1>9

\* A scalar is what it is modulo n.
LEMMA ScalarMod ==
  ASSUME NEW S \in 0..(n - 1)
  PROVE  S \in Int /\ S % n = S
<1>1. n \in Nat \ {0} /\ S \in Int /\ 0 <= S /\ S < n
  BY Orders
<1>2. PICK d, f : d = S \div n /\ f = S % n
  OBVIOUS
<1>3. d \in Int /\ f \in 0..(n - 1) /\ S = n * d + f
  BY <1>1, <1>2, DivMod, ModRange
<1>4. d = 0
  <2> SUFFICES ASSUME d # 0 PROVE FALSE
    OBVIOUS
  <2>1. n * d >= n \/ n * d <= -n
    BY <1>1, <1>3, MulPos
  <2>2. PICK z : z = n * d
    OBVIOUS
  <2>3. z \in Int /\ (z >= n \/ z <= -n) /\ S = z + f
    BY <1>1, <1>3, <2>1, <2>2
  <2> QED BY <1>1, <1>3, <2>3
<1> QED BY <1>1, <1>2, <1>3, <1>4

LEMMA SameMultiple ==
  ASSUME NEW a \in Int, NEW b \in Int
  PROVE  Mult(a, G) = Mult(b, G) <=> Cong(n, a, b)
<1>1. n \in Nat \ {0} /\ h \in Nat \ {0}
  BY Orders
<1>2. PICK x, y : x = a % n /\ y = b % n
  OBVIOUS
<1>3. x \in Int /\ y \in Int
  BY <1>1, <1>2, ModRange
<1>4. x * h = y * h <=> x = y
  BY <1>1, <1>3
<1>5. Mult(a, G) = x * h /\ Mult(b, G) = y * h
  BY <1>2, MultG
<1> QED BY <1>2, <1>4, <1>5 DEF Cong

\* What is multiplied by a scalar but zero can be divided by it.
LEMMA CancelScalar ==
  ASSUME NEW a \in 1..(n - 1), NEW x \in Int, NEW y \in Int, Cong(n, a * x, a * y)
  PROVE  Cong(n, x, y)
<1>1. PICK i : i = ModInv(a)
  OBVIOUS
<1>2. i \in Int /\ (a * i) % n = 1 /\ n \in Nat \ {0} /\ n > 2 /\ a \in Int
  BY <1>1, ModInvIsInverse, Orders
<1>3. a * x \in Int /\ a * y \in Int /\ a * i \in Int /\ 1 \in Int /\ 1 % n = 1
  BY <1>2
<1>4. Cong(n, i, i) /\ Cong(n, x, x) /\ Cong(n, y, y) /\ Cong(n, a * i, 1)
  BY <1>2, <1>3 DEF Cong
<1>5. Cong(n, (a * x) * i, (a * y) * i)
  BY <1>2, <1>3, <1>4, CongMul
<1>6. Cong(n, (a * i) * x, 1 * x) /\ Cong(n, (a * i) * y, 1 * y)
  BY <1>2, <1>3, <1>4, CongMul
<1>7. (a * x) * i = (a * i) * x /\ (a * y) * i = (a * i) * y /\ 1 * x = x /\ 1 * y = y
  <2>1. \A u, v, w \in Int : (u * v) * w = (u * w) * v /\ 1 * v = v
    OBVIOUS
  <2> QED BY <1>2, <2>1
<1> QED BY <1>5, <1>6, <1>7 DEF Cong

LEMMA ProductOfScalars ==
  ASSUME NEW a \in 1..(n - 1), NEW b \in 1..(n - 1)
  PROVE  (a * b) % n \in 1..(n - 1)
<1>1. n \in Nat \ {0} /\ a \in Int /\ b \in Int /\ 0 \in Int /\ b % n = b /\ 0 % n = 0 /\ a * 0 = 0
  <2>1. n \in Nat \ {0} /\ a \in Int /\ b \in 0..(n - 1)
    BY Orders
  <2>2. 0 % n = 0 /\ a * 0 = 0
    BY <2>1
  <2> QED BY <2>1, <2>2, ScalarMod
<1>2. (a * b) % n \in 0..(n - 1)
  <2>1. a * b \in Int
    BY <1>1
  <2> QED BY <1>1, <2>1, ModRange
<1>3. (a * b) % n # 0
  <2> SUFFICES ASSUME (a * b) % n = 0 PROVE FALSE
    OBVIOUS
  <2>1. Cong(n, a * b, a * 0)
    BY <1>1 DEF Cong
  <2>2. Cong(n, b, 0)
    BY <1>1, <2>1, CancelScalar
  <2> QED BY <1>1, <2>2 DEF Cong
<1> QED BY <1>2, <1>3

\* A signature weighed by a scalar but zero moves a sum off t*G where it is bad
\* and leaves it as it is where it is good.
LEMMA Weighing ==
  ASSUME NEW a \in Int, NEW b \in Int, NEW rand \in 1..(n - 1), NEW s \in Int, NEW u \in Int
  PROVE  /\ Cong(n, s, u) => (Cong(n, a + rand * s, b + rand * u) <=> Cong(n, a, b))
         /\ Cong(n, a, b) => (Cong(n, a + rand * s, b + rand * u) <=> Cong(n, s, u))
<1>1. PICK x, y : x = rand * s /\ y = rand * u
  OBVIOUS
<1>2. rand \in Int /\ x \in Int /\ y \in Int /\ n \in Nat \ {0} /\ -x \in Int /\ -a \in Int
  BY <1>1, Orders
<1>3. Cong(n, rand, rand) /\ \A z \in Int : Cong(n, z, z)
  BY DEF Cong
<1>4. Cong(n, s, u) => Cong(n, x, y)
  BY <1>1, <1>2, <1>3, CongMul
<1>5. Cong(n, x, y) => Cong(n, s, u)
  BY <1>1, CancelScalar
<1>6. ASSUME NEW c \in Int, NEW d \in Int, NEW f \in Int, NEW g \in Int, Cong(n, f, g)
      PROVE  Cong(n, c + f, d + g) <=> Cong(n, c, d)
  <2>1. Cong(n, c, d) => Cong(n, c + f, d + g)
    BY <1>2, <1>6, CongAdd
  <2>2. ASSUME Cong(n, c + f, d + g) PROVE Cong(n, c, d)
    <3>1. Cong(n, -f, -g)
      <4>1. Cong(n, f + (-f - g), g + (-f - g))
        <5>1. -f - g \in Int
          OBVIOUS
        <5> QED BY <1>2, <1>3, <1>6, <5>1, CongAdd
      <4>2. f + (-f - g) = -g /\ g + (-f - g) = -f
        OBVIOUS
      <4> QED BY <4>1, <4>2 DEF Cong
    <3>2. c + f \in Int /\ d + g \in Int /\ -f \in Int /\ -g \in Int
          /\ (c + f) + (-f) = c /\ (d + g) + (-g) = d
      OBVIOUS
    <3>3. Cong(n, (c + f) + (-f), (d + g) + (-g))
      BY <1>2, <2>2, <3>1, <3>2, CongAdd
    <3> QED BY <3>2, <3>3
  <2> QED BY <2>1, <2>2
<1>7. Cong(n, x, y) => (Cong(n, a + x, b + y) <=> Cong(n, a, b))
  BY <1>2, <1>6
<1>8. Cong(n, a, b) => (Cong(n, x + a, y + b) <=> Cong(n, x, y))
  BY <1>2, <1>6
<1>9. x + a = a + x /\ y + b = b + y
  BY <1>2
<1> QED BY <1>1, <1>4, <1>5, <1>7, <1>8, <1>9

-----------------------------------------------------------------------------
(* One signature                                                           *)

\* A key or a nonce that batch verification does not refuse is a multiple of G.
LEMMA LiftIsMultiple ==
  ASSUME NEW x, IsXCoordinate(x), h > 1 => InSubgroup(Lift(x, 0))
  PROVE  \E q \in 1..(n - 1) : Lift(x, 0) = Mult(q, G)
<1>1. Lift(x, 0) \in Finite
  BY Lifted
<1>2. InSubgroup(Lift(x, 0))
  <2>1. h = 1 \/ h > 1
    BY Orders
  <2> QED BY <1>1, <2>1, WholeCurve
<1> QED BY <1>1, <1>2, SubgroupIsMultiples

\* The point of even y with this x is the one.
LEMMA EvenPointIs ==
  ASSUME NEW x, IsXCoordinate(x), NEW K \in Finite
  PROVE  Parity(K) = 0 /\ XOf[K] = x <=> K = Lift(x, 0)
<1>1. Parity(K) = 0 /\ XOf[K] = x => K = Lift(x, 0)
  BY LiftOf
<1>2. /\ Lift(x, 0) \in Finite /\ XOf[Lift(x, 0)] = x
      /\ N - Lift(x, 0) = Lift(x, 0) \/ Parity(Lift(x, 0)) = 0
  BY Lifted
<1>3. Parity(Lift(x, 0)) = 0
  BY <1>2, CoordinatesAssumption DEF Parity
<1> QED BY <1>1, <1>2, <1>3

\* s*G - c*Q is a multiple of G, and is K where s is k + c*q.
LEMMA EquationIs ==
  ASSUME NEW c \in 1..(n - 1), NEW s \in Int, NEW q \in 1..(n - 1), NEW k \in 1..(n - 1),
         NEW x, IsXCoordinate(x), Lift(x, 0) = Mult(k, G)
  PROVE  Ver!EquationHolds(c, Mult(q, G), x, s) <=> Cong(n, s, k + c * q)
<1>1. PICK e, u : e = s + (n - c) * q /\ u = c * q
  OBVIOUS
<1>2. /\ n \in Nat \ {0} /\ c \in Int /\ q \in Int /\ k \in Int /\ u \in Int /\ e \in Int
      /\ (n - c) * q \in Int /\ e = (s - u) + n * q /\ s - u \in Int /\ n - c \in Int
  <2>1. n \in Nat \ {0} /\ c \in Int /\ q \in Int /\ k \in Int /\ n - c \in Int
    BY Orders
  <2>2. (n - c) * q \in Int /\ u \in Int /\ (n - c) * q = n * q - u
    BY <1>1, <2>1
  <2> QED BY <1>1, <2>1, <2>2
<1>3. Cong(n, e, s - u)
  BY <1>2, CongShift
<1>4. Cong(n, e, k) <=> Cong(n, s, k + u)
  <2>1. \A z \in Int : Cong(n, z, z)
    BY DEF Cong
  <2>2. Cong(n, s - u, k) => Cong(n, s, k + u)
    <3>1. SUFFICES ASSUME Cong(n, s - u, k) PROVE Cong(n, s, k + u)
      OBVIOUS
    <3>2. Cong(n, (s - u) + u, k + u)
      BY <1>2, <2>1, <3>1, CongAdd
    <3>3. (s - u) + u = s
      BY <1>2
    <3> QED BY <3>2, <3>3
  <2>3. Cong(n, s, k + u) => Cong(n, s - u, k)
    <3>1. SUFFICES ASSUME Cong(n, s, k + u) PROVE Cong(n, s - u, k)
      OBVIOUS
    <3>2. k + u \in Int /\ -u \in Int /\ s + (-u) = s - u /\ (k + u) + (-u) = k
      BY <1>2
    <3>3. Cong(n, s + (-u), (k + u) + (-u))
      BY <1>2, <2>1, <3>1, <3>2, CongAdd
    <3> QED BY <3>2, <3>3
  <2> QED BY <1>3, <2>2, <2>3 DEF Cong
<1>5. Add(Mult(s, G), Mult(n - c, Mult(q, G))) = Mult(e, G)
  <2>1. Mult(n - c, Mult(q, G)) = Mult((n - c) * q, G)
    BY <1>2, MultipleOfMultiple
  <2>2. Add(Mult(s, G), Mult((n - c) * q, G)) = Mult(s + (n - c) * q, G)
    BY <1>2, SumOfMultiples
  <2> QED BY <1>1, <2>1, <2>2
<1>6. PICK K : K = Mult(e, G)
  OBVIOUS
<1>7. Ver!EquationHolds(c, Mult(q, G), x, s) <=> K # INF /\ Parity(K) = 0 /\ XOf[K] = x
  BY <1>5, <1>6, SameGroup DEF Ver!EquationHolds
<1>8. K \in Finite \/ K = INF
  BY <1>2, <1>6, MultG
<1>9. Lift(x, 0) \in Finite /\ INF \notin Finite
  BY Lifted DEF INF, Finite
<1>10. (K # INF /\ Parity(K) = 0 /\ XOf[K] = x) <=> K = Mult(k, G)
  BY <1>8, <1>9, EvenPointIs
<1>11. K = Mult(k, G) <=> Cong(n, e, k)
  BY <1>2, <1>6, SameMultiple
<1> QED BY <1>1, <1>4, <1>7, <1>10, <1>11

\* What a signature of r and s is under a key: q and k are the logarithms of the
\* points with the x-coordinates of the key and of the nonce.
Logs(x, r, q, k) ==
  /\ q \in 1..(n - 1) /\ Lift(x, 0) = Mult(q, G)
  /\ k \in 1..(n - 1) /\ Lift(r, 0) = Mult(k, G)
ChallengeFor(msg, Q, sg) == Challenge[sg.r, Ver!XOfKey(Q), msg]

\* A signature whose term is gathered is good where s is k + c*q.
LEMMA AcceptsIs ==
  ASSUME NEW msg, NEW Q, NEW sg, Ver!ValidSig(sg), Ver!Readable(Q), IsXCoordinate(Ver!XOfKey(Q)),
         Ver!TermOK(Ver!XOfKey(Q), sg.r), ChallengeFor(msg, Q, sg) \in 1..(n - 1)
  PROVE  \E q, k : /\ Logs(Ver!XOfKey(Q), sg.r, q, k)
                   /\ Ver!Accepts(msg, Q, sg) <=> Cong(n, sg.s, k + ChallengeFor(msg, Q, sg) * q)
<1>1. PICK x, r, s, c : x = Ver!XOfKey(Q) /\ r = sg.r /\ s = sg.s /\ c = ChallengeFor(msg, Q, sg)
  OBVIOUS
<1>2. IsXCoordinate(x) /\ IsXCoordinate(r) /\ s \in Int /\ c \in 1..(n - 1)
  BY <1>1, SameGroup DEF Ver!ValidSig
<1>3. h > 1 => InSubgroup(Lift(x, 0)) /\ InSubgroup(Lift(r, 0))
  BY <1>1, SameGroup DEF Ver!TermOK, Ver!LiftsInSubgroup
<1>4. PICK q \in 1..(n - 1) : Lift(x, 0) = Mult(q, G)
  BY <1>2, <1>3, LiftIsMultiple
<1>5. PICK k \in 1..(n - 1) : Lift(r, 0) = Mult(k, G)
  BY <1>2, <1>3, LiftIsMultiple
<1>6. Ver!EquationHolds(c, Mult(q, G), r, s) <=> Cong(n, s, k + c * q)
  BY <1>2, <1>5, EquationIs
<1>7. Ver!LiftsInSubgroup(x)
  <2>1. InSubgroup(Mult(q, G))
    BY MultGIsPubKey DEF PubKey
  <2> QED BY <1>2, <1>4, <2>1, SameGroup DEF Ver!LiftsInSubgroup
<1>8. Ver!EvenPoint(x) = Mult(q, G) /\ c # 0
  BY <1>2, <1>4, SameGroup
<1>9. Ver!Accepts(msg, Q, sg) <=> Ver!EquationHolds(c, Ver!EvenPoint(x), r, s)
  BY <1>1, <1>7, <1>8 DEF Ver!Accepts, ChallengeFor
<1> QED BY <1>1, <1>4, <1>5, <1>6, <1>8, <1>9 DEF Logs

\* The term of a good signature is gathered.
LEMMA AcceptedIsGathered ==
  ASSUME NEW msg, NEW Q, NEW sg, Ver!Accepts(msg, Q, sg), ChallengeFor(msg, Q, sg) \in 0..(n - 1)
  PROVE  /\ Ver!ValidSig(sg) /\ Ver!Readable(Q) /\ IsXCoordinate(Ver!XOfKey(Q)) /\ IsXCoordinate(sg.r)
         /\ Ver!TermOK(Ver!XOfKey(Q), sg.r) /\ ChallengeFor(msg, Q, sg) \in 1..(n - 1)
<1>1. PICK x, r, s, c : x = Ver!XOfKey(Q) /\ r = sg.r /\ s = sg.s /\ c = ChallengeFor(msg, Q, sg)
  OBVIOUS
<1>2. /\ Ver!ValidSig(sg) /\ Ver!Readable(Q) /\ Ver!LiftsInSubgroup(x) /\ c # 0
      /\ Ver!EquationHolds(c, Ver!EvenPoint(x), r, s)
  BY <1>1 DEF Ver!Accepts, ChallengeFor
<1>3. IsXCoordinate(x) /\ InSubgroup(Lift(x, 0)) /\ IsXCoordinate(r) /\ s \in Int
  BY <1>1, <1>2, SameGroup DEF Ver!LiftsInSubgroup, Ver!ValidSig
<1>4. c \in 1..(n - 1)
  BY <1>1, <1>2, Orders
<1>5. PICK q \in 1..(n - 1) : Lift(x, 0) = Mult(q, G)
  BY <1>3, LiftIsMultiple
<1>6. PICK K : K = Add(Mult(s, G), Mult(n - c, Mult(q, G)))
  OBVIOUS
<1>7. K # INF /\ Parity(K) = 0 /\ XOf[K] = r
  BY <1>2, <1>5, <1>6, SameGroup DEF Ver!EquationHolds
<1>8. PICK e \in Int : K = Mult(e, G)
  <2>1. n - c \in Int /\ q \in Int /\ (n - c) * q \in Int
    BY <1>4, Orders
  <2>2. Mult(n - c, Mult(q, G)) = Mult((n - c) * q, G)
    BY <2>1, MultipleOfMultiple
  <2>3. Add(Mult(s, G), Mult((n - c) * q, G)) = Mult(s + (n - c) * q, G)
    BY <1>3, <2>1, SumOfMultiples
  <2>4. s + (n - c) * q \in Int
    BY <1>3, <2>1
  <2> QED BY <1>6, <2>2, <2>3, <2>4
<1>9. K \in Finite /\ InSubgroup(K)
  <2>1. K \in Finite /\ e % n # 0
    BY <1>7, <1>8, MultG
  <2>2. PICK f : f = e % n
    OBVIOUS
  <2>3. f \in 1..(n - 1)
    <3>1. n \in Nat \ {0}
      BY Orders
    <3>2. f \in 0..(n - 1)
      BY <2>2, <3>1, ModRange
    <3> QED BY <2>1, <2>2, <3>1, <3>2
  <2>4. Mult(f, G) = Mult(e, G)
    <3>1. n \in Nat \ {0} /\ f \in Int
      BY <2>3, Orders
    <3>2. Cong(n, f, e)
      BY <2>2, <3>1, CongMod
    <3> QED BY <3>1, <3>2, CongMult
  <2> QED BY <1>8, <2>1, <2>3, <2>4, MultGIsPubKey DEF PubKey
<1>10. Lift(r, 0) = K
  BY <1>3, <1>7, <1>9, EvenPointIs
<1>11. Ver!LiftsInSubgroup(x) /\ Ver!LiftsInSubgroup(r)
  BY <1>2, <1>3, <1>9, <1>10, SameGroup DEF Ver!LiftsInSubgroup
<1>12. x \in 0..(p - 1)
  BY <1>3, CoordinatesAssumption DEF IsXCoordinate
<1>13. Ver!TermOK(x, r)
  BY <1>11, <1>12, SameGroup DEF Ver!TermOK
<1> QED BY <1>1, <1>2, <1>3, <1>4, <1>13

-----------------------------------------------------------------------------
(* The sum of the terms                                                    *)

Terms(ks, xs, m) ==
  Len(ks) = m /\ \A i \in 1..m : ks[i] \in Int /\ IsXCoordinate(xs[i])
Begins(ls, ys, ks, xs, m) == \A i \in 1..m : ls[i] = ks[i] /\ ys[i] = xs[i]

\* The partial sums are points, each made of the one before it and its term.
LEMMA TermsStep ==
  ASSUME NEW ks, NEW xs, NEW m \in Nat, Terms(ks, xs, m)
  PROVE  /\ Ver!PartialSums(ks, xs)[0] = INF
         /\ \A i \in 1..m : Ver!PartialSums(ks, xs)[i]
                              = Add(Ver!PartialSums(ks, xs)[i - 1], Mult(ks[i], Lift(xs[i], 0)))
<1> USE DEF Terms
<1> DEFINE X == 0..(N - 1)
           F == [P \in X \X (1..m) |-> Add(P[1], Mult(ks[P[2]], Lift(xs[P[2]], 0)))]
<1>0. INF \in X /\ N \in Nat \ {0} /\ n \in Nat \ {0}
  BY Orders DEF INF
<1>1. \A i \in 1..m : Mult(ks[i], Lift(xs[i], 0)) \in Int
  <2> SUFFICES ASSUME NEW i \in 1..m PROVE Mult(ks[i], Lift(xs[i], 0)) \in Int
    OBVIOUS
  <2>1. PICK P, a, y : P = Lift(xs[i], 0) /\ a = ks[i] % n /\ y = (ks[i] % n) * P
    OBVIOUS
  <2>2. P \in Int
    <3>1. Lift(xs[i], 0) \in Finite
      BY Lifted
    <3> QED BY <2>1, <3>1, Orders DEF Finite
  <2>3. a \in Int
    BY <1>0, <2>1, ModRange
  <2>4. y \in Int
    BY <2>1, <2>2, <2>3
  <2>5. y % N \in 0..(N - 1)
    BY <1>0, <2>4, ModRange
  <2> QED BY <1>0, <2>1, <2>5 DEF Mult
<1>2. \A P \in Int, Q \in Int : Add(P, Q) \in X
  BY <1>0, ModRange DEF Add
<1>3. F \in [X \X (1..m) -> X]
  <2>1. ASSUME NEW P \in X \X (1..m) PROVE Add(P[1], Mult(ks[P[2]], Lift(xs[P[2]], 0))) \in X
    <3>1. P[1] \in Int /\ P[2] \in 1..m
      BY <1>0
    <3> QED BY <1>1, <1>2, <3>1
  <2> QED BY <2>1
<1>4. \A P \in X, i \in 1..m : F[<<P, i>>] = Add(P, Mult(ks[i], Lift(xs[i], 0)))
  OBVIOUS
<1> HIDE DEF F
<1>5. PICK g : Iterates(g, X, INF, F, m)
  <2> HIDE DEF X
  <2> QED BY <1>0, <1>3, BoundedRecursionExists
<1>6. /\ g \in [0..m -> X] /\ g[0] = INF
      /\ \A i \in 1..m : g[i] = Add(g[i - 1], Mult(ks[i], Lift(xs[i], 0)))
  <2>1. \A i \in 1..m : g[i - 1] \in X
    BY <1>5 DEF Iterates
  <2> QED BY <1>4, <1>5, <2>1 DEF Iterates
<1>7. g = [i \in 0..m |-> IF i = 0 THEN INF ELSE Add(g[i - 1], Mult(ks[i], Lift(xs[i], 0)))]
  BY <1>6
<1> DEFINE f == Ver!PartialSums(ks, xs)
<1>8. f = CHOOSE u : u = [i \in 0..m |-> IF i = 0 THEN INF ELSE Add(u[i - 1], Mult(ks[i], Lift(xs[i], 0)))]
  BY SameGroup DEF Ver!PartialSums
<1> HIDE DEF f
<1>9. f = [i \in 0..m |-> IF i = 0 THEN INF ELSE Add(f[i - 1], Mult(ks[i], Lift(xs[i], 0)))]
  BY <1>7, <1>8
<1>10. \A i \in 0..m : f[i] = IF i = 0 THEN INF ELSE Add(f[i - 1], Mult(ks[i], Lift(xs[i], 0)))
  BY <1>9, Zenon
<1>11. 0 \in 0..m /\ \A i \in 1..m : i \in 0..m /\ i # 0
  OBVIOUS
<1>12. f[0] = INF /\ \A i \in 1..m : f[i] = Add(f[i - 1], Mult(ks[i], Lift(xs[i], 0)))
  BY <1>10, <1>11, Zenon
<1> QED BY <1>12 DEF f

\* More terms do not change the sums before them.
LEMMA TermsPrefix ==
  ASSUME NEW ks, NEW xs, NEW m \in Nat, Terms(ks, xs, m),
         NEW ls, NEW ys, NEW o \in Nat, Terms(ls, ys, o), m <= o, Begins(ls, ys, ks, xs, m)
  PROVE  Ver!PartialSums(ls, ys)[m] = Ver!PartialSums(ks, xs)[m]
<1> DEFINE f == Ver!PartialSums(ks, xs)
           g == Ver!PartialSums(ls, ys)
           S == {i \in Nat : i <= m => f[i] = g[i]}
<1>1. f[0] = INF /\ \A i \in 1..m : f[i] = Add(f[i - 1], Mult(ks[i], Lift(xs[i], 0)))
  BY TermsStep
<1>2. g[0] = INF /\ \A i \in 1..o : g[i] = Add(g[i - 1], Mult(ls[i], Lift(ys[i], 0)))
  BY TermsStep
<1> HIDE DEF f, g
<1>3. 0 \in S
  BY <1>1, <1>2
<1>4. ASSUME NEW i \in Nat, i \in S PROVE i + 1 \in S
  <2>1. SUFFICES ASSUME i + 1 <= m PROVE f[i + 1] = g[i + 1]
    OBVIOUS
  <2>2. i + 1 \in 1..m /\ i + 1 \in 1..o /\ (i + 1) - 1 = i /\ f[i] = g[i]
    BY <1>4, <2>1
  <2>3. ls[i + 1] = ks[i + 1] /\ ys[i + 1] = xs[i + 1]
    BY <2>2 DEF Begins
  <2>4. f[i + 1] = Add(f[i], Mult(ks[i + 1], Lift(xs[i + 1], 0)))
    BY <1>1, <2>2
  <2>5. g[i + 1] = Add(g[i], Mult(ls[i + 1], Lift(ys[i + 1], 0)))
    BY <1>2, <2>2
  <2> QED BY <2>2, <2>3, <2>4, <2>5
<1>5. Nat \subseteq S
  <2> HIDE DEF S
  <2> QED BY <1>3, <1>4, SetInduction
<1>6. m \in S
  BY <1>5
<1> QED BY <1>6 DEF f, g

\* Two terms more, by position.
TwoMore(ls, ks, a, b) ==
  /\ Len(ls) = Len(ks) + 2
  /\ \A i \in 1..Len(ks) : ls[i] = ks[i]
  /\ ls[Len(ks) + 1] = a /\ ls[Len(ks) + 2] = b

LEMMA ConcatIsTwoMore ==
  ASSUME NEW X, NEW ks \in Seq(X), NEW a \in X, NEW b \in X
  PROVE  ks \o <<a, b>> \in Seq(X) /\ TwoMore(ks \o <<a, b>>, ks, a, b)
<1>1. PICK two, ls, m : two = <<a, b>> /\ ls = ks \o <<a, b>> /\ m = Len(ks)
  OBVIOUS
<1>2. two \in Seq(X) /\ Len(two) = 2 /\ two[1] = a /\ two[2] = b /\ m \in Nat
  BY <1>1
<1>3. /\ ls \in Seq(X) /\ Len(ls) = m + 2
      /\ \A i \in 1..(m + 2) : ls[i] = IF i <= m THEN ks[i] ELSE two[i - m]
  <2>1. ls = ks \o two
    BY <1>1
  <2>2. /\ ks \o two \in Seq(X) /\ Len(ks \o two) = Len(ks) + Len(two)
        /\ \A i \in 1..(Len(ks) + Len(two)) : (ks \o two)[i] = IF i <= Len(ks) THEN ks[i] ELSE two[i - Len(ks)]
    BY <1>2, ConcatProperties
  <2>3. Len(ks) + Len(two) = m + 2
    BY <1>1, <1>2
  <2> QED BY <1>1, <2>1, <2>2, <2>3
<1>4. \A i \in 1..m : i \in 1..(m + 2) /\ i <= m
  BY <1>2
<1>5. m + 1 \in 1..(m + 2) /\ m + 2 \in 1..(m + 2) /\ ~(m + 1 <= m) /\ ~(m + 2 <= m)
      /\ (m + 1) - m = 1 /\ (m + 2) - m = 2
  BY <1>2
<1>6. ls[m + 1] = a /\ ls[m + 2] = b
  BY <1>2, <1>3, <1>5
<1>7. \A i \in 1..m : ls[i] = ks[i]
  BY <1>3, <1>4
<1> QED BY <1>1, <1>3, <1>6, <1>7 DEF TwoMore

\* Every one of m numbers is an x-coordinate.
Lifting(xs, m) == Len(xs) = m /\ \A i \in 1..m : IsXCoordinate(xs[i])

\* ls and ys are ks and xs, every one of which is a scalar and an x-coordinate,
\* and two terms more.
TwoTermsMore(ls, ys, ks, xs, m, a, b, x, y) ==
  /\ ks \in Seq(1..(n - 1)) /\ m \in Nat /\ Len(ks) = m /\ Lifting(xs, m)
  /\ a \in 1..(n - 1) /\ b \in 1..(n - 1) /\ IsXCoordinate(x) /\ IsXCoordinate(y)
  /\ TwoMore(ls, ks, a, b) /\ TwoMore(ys, xs, x, y)
AddsTheTerms(ls, ys, ks, xs, a, b, x, y) ==
  Ver!MultiMultXOnly(ls, ys)
    = Add(Add(Ver!MultiMultXOnly(ks, xs), Mult(a, Lift(x, 0))), Mult(b, Lift(y, 0)))

\* Two terms more add to the sum what they are.
LEMMA SumOfTwoMore ==
  ASSUME NEW ls, NEW ys, NEW ks, NEW xs, NEW m, NEW a, NEW b, NEW x, NEW y,
         TwoTermsMore(ls, ys, ks, xs, m, a, b, x, y)
  PROVE  AddsTheTerms(ls, ys, ks, xs, a, b, x, y)
<1>0. /\ ks \in Seq(1..(n - 1)) /\ m \in Nat /\ Len(ks) = m /\ Lifting(xs, m)
      /\ a \in 1..(n - 1) /\ b \in 1..(n - 1) /\ IsXCoordinate(x) /\ IsXCoordinate(y)
      /\ TwoMore(ls, ks, a, b) /\ TwoMore(ys, xs, x, y)
  BY DEF TwoTermsMore
<1>1. /\ Len(ls) = m + 2 /\ \A i \in 1..m : ls[i] = ks[i]
      /\ ls[m + 1] = a /\ ls[m + 2] = b
      /\ Len(ys) = m + 2 /\ \A i \in 1..m : ys[i] = xs[i]
      /\ ys[m + 1] = x /\ ys[m + 2] = y
  BY <1>0 DEF TwoMore, Lifting
<1>2. m + 2 \in Nat /\ \A i \in 1..(m + 2) : i \in 1..m \/ i = m + 1 \/ i = m + 2
  BY <1>0
<1>3. \A i \in 1..m : ks[i] \in Int
  BY <1>0, Orders
<1>4. a \in Int /\ b \in Int
  BY <1>0, Orders
<1>5. \A i \in 1..(m + 2) : ls[i] \in Int
  BY <1>1, <1>2, <1>3, <1>4
<1>6. \A i \in 1..(m + 2) : IsXCoordinate(ys[i])
  BY <1>0, <1>1, <1>2 DEF Lifting
<1>6a. Terms(ks, xs, m) /\ Terms(ls, ys, m + 2) /\ Begins(ls, ys, ks, xs, m)
  BY <1>0, <1>1, <1>2, <1>3, <1>5, <1>6 DEF Terms, Begins, Lifting
<1> DEFINE f == Ver!PartialSums(ks, xs)
           g == Ver!PartialSums(ls, ys)
<1>7. \A i \in 1..(m + 2) : g[i] = Add(g[i - 1], Mult(ls[i], Lift(ys[i], 0)))
  BY <1>0, <1>2, <1>6a, TermsStep
<1>8. g[m] = f[m]
  <2>1. m <= m + 2
    BY <1>0
  <2> QED BY <1>0, <1>2, <1>6a, <2>1, TermsPrefix
<1> HIDE DEF f, g
<1>9. m + 1 \in 1..(m + 2) /\ m + 2 \in 1..(m + 2) /\ (m + 1) - 1 = m /\ (m + 2) - 1 = m + 1
  BY <1>0
<1>10. g[m + 1] = Add(g[m], Mult(a, Lift(x, 0)))
  BY <1>1, <1>7, <1>9
<1>11. g[m + 2] = Add(g[m + 1], Mult(b, Lift(y, 0)))
  BY <1>1, <1>7, <1>9
<1>12. Ver!MultiMultXOnly(ls, ys) = g[m + 2] /\ Ver!MultiMultXOnly(ks, xs) = f[m]
  BY <1>0, <1>1 DEF Ver!MultiMultXOnly, f, g
<1> QED BY <1>8, <1>10, <1>11, <1>12 DEF AddsTheTerms

-----------------------------------------------------------------------------
(* The loop of a batch                                                     *)

\* What the terms of one signature add to a multiple of G.
LEMMA TermSum ==
  ASSUME NEW S \in Int, NEW rand \in 1..(n - 1), NEW c \in 1..(n - 1),
         NEW k \in 1..(n - 1), NEW q \in 1..(n - 1)
  PROVE  \E E \in Int : /\ Add(Add(Mult(S, G), Mult(rand, Mult(k, G))),
                               Mult((rand * c) % n, Mult(q, G))) = Mult(E, G)
                        /\ Cong(n, E, S + rand * (k + c * q))
<1>1. PICK a, d : a = rand * c /\ d = (rand * c) % n
  OBVIOUS
<1>2. /\ n \in Nat \ {0} /\ rand \in Int /\ c \in Int /\ k \in Int /\ q \in Int /\ a \in Int
      /\ d \in Int /\ Cong(n, d, a)
  <2>1. n \in Nat \ {0} /\ rand \in Int /\ c \in Int /\ k \in Int /\ q \in Int
    BY Orders
  <2>2. a \in Int
    BY <1>1, <2>1
  <2> QED BY <1>1, <2>1, <2>2, CongMod
<1>3. PICK u, v, w : u = rand * k /\ v = d * q /\ w = a * q
  OBVIOUS
<1>4. u \in Int /\ v \in Int /\ w \in Int
  BY <1>2, <1>3
<1>5. Mult(rand, Mult(k, G)) = Mult(u, G) /\ Mult(d, Mult(q, G)) = Mult(v, G)
  BY <1>2, <1>3, MultipleOfMultiple
<1>6. Add(Add(Mult(S, G), Mult(u, G)), Mult(v, G)) = Mult(S + u + v, G)
  <2>1. S + u \in Int
    BY <1>4
  <2> QED BY <1>4, <2>1, SumOfMultiples
<1>7. Cong(n, v, w)
  <2>1. Cong(n, q, q)
    BY DEF Cong
  <2> QED BY <1>2, <1>3, <2>1, CongMul
<1>8. Cong(n, (S + u) + v, (S + u) + w)
  <2>1. Cong(n, S + u, S + u) /\ S + u \in Int
    BY <1>4 DEF Cong
  <2> QED BY <1>2, <1>4, <1>7, <2>1, CongAdd
<1>9. (S + u) + w = S + rand * (k + c * q)
  <2>1. rand * (k + c * q) = rand * k + (rand * c) * q
    BY <1>2
  <2> QED BY <1>1, <1>3, <1>4, <2>1
<1>10. S + u + v \in Int
  BY <1>4
<1> QED BY <1>1, <1>5, <1>6, <1>8, <1>9, <1>10

\* The i-th signature of a batch, and the bad ones up to the m-th.
ChallengeIn(b, i) == ChallengeFor(b.msgs[i], b.Qs[i], b.sigs[i])
GoodIn(b, i) == Ver!Accepts(b.msgs[i], b.Qs[i], b.sigs[i])
BadIn(b, m) == {i \in 1..m : ~GoodIn(b, i)}

\* The i-th signature of a batch passed its checks and the loop's.
ItemReady(b, i) ==
  /\ Ver!ValidSig(b.sigs[i]) /\ Ver!Readable(b.Qs[i])
  /\ Ver!TermOK(Ver!XOfKey(b.Qs[i]), b.sigs[i].r)
  /\ ChallengeIn(b, i) \in 1..(n - 1)

\* S is the logarithm of the sum, u of what it is compared to.
SumsTo(b, m, ks, xs, u) ==
  \E S \in 0..(n - 1) :
    /\ Ver!MultiMultXOnly(ks, xs) = Mult(S, G)
    /\ BadIn(b, m) = {} => u % n = S
    /\ \A i \in 1..m : BadIn(b, m) = {i} => u % n # S

LEMMA LogsOfItem ==
  ASSUME NEW b, NEW i, ItemReady(b, i), IsXCoordinate(Ver!XOfKey(b.Qs[i]))
  PROVE  \E q, k : /\ Logs(Ver!XOfKey(b.Qs[i]), b.sigs[i].r, q, k)
                   /\ GoodIn(b, i) <=> Cong(n, b.sigs[i].s, k + ChallengeIn(b, i) * q)
BY AcceptsIs DEF ItemReady, GoodIn, ChallengeIn

\* The bad signatures up to one more are those before it and it, if it is bad.
LEMMA OneMoreBad ==
  ASSUME NEW b, NEW m \in Nat
  PROVE  /\ BadIn(b, m + 1) = {} <=> BadIn(b, m) = {} /\ GoodIn(b, m + 1)
         /\ \A i \in 1..m : BadIn(b, m + 1) = {i} <=> BadIn(b, m) = {i} /\ GoodIn(b, m + 1)
         /\ BadIn(b, m + 1) = {m + 1} => BadIn(b, m) = {} /\ ~GoodIn(b, m + 1)
<1>1. BadIn(b, m + 1) = BadIn(b, m) \cup (IF GoodIn(b, m + 1) THEN {} ELSE {m + 1})
  <2>1. 1..(m + 1) = 1..m \cup {m + 1}
    OBVIOUS
  <2> QED BY <2>1 DEF BadIn
<1>2. m + 1 \notin BadIn(b, m) /\ BadIn(b, m) \subseteq 1..m
  BY DEF BadIn
<1>3. \A i \in 1..m : i # m + 1
  OBVIOUS
<1> QED BY <1>1, <1>2, <1>3

\* The invariant of the loop: one more signature, weighed by any scalar but
\* zero, keeps the sum on u*G where all are good and off it where one is bad.
LEMMA SumStep ==
  ASSUME NEW b, NEW m \in Nat, NEW ks \in Seq(1..(n - 1)), NEW xs, NEW u \in Int,
         Len(ks) = 2 * m, Len(xs) = 2 * m,
         \A j \in 1..(2 * m) : IsXCoordinate(xs[j]), SumsTo(b, m, ks, xs, u),
         ItemReady(b, m + 1), IsXCoordinate(Ver!XOfKey(b.Qs[m + 1])),
         NEW rand \in 1..(n - 1),
         NEW ls, TwoMore(ls, ks, rand, (rand * ChallengeIn(b, m + 1)) % n),
         NEW ys, TwoMore(ys, xs, b.sigs[m + 1].r, Ver!XOfKey(b.Qs[m + 1]))
  PROVE  SumsTo(b, m + 1, ls, ys, u + rand * b.sigs[m + 1].s)
<1>1. PICK r, s, x, c : /\ r = b.sigs[m + 1].r /\ s = b.sigs[m + 1].s
                        /\ x = Ver!XOfKey(b.Qs[m + 1]) /\ c = ChallengeIn(b, m + 1)
  OBVIOUS
<1>2. IsXCoordinate(x) /\ IsXCoordinate(r) /\ s \in Int /\ c \in 1..(n - 1)
  BY <1>1, SameGroup DEF ItemReady, Ver!ValidSig
<1>3. PICK q, k : /\ Logs(x, r, q, k)
                  /\ GoodIn(b, m + 1) <=> Cong(n, s, k + c * q)
  BY <1>1, LogsOfItem
<1>4. /\ q \in 1..(n - 1) /\ Lift(x, 0) = Mult(q, G)
      /\ k \in 1..(n - 1) /\ Lift(r, 0) = Mult(k, G)
  BY <1>3 DEF Logs
<1>5. PICK S \in 0..(n - 1) : /\ Ver!MultiMultXOnly(ks, xs) = Mult(S, G)
                              /\ BadIn(b, m) = {} => u % n = S
                              /\ \A i \in 1..m : BadIn(b, m) = {i} => u % n # S
  BY DEF SumsTo
<1>6. n \in Nat \ {0} /\ S \in Int /\ S % n = S
  BY Orders, ScalarMod
<1>7. (rand * c) % n \in 1..(n - 1)
  BY <1>2, ProductOfScalars
<1>8. Ver!MultiMultXOnly(ls, ys)
        = Add(Add(Mult(S, G), Mult(rand, Mult(k, G))), Mult((rand * c) % n, Mult(q, G)))
  <2>1. PICK o, d : o = 2 * m /\ d = (rand * c) % n
    OBVIOUS
  <2>2. o \in Nat /\ Len(ks) = o /\ Lifting(xs, o)
    BY <2>1 DEF Lifting
  <2>3. TwoMore(ls, ks, rand, d) /\ TwoMore(ys, xs, r, x) /\ d \in 1..(n - 1)
    BY <1>1, <1>7, <2>1
  <2>4. Ver!MultiMultXOnly(ls, ys)
          = Add(Add(Ver!MultiMultXOnly(ks, xs), Mult(rand, Lift(r, 0))), Mult(d, Lift(x, 0)))
    <3>1. TwoTermsMore(ls, ys, ks, xs, o, rand, d, r, x)
      BY <1>2, <2>2, <2>3 DEF TwoTermsMore
    <3>2. AddsTheTerms(ls, ys, ks, xs, rand, d, r, x)
      BY <3>1, SumOfTwoMore
    <3> QED BY <3>2 DEF AddsTheTerms
  <2> QED BY <1>4, <1>5, <2>1, <2>4
<1>9. PICK E \in Int : /\ Ver!MultiMultXOnly(ls, ys) = Mult(E, G)
                       /\ Cong(n, E, S + rand * (k + c * q))
  BY <1>2, <1>4, <1>6, <1>8, TermSum
<1>10. PICK f : f = k + c * q
  OBVIOUS
<1>11. f \in Int
  <2>1. c \in Int /\ k \in Int /\ q \in Int
    BY <1>2, <1>4, Orders
  <2> QED BY <1>10, <2>1
<1>12. PICK T \in 0..(n - 1) : T = E % n
  BY <1>6, <1>9, ModRange
<1>13. Ver!MultiMultXOnly(ls, ys) = Mult(T, G)
  <2>1. Cong(n, T, E) /\ T \in Int
    BY <1>6, <1>9, <1>12, CongMod
  <2> QED BY <1>9, <2>1, CongMult
<1>14. (u + rand * s) % n = T <=> Cong(n, u + rand * s, S + rand * f)
  BY <1>9, <1>10, <1>12 DEF Cong
<1>15. u % n = S <=> Cong(n, u, S)
  BY <1>6 DEF Cong
<1>16. /\ Cong(n, s, f) => ((u + rand * s) % n = T <=> u % n = S)
       /\ u % n = S => ((u + rand * s) % n = T <=> Cong(n, s, f))
  BY <1>2, <1>6, <1>11, <1>14, <1>15, Weighing
<1>17. GoodIn(b, m + 1) <=> Cong(n, s, f)
  BY <1>3, <1>10
<1>18. BadIn(b, m + 1) = {} => (u + rand * s) % n = T
  BY <1>5, <1>16, <1>17, OneMoreBad
<1>19. ASSUME NEW i \in 1..(m + 1), BadIn(b, m + 1) = {i} PROVE (u + rand * s) % n # T
  <2>1. CASE i \in 1..m
    BY <1>5, <1>16, <1>17, <1>19, <2>1, OneMoreBad
  <2>2. CASE i = m + 1
    BY <1>5, <1>16, <1>17, <1>19, <2>2, OneMoreBad
  <2> QED BY <2>1, <2>2
<1>20. SumsTo(b, m + 1, ls, ys, u + rand * s)
  BY <1>12, <1>13, <1>18, <1>19 DEF SumsTo
<1> QED BY <1>1, <1>20

-----------------------------------------------------------------------------
(* The call                                                                *)

LEMMA BatchFacts ==
  ASSUME Ver!BatchAssumption, NEW b \in Batches
  PROVE  /\ b.msgs \in Seq(Msg) /\ b.Qs \in Seq(Ver!Key) /\ b.sigs \in Seq(Ver!Sig)
         /\ Len(b.msgs) \in Nat /\ Len(b.Qs) \in Nat /\ Len(b.sigs) \in Nat
<1>1. b \in Ver!Batch
  BY DEF Ver!BatchAssumption
<1>2. b.msgs \in Seq(Msg) /\ b.Qs \in Seq(Ver!Key) /\ b.sigs \in Seq(Ver!Sig)
  BY <1>1 DEF Ver!Batch
<1> QED BY <1>2

LEMMA ItemFacts ==
  ASSUME Ver!BatchAssumption, NEW b \in Batches,
         Len(b.msgs) = Len(b.Qs), Len(b.sigs) = Len(b.Qs), NEW i \in 1..Len(b.Qs)
  PROVE  /\ b.sigs[i].s \in Nat
         /\ Ver!ValidSig(b.sigs[i])
              => IsXCoordinate(b.sigs[i].r) /\ b.sigs[i].r \in 0..(p - 1)
         /\ Ver!ValidSig(b.sigs[i]) /\ Ver!XOfKey(b.Qs[i]) \in 0..(p - 1)
              => ChallengeIn(b, i) \in 0..(n - 1)
<1>1. b.msgs[i] \in Msg /\ b.sigs[i] \in Ver!Sig
  BY BatchFacts
<1>2. b.sigs[i].s \in Nat
  BY <1>1 DEF Ver!Sig
<1>3. \A x : IsXCoordinate(x) => x \in 0..(p - 1)
  BY CoordinatesAssumption DEF IsXCoordinate
<1>4. Ver!ValidSig(b.sigs[i]) => IsXCoordinate(b.sigs[i].r) /\ b.sigs[i].r \in 0..(p - 1)
  BY <1>3, SameGroup DEF Ver!ValidSig
<1>5. \A x \in 0..(p - 1), y \in 0..(p - 1), msg \in Msg : Challenge[x, y, msg] \in 0..(n - 1)
  BY SameGroup DEF Ver!BatchAssumption
<1> QED BY <1>1, <1>2, <1>4, <1>5 DEF ChallengeIn, ChallengeFor

\* What the loop has, of a batch and of what was gathered of it.
Item(b, xs, i) ==
  /\ Ver!TermOK(Ver!XOfKey(b.Qs[i]), b.sigs[i].r) /\ ChallengeIn(b, i) # 0
  /\ xs[2 * i - 1] = b.sigs[i].r /\ xs[2 * i] = Ver!XOfKey(b.Qs[i])
Gathering(b, m, ks, xs, u) ==
  /\ Len(ks) = 2 * m
  /\ \A i \in 1..m : Item(b, xs, i)
  /\ Ver!AllLift(xs) => SumsTo(b, m, ks, xs, u)

LEMMA GatheredIs ==
  ASSUME NEW m
  PROVE  /\ Ver!Gathered(m) <=> Gathering(batch, m, scalars, x_coords, t)
         /\ Ver!Gathered(m)' <=> Gathering(batch', m, scalars', x_coords', t')
<1>1. \A i : /\ Ver!Good(i) <=> GoodIn(batch, i)
             /\ Ver!ChallengeOf(i) = ChallengeIn(batch, i)
  BY DEF Ver!Good, GoodIn, Ver!ChallengeOf, ChallengeIn, ChallengeFor
<1>2. Ver!BadTo(m) = BadIn(batch, m)
  BY <1>1 DEF Ver!BadTo, BadIn
<1>3. \A i : /\ Ver!Good(i)' <=> GoodIn(batch', i)
             /\ Ver!ChallengeOf(i)' = ChallengeIn(batch', i)
  BY DEF Ver!Good, GoodIn, Ver!ChallengeOf, ChallengeIn, ChallengeFor
<1>4. Ver!BadTo(m)' = BadIn(batch', m)
  BY <1>3 DEF Ver!BadTo, BadIn
<1>5. Ver!Gathered(m) <=> Gathering(batch, m, scalars, x_coords, t)
  BY <1>1, <1>2, SameGroup DEF Ver!Gathered, Gathering, Item, SumsTo
<1>6. Ver!Gathered(m)' <=> Gathering(batch', m, scalars', x_coords', t')
  BY <1>3, <1>4, SameGroup DEF Ver!Gathered, Gathering, Item, SumsTo
<1> QED BY <1>5, <1>6

\* The coordinates all lift where those of each signature do.
LEMMA GatheredLift ==
  ASSUME NEW b, NEW m \in Nat, NEW ks, NEW u, NEW xs \in Seq(0..(p - 1)), Len(xs) = 2 * m,
         Gathering(b, m, ks, xs, u)
  PROVE  Ver!AllLift(xs) <=> \A i \in 1..m : /\ IsXCoordinate(b.sigs[i].r)
                                             /\ IsXCoordinate(Ver!XOfKey(b.Qs[i]))
<1>1. Ver!AllLift(xs) <=> \A j \in 1..(2 * m) : IsXCoordinate(xs[j])
  BY SameGroup DEF Ver!AllLift
<1>2. \A i \in 1..m : /\ 2 * i - 1 \in 1..(2 * m) /\ 2 * i \in 1..(2 * m)
                      /\ xs[2 * i - 1] = b.sigs[i].r /\ xs[2 * i] = Ver!XOfKey(b.Qs[i])
  BY DEF Gathering, Item
<1>3. \A j \in 1..(2 * m) : \E i \in 1..m : j = 2 * i - 1 \/ j = 2 * i
  <2> SUFFICES ASSUME NEW j \in 1..(2 * m)
               PROVE  \E i \in 1..m : j = 2 * i - 1 \/ j = 2 * i
    OBVIOUS
  <2>1. PICK i : i = (j + 1) \div 2
    OBVIOUS
  <2>2. i \in 1..m /\ (j = 2 * i - 1 \/ j = 2 * i)
    BY <2>1
  <2> QED BY <2>2
<1>4. ASSUME \A j \in 1..(2 * m) : IsXCoordinate(xs[j]), NEW i \in 1..m
      PROVE  IsXCoordinate(b.sigs[i].r) /\ IsXCoordinate(Ver!XOfKey(b.Qs[i]))
  <2>1. IsXCoordinate(xs[2 * i - 1]) /\ IsXCoordinate(xs[2 * i])
    BY <1>2, <1>4
  <2> QED BY <1>2, <2>1
<1>5. ASSUME \A i \in 1..m : /\ IsXCoordinate(b.sigs[i].r)
                             /\ IsXCoordinate(Ver!XOfKey(b.Qs[i])),
             NEW j \in 1..(2 * m)
      PROVE  IsXCoordinate(xs[j])
  <2>1. PICK i \in 1..m : j = 2 * i - 1 \/ j = 2 * i
    BY <1>3
  <2>2. xs[j] = b.sigs[i].r \/ xs[j] = Ver!XOfKey(b.Qs[i])
    BY <1>2, <2>1
  <2> QED BY <1>5, <2>2
<1> QED BY <1>1, <1>4, <1>5

-----------------------------------------------------------------------------
(* The steps of a call                                                     *)

Here(b) == \A i \in 1..Len(b.Qs) : b.sigs[i].here
SameLengths(b) == Len(b.msgs) = Len(b.Qs) /\ Len(b.sigs) = Len(b.Qs)

\* What an answer is if batches say what their signatures would.
Says(b, a) ==
  /\ SameLengths(b) /\ Len(b.Qs) > 0 /\ Here(b) =>
       /\ BadIn(b, Len(b.Qs)) = {} => a = "accepted"
       /\ \A i \in 1..Len(b.Qs) : BadIn(b, Len(b.Qs)) = {i} => a # "accepted"
  /\ a = "accepted" => Len(b.Qs) > 0 /\ SameLengths(b) /\ Here(b)

LEMMA SameCardinality == \A S : Ver!Cardinality(S) = Cardinality(S)
BY DEF Ver!Cardinality, Cardinality

LEMMA OneBad ==
  ASSUME NEW b, NEW m \in Nat
  PROVE  Cardinality(BadIn(b, m)) = 1 <=> \E i \in 1..m : BadIn(b, m) = {i}
<1>1. BadIn(b, m) \subseteq 1..m
  BY DEF BadIn
<1>2. ASSUME Cardinality(BadIn(b, m)) = 1
      PROVE  \E i \in 1..m : BadIn(b, m) = {i}
  <2>1. IsFiniteSet(BadIn(b, m))
    <3>1. IsFiniteSet(1..m)
      BY FS_Interval
    <3> QED BY <1>1, <3>1, FS_Subset
  <2>2. PICK i : BadIn(b, m) = {i}
    BY <1>2, <2>1, FS_Singleton
  <2> QED BY <1>1, <2>2
<1>3. ASSUME NEW i \in 1..m, BadIn(b, m) = {i}
      PROVE  Cardinality(BadIn(b, m)) = 1
  BY <1>3, FS_Singleton
<1> QED BY <1>2, <1>3

LEMMA SaysIs ==
  ASSUME Len(batch.Qs) \in Nat, stage \in Ver!Answers
  PROVE  Ver!BatchSaysWhatSinglesSay /\ Ver!OddBatchesRefused <=> Says(batch, stage)
<1>1. Ver!Spoiled = BadIn(batch, Len(batch.Qs))
  BY DEF Ver!Spoiled, Ver!Items, Ver!Size, Ver!Good, BadIn, GoodIn
<1>2. Cardinality(Ver!Spoiled) = 1
        <=> \E i \in 1..Len(batch.Qs) : BadIn(batch, Len(batch.Qs)) = {i}
  BY <1>1, OneBad
<1> QED BY <1>1, <1>2, SameCardinality
        DEF Ver!BatchSaysWhatSinglesSay, Ver!OddBatchesRefused, Ver!Aligned, Ver!Size,
            Ver!Items, Says, SameLengths, Here

\* The same of the next state.
LEMMA SaysIsNext ==
  ASSUME Len(batch'.Qs) \in Nat, stage' \in Ver!Answers
  PROVE  Ver!BatchSaysWhatSinglesSay' /\ Ver!OddBatchesRefused' <=> Says(batch', stage')
<1>1. Ver!Spoiled' = BadIn(batch', Len(batch'.Qs))
  BY DEF Ver!Spoiled, Ver!Items, Ver!Size, Ver!Good, BadIn, GoodIn
<1>2. Cardinality(Ver!Spoiled') = 1
        <=> \E i \in 1..Len(batch'.Qs) : BadIn(batch', Len(batch'.Qs)) = {i}
  <2>1. PICK b : b = batch'
    OBVIOUS
  <2>2. Len(b.Qs) \in Nat
    BY <2>1
  <2>3. Cardinality(BadIn(b, Len(b.Qs))) = 1 <=> \E i \in 1..Len(b.Qs) : BadIn(b, Len(b.Qs)) = {i}
    BY <2>2, OneBad
  <2> QED BY <1>1, <2>1, <2>3
<1> QED BY <1>1, <1>2, SameCardinality
        DEF Ver!BatchSaysWhatSinglesSay, Ver!OddBatchesRefused, Ver!Aligned, Ver!Size,
            Ver!Items, Says, SameLengths, Here

LEMMA BatchInvInit == ASSUME Ver!BatchAssumption, Ver!Init PROVE Ver!Inv
<1>1. batch \in Batches /\ stage = "called" /\ scalars = << >> /\ x_coords = << >> /\ t = 0
  BY DEF Ver!Init
<1>2. Len(batch.Qs) \in Nat
  BY <1>1, BatchFacts
<1>3. Ver!TypeOK
  BY <1>1, <1>2 DEF Ver!TypeOK, Ver!Answers
<1>4. Ver!BatchSaysWhatSinglesSay /\ Ver!OddBatchesRefused
  BY <1>1 DEF Ver!BatchSaysWhatSinglesSay, Ver!OddBatchesRefused, Ver!Answers
<1> QED BY <1>1, <1>3, <1>4 DEF Ver!Inv

\* An answer that says what the signatures would ends the call well.
LEMMA AnswerStep ==
  ASSUME Ver!BatchAssumption, Ver!Inv, NEW a \in Ver!Answers, Ver!Answer(a), Says(batch, a)
  PROVE  Ver!Inv'
<1>1. /\ stage' = a /\ batch' = batch /\ scalars' = scalars /\ x_coords' = x_coords /\ t' = t
      /\ batch \in Batches /\ Ver!TypeOK
      /\ a # "called" /\ a # "terms"
  BY DEF Ver!Answer, Ver!Inv, Ver!Answers
<1>2. Ver!TypeOK'
  BY <1>1 DEF Ver!TypeOK
<1>3. Len(batch.Qs) \in Nat
  BY <1>1, BatchFacts
<1>4. Ver!BatchSaysWhatSinglesSay' /\ Ver!OddBatchesRefused'
  BY <1>1, <1>3, SaysIsNext
<1> QED BY <1>1, <1>2, <1>4 DEF Ver!Inv

LEMMA RaiseStep ==
  ASSUME Ver!BatchAssumption, Ver!Inv, Ver!Raise PROVE Ver!Inv'
<1>1. batch \in Batches /\ ~Ver!Structured /\ Ver!Answer("raised")
  BY DEF Ver!Inv, Ver!Raise
<1>2. PICK i \in 1..Len(batch.Qs) : i <= Len(batch.sigs) /\ ~Ver!Readable(batch.Qs[i])
  BY <1>1 DEF Ver!Structured, Ver!Size
<1>3. ~GoodIn(batch, i)
  BY <1>2 DEF GoodIn, Ver!Accepts
<1>4. BadIn(batch, Len(batch.Qs)) # {}
  BY <1>2, <1>3 DEF BadIn
<1>5. Says(batch, "raised")
  BY <1>4 DEF Says
<1> QED BY <1>1, <1>5, AnswerStep DEF Ver!Answers

LEMMA SingleStep ==
  ASSUME Ver!BatchAssumption, Ver!Inv, Ver!Single PROVE Ver!Inv'
<1>1. /\ batch \in Batches /\ Len(batch.Qs) = 1 /\ Len(batch.msgs) = 1 /\ Len(batch.sigs) = 1
      /\ Ver!Answer(Ver!Verdict(GoodIn(batch, 1)))
  BY DEF Ver!Inv, Ver!Single, Ver!Size, GoodIn
<1>2. SameLengths(batch) /\ Here(batch)
  <2>1. batch.sigs # << >>
    BY <1>1
  <2>2. batch.sigs[1].here
    BY <1>1, <2>1 DEF Ver!BatchAssumption
  <2> QED BY <1>1, <2>2 DEF SameLengths, Here
<1>3. BadIn(batch, 1) = IF GoodIn(batch, 1) THEN {} ELSE {1}
  BY DEF BadIn
<1>4. Says(batch, Ver!Verdict(GoodIn(batch, 1)))
  BY <1>1, <1>2, <1>3 DEF Says, Ver!Verdict
<1>5. Ver!Verdict(GoodIn(batch, 1)) \in Ver!Answers
  BY DEF Ver!Verdict, Ver!Answers
<1> QED BY <1>1, <1>4, <1>5, AnswerStep

LEMMA RefuseStep ==
  ASSUME Ver!BatchAssumption, Ver!Inv, Ver!Refuse PROVE Ver!Inv'
<1>1. /\ batch \in Batches /\ (Len(batch.Qs) = 0 \/ ~Ver!WellFormed)
      /\ Ver!Answer("refused")
  BY DEF Ver!Inv, Ver!Refuse, Ver!Size
<1>2. SUFFICES ASSUME SameLengths(batch), Len(batch.Qs) > 0, Here(batch)
               PROVE  BadIn(batch, Len(batch.Qs)) # {}
  <2>1. ASSUME BadIn(batch, Len(batch.Qs)) # {} \/ ~(SameLengths(batch) /\ Len(batch.Qs) > 0 /\ Here(batch))
        PROVE  Says(batch, "refused")
    BY <2>1 DEF Says
  <2> QED BY <1>1, <2>1, AnswerStep DEF Ver!Answers, Ver!Inv
<1>3. PICK i \in 1..Len(batch.Qs) : ~Ver!ValidSig(batch.sigs[i])
  BY <1>1, <1>2 DEF Ver!WellFormed, Ver!Size, SameLengths, Here
<1>4. ~GoodIn(batch, i)
  BY <1>3 DEF GoodIn, Ver!Accepts
<1> QED BY <1>3, <1>4 DEF BadIn


\* What the loop has at its start.
LEMMA NothingGathered ==
  ASSUME NEW b, NEW ks, NEW xs, Len(ks) = 0, xs = << >>
  PROVE  Gathering(b, 0, ks, xs, 0)
<1>1. Ver!MultiMultXOnly(ks, xs) = INF
  <2>1. Terms(ks, xs, 0)
    BY DEF Terms
  <2> QED BY <2>1, TermsStep DEF Ver!MultiMultXOnly
<1>2. 0 \in 0..(n - 1) /\ 0 % n = 0 /\ Mult(0, G) = INF
  <2>1. n \in Nat \ {0}
    BY Orders
  <2> QED BY <2>1, MultG
<1>3. SumsTo(b, 0, ks, xs, 0)
  BY <1>1, <1>2 DEF SumsTo
<1> QED BY <1>3 DEF Gathering

LEMMA StartStep ==
  ASSUME Ver!BatchAssumption, Ver!Inv, Ver!Start PROVE  Ver!Inv'
<1>1. /\ stage' = "terms" /\ batch' = batch /\ scalars' = scalars /\ x_coords' = x_coords /\ t' = t
      /\ batch \in Batches /\ Ver!TypeOK /\ scalars = << >> /\ x_coords = << >> /\ t = 0
      /\ Ver!Structured /\ Ver!Size > 1 /\ Ver!WellFormed
  BY DEF Ver!Start, Ver!Answer, Ver!Inv
<1>2. Ver!TypeOK'
  BY <1>1 DEF Ver!TypeOK
<1>3. Ver!Structured' /\ (Ver!Size > 1)' /\ Ver!WellFormed'
  BY <1>1 DEF Ver!Structured, Ver!Size, Ver!WellFormed
<1>4. Ver!Gathered(0)'
  <2>1. Gathering(batch, 0, scalars, x_coords, t)
    BY <1>1, NothingGathered
  <2> QED BY <1>1, <2>1, GatheredIs
<1>5. 0 \in 0..Ver!Size'
  <2>1. Len(batch.Qs) \in Nat
    BY <1>1, BatchFacts
  <2> QED BY <1>1, <2>1 DEF Ver!Size
<1>6. Ver!BatchSaysWhatSinglesSay' /\ Ver!OddBatchesRefused'
  BY <1>1 DEF Ver!BatchSaysWhatSinglesSay, Ver!OddBatchesRefused, Ver!Answers
<1> QED BY <1>1, <1>2, <1>3, <1>4, <1>5, <1>6 DEF Ver!Inv

\* Which signature the loop is at.
LEMMA AtItem ==
  ASSUME Ver!BatchAssumption, Ver!Inv, stage = "terms"
  PROVE  \E m \in Nat :
           /\ Gathering(batch, m, scalars, x_coords, t) /\ m <= Len(batch.Qs)
           /\ Len(scalars) = 2 * m /\ Len(x_coords) = 2 * m /\ 1 + Len(scalars) \div 2 = m + 1
           /\ batch \in Batches /\ Len(batch.Qs) \in Nat /\ SameLengths(batch) /\ Here(batch)
           /\ \A i \in 1..Len(batch.Qs) : /\ Ver!ValidSig(batch.sigs[i])
                                          /\ Ver!Readable(batch.Qs[i])
<1>1. batch \in Batches /\ Ver!TypeOK /\ Ver!Structured /\ Ver!WellFormed
  BY DEF Ver!Inv
<1>2. Len(batch.Qs) \in Nat
  BY <1>1, BatchFacts
<1>3. PICK m \in 0..Len(batch.Qs) : Ver!Gathered(m)
  BY DEF Ver!Inv, Ver!Size
<1>4. m \in Nat /\ m <= Len(batch.Qs) /\ Gathering(batch, m, scalars, x_coords, t)
  BY <1>2, <1>3, GatheredIs
<1>5. Len(scalars) = 2 * m /\ Len(x_coords) = 2 * m
  BY <1>1, <1>4 DEF Gathering, Ver!TypeOK
<1>6. 1 + Len(scalars) \div 2 = m + 1
  BY <1>4, <1>5
<1>7. SameLengths(batch) /\ Here(batch) /\ \A i \in 1..Len(batch.Qs) : Ver!ValidSig(batch.sigs[i])
  BY <1>1 DEF Ver!WellFormed, Ver!Size, SameLengths, Here
<1>8. \A i \in 1..Len(batch.Qs) : Ver!Readable(batch.Qs[i])
  BY <1>1, <1>2, <1>7 DEF Ver!Structured, Ver!Size, SameLengths
<1> QED BY <1>1, <1>2, <1>4, <1>5, <1>6, <1>7, <1>8

\* The loop's own checks refuse no signature that verifies.
LEMMA RefusedIsBad ==
  ASSUME Ver!BatchAssumption, NEW b \in Batches, SameLengths(b), NEW i \in 1..Len(b.Qs),
         ~(Ver!TermOK(Ver!XOfKey(b.Qs[i]), b.sigs[i].r) /\ ChallengeIn(b, i) # 0)
  PROVE  ~GoodIn(b, i)
<1> SUFFICES ASSUME GoodIn(b, i) PROVE FALSE
  OBVIOUS
<1>1. Ver!ValidSig(b.sigs[i]) /\ Ver!LiftsInSubgroup(Ver!XOfKey(b.Qs[i]))
  BY DEF GoodIn, Ver!Accepts
<1>2. Ver!XOfKey(b.Qs[i]) \in 0..(p - 1)
  BY <1>1, SameGroup, CoordinatesAssumption DEF Ver!LiftsInSubgroup, IsXCoordinate
<1>3. ChallengeIn(b, i) \in 0..(n - 1)
  BY <1>1, <1>2, ItemFacts DEF SameLengths
<1> QED BY <1>3, AcceptedIsGathered DEF GoodIn, ChallengeIn

\* One turn of the loop, which gathers one signature more.
Turn(b, m, ks, xs, u, rand, ls, ys) ==
  /\ m \in Nat /\ ks \in Seq(1..(n - 1)) /\ xs \in Seq(0..(p - 1)) /\ u \in Int
  /\ Len(ks) = 2 * m /\ Len(xs) = 2 * m /\ Gathering(b, m, ks, xs, u) /\ ItemReady(b, m + 1)
  /\ rand \in 1..(n - 1) /\ TwoMore(ls, ks, rand, (rand * ChallengeIn(b, m + 1)) % n)
  /\ ys \in Seq(0..(p - 1)) /\ TwoMore(ys, xs, b.sigs[m + 1].r, Ver!XOfKey(b.Qs[m + 1]))

LEMMA GatherStep ==
  ASSUME NEW b, NEW m, NEW ks, NEW xs, NEW u, NEW rand, NEW ls, NEW ys,
         Turn(b, m, ks, xs, u, rand, ls, ys)
  PROVE  Gathering(b, m + 1, ls, ys, u + rand * b.sigs[m + 1].s)
<1>0. /\ m \in Nat /\ ks \in Seq(1..(n - 1)) /\ xs \in Seq(0..(p - 1)) /\ u \in Int
      /\ Len(ks) = 2 * m /\ Len(xs) = 2 * m /\ Gathering(b, m, ks, xs, u) /\ ItemReady(b, m + 1)
      /\ rand \in 1..(n - 1) /\ TwoMore(ls, ks, rand, (rand * ChallengeIn(b, m + 1)) % n)
      /\ ys \in Seq(0..(p - 1)) /\ TwoMore(ys, xs, b.sigs[m + 1].r, Ver!XOfKey(b.Qs[m + 1]))
  BY DEF Turn
<1>1. Len(ls) = 2 * (m + 1) /\ Len(ys) = 2 * (m + 1)
  BY <1>0 DEF TwoMore
<1>2. \A i \in 1..(m + 1) : Item(b, ys, i)
  <2> SUFFICES ASSUME NEW i \in 1..(m + 1) PROVE Item(b, ys, i)
    OBVIOUS
  <2>1. CASE i \in 1..m
    <3>1. 2 * i - 1 \in 1..(2 * m) /\ 2 * i \in 1..(2 * m)
      BY <1>0, <2>1
    <3>2. ys[2 * i - 1] = xs[2 * i - 1] /\ ys[2 * i] = xs[2 * i]
      BY <1>0, <3>1 DEF TwoMore
    <3>3. Item(b, xs, i)
      BY <1>0, <2>1 DEF Gathering
    <3> QED BY <1>0, <3>2, <3>3 DEF Item
  <2>2. CASE i = m + 1
    <3>1. 2 * i - 1 = 2 * m + 1 /\ 2 * i = 2 * m + 2
      BY <1>0, <2>2
    <3>2. ys[2 * i - 1] = b.sigs[i].r /\ ys[2 * i] = Ver!XOfKey(b.Qs[i])
      BY <1>0, <2>2, <3>1 DEF TwoMore
    <3>3. Ver!TermOK(Ver!XOfKey(b.Qs[i]), b.sigs[i].r) /\ ChallengeIn(b, i) # 0
      BY <1>0, <2>2, Orders DEF ItemReady
    <3> QED BY <1>0, <3>2, <3>3 DEF Item
  <2> QED BY <1>0, <2>1, <2>2
<1>3. ASSUME Ver!AllLift(ys) PROVE SumsTo(b, m + 1, ls, ys, u + rand * b.sigs[m + 1].s)
  <2>1. \A j \in 1..(2 * m + 2) : IsXCoordinate(ys[j])
    <3> SUFFICES ASSUME NEW j \in 1..(2 * m + 2) PROVE IsXCoordinate(ys[j])
      OBVIOUS
    <3>1. DOMAIN ys = 1..Len(ys) /\ Len(ys) = 2 * m + 2
      BY <1>0, <1>1
    <3>2. Ver!IsXCoordinate(ys[j])
      BY <1>3, <3>1 DEF Ver!AllLift
    <3> QED BY <3>2, SameGroup
  <2>2. \A j \in 1..(2 * m) : IsXCoordinate(xs[j])
    <3> SUFFICES ASSUME NEW j \in 1..(2 * m) PROVE IsXCoordinate(xs[j])
      OBVIOUS
    <3>1. ys[j] = xs[j] /\ j \in 1..(2 * m + 2)
      BY <1>0 DEF TwoMore
    <3> QED BY <1>0, <2>1, <3>1
  <2>3. IsXCoordinate(Ver!XOfKey(b.Qs[m + 1]))
    <3>1. 2 * m + 2 \in 1..(2 * m + 2) /\ ys[2 * m + 2] = Ver!XOfKey(b.Qs[m + 1])
      BY <1>0 DEF TwoMore
    <3> QED BY <1>0, <2>1, <3>1
  <2>4. Ver!AllLift(xs)
    BY <1>0, <2>2, SameGroup DEF Ver!AllLift
  <2>5. SumsTo(b, m, ks, xs, u)
    BY <1>0, <2>4 DEF Gathering
  <2> QED BY <1>0, <2>2, <2>3, <2>5, SumStep
<1> QED BY <1>0, <1>1, <1>2, <1>3 DEF Gathering

LEMMA TermStep ==
  ASSUME Ver!BatchAssumption, Ver!Inv, Ver!Term PROVE Ver!Inv'
<1>1. stage = "terms" /\ Len(scalars) < 2 * Len(batch.Qs) /\ Ver!TypeOK
  BY DEF Ver!Term, Ver!Size, Ver!Inv
<1>2. PICK m \in Nat :
        /\ Gathering(batch, m, scalars, x_coords, t) /\ m <= Len(batch.Qs)
        /\ Len(scalars) = 2 * m /\ Len(x_coords) = 2 * m /\ 1 + Len(scalars) \div 2 = m + 1
        /\ batch \in Batches /\ Len(batch.Qs) \in Nat /\ SameLengths(batch) /\ Here(batch)
        /\ \A i \in 1..Len(batch.Qs) : Ver!ValidSig(batch.sigs[i]) /\ Ver!Readable(batch.Qs[i])
  BY <1>1, AtItem
<1>3. PICK b, ks, xs, u : b = batch /\ ks = scalars /\ xs = x_coords /\ u = t
  OBVIOUS
<1>4. PICK i : i = m + 1
  OBVIOUS
<1>5. i \in 1..Len(b.Qs)
  BY <1>1, <1>2, <1>3, <1>4
<1>6. \/ /\ ~(Ver!TermOK(Ver!XOfKey(b.Qs[i]), b.sigs[i].r) /\ ChallengeIn(b, i) # 0)
         /\ Ver!Answer("refused")
      \/ /\ Ver!TermOK(Ver!XOfKey(b.Qs[i]), b.sigs[i].r) /\ ChallengeIn(b, i) # 0
         /\ \E rand \in Ver!Coefficient(i) :
              /\ scalars' = ks \o <<rand, (rand * ChallengeIn(b, i)) % n>>
              /\ x_coords' = xs \o <<b.sigs[i].r, Ver!XOfKey(b.Qs[i])>>
              /\ t' = u + rand * b.sigs[i].s
              /\ UNCHANGED <<batch, stage>>
  <2>1. Ver!ChallengeOf(i) = ChallengeIn(b, i)
    BY <1>3 DEF Ver!ChallengeOf, ChallengeIn, ChallengeFor
  <2>2. \A rand : /\ Ver!Weighed(i, rand).ks = <<rand, (rand * ChallengeIn(b, i)) % n>>
                  /\ Ver!Weighed(i, rand).t = rand * b.sigs[i].s
    BY <1>3, <2>1 DEF Ver!Weighed
  <2> QED BY <1>2, <1>3, <1>4, <2>1, <2>2 DEF Ver!Term
<1>7. ASSUME ~(Ver!TermOK(Ver!XOfKey(b.Qs[i]), b.sigs[i].r) /\ ChallengeIn(b, i) # 0),
             Ver!Answer("refused")
      PROVE  Ver!Inv'
  <2>1. ~GoodIn(b, i)
    BY <1>2, <1>3, <1>5, <1>7, RefusedIsBad
  <2>2. BadIn(b, Len(b.Qs)) # {}
    BY <1>5, <2>1 DEF BadIn
  <2>3. Says(batch, "refused")
    BY <1>3, <2>2 DEF Says
  <2> QED BY <1>7, <2>3, AnswerStep DEF Ver!Answers
<1>8. ASSUME Ver!TermOK(Ver!XOfKey(b.Qs[i]), b.sigs[i].r), ChallengeIn(b, i) # 0,
             NEW rand \in Ver!Coefficient(i),
             scalars' = ks \o <<rand, (rand * ChallengeIn(b, i)) % n>>,
             x_coords' = xs \o <<b.sigs[i].r, Ver!XOfKey(b.Qs[i])>>,
             t' = u + rand * b.sigs[i].s,
             UNCHANGED <<batch, stage>>
      PROVE  Ver!Inv'
  <2>1. /\ Ver!ValidSig(b.sigs[i]) /\ Ver!Readable(b.Qs[i])
        /\ Ver!XOfKey(b.Qs[i]) \in 0..(p - 1)
    BY <1>2, <1>3, <1>5, <1>8, SameGroup DEF Ver!TermOK
  <2>2. b.sigs[i].s \in Nat /\ b.sigs[i].r \in 0..(p - 1) /\ ChallengeIn(b, i) \in 0..(n - 1)
    BY <1>2, <1>3, <1>5, <2>1, ItemFacts DEF SameLengths
  <2>3. ChallengeIn(b, i) \in 1..(n - 1)
    BY <1>8, <2>2, Orders
  <2>4. ItemReady(b, i)
    BY <1>8, <2>1, <2>3 DEF ItemReady
  <2>5. rand \in 1..(n - 1)
    BY Orders DEF Ver!Coefficient
  <2>6. (rand * ChallengeIn(b, i)) % n \in 1..(n - 1)
    BY <2>3, <2>5, ProductOfScalars
  <2>7. ks \in Seq(1..(n - 1)) /\ xs \in Seq(0..(p - 1)) /\ u \in Nat
    BY <1>1, <1>3, SameGroup DEF Ver!TypeOK
  <2>8. PICK ls, ys, w : ls = scalars' /\ ys = x_coords' /\ w = t'
    OBVIOUS
  <2>9. /\ ls \in Seq(1..(n - 1)) /\ TwoMore(ls, ks, rand, (rand * ChallengeIn(b, i)) % n)
        /\ ys \in Seq(0..(p - 1)) /\ TwoMore(ys, xs, b.sigs[i].r, Ver!XOfKey(b.Qs[i]))
    BY <1>8, <2>1, <2>2, <2>5, <2>6, <2>7, <2>8, ConcatIsTwoMore
  <2>10. Len(ks) = 2 * m /\ Len(xs) = 2 * m /\ Gathering(b, m, ks, xs, u)
    BY <1>2, <1>3
  <2>11. Gathering(b, i, ls, ys, u + rand * b.sigs[i].s)
    <3>1. Turn(b, m, ks, xs, u, rand, ls, ys)
      BY <1>4, <2>4, <2>5, <2>7, <2>9, <2>10 DEF Turn
    <3> QED BY <1>4, <3>1, GatherStep
  <2>12. Ver!Gathered(i)'
    BY <1>3, <1>8, <2>8, <2>11, GatheredIs
  <2>13. Ver!TypeOK'
    <3>1. Len(ls) = 2 * m + 2 /\ Len(ys) = 2 * m + 2 /\ 2 * m + 2 <= 2 * Len(b.Qs)
      BY <1>2, <1>3, <1>4, <1>5, <2>9, <2>10 DEF TwoMore
    <3>2. t' \in Nat
      <4>1. rand \in Nat
        BY <2>5, Orders
      <4>2. \A x, y, z \in Nat : z + x * y \in Nat
        OBVIOUS
      <4> QED BY <1>8, <2>2, <2>7, <4>1, <4>2
    <3> QED BY <1>1, <1>3, <1>8, <2>8, <2>9, <3>1, <3>2, SameGroup DEF Ver!TypeOK
  <2>14. Ver!Structured' /\ (Ver!Size > 1)' /\ Ver!WellFormed' /\ i \in 0..Ver!Size'
    <3>1. Ver!Structured /\ Ver!Size > 1 /\ Ver!WellFormed
      BY <1>1 DEF Ver!Inv
    <3>2. i \in 0..Len(b.Qs)
      BY <1>5
    <3> QED BY <1>3, <1>8, <3>1, <3>2 DEF Ver!Structured, Ver!Size, Ver!WellFormed
  <2>15. Ver!BatchSaysWhatSinglesSay' /\ Ver!OddBatchesRefused'
    BY <1>1, <1>8 DEF Ver!BatchSaysWhatSinglesSay, Ver!OddBatchesRefused, Ver!Answers
  <2>16. batch' \in Batches /\ stage' = "terms"
    BY <1>1, <1>2, <1>8
  <2> QED BY <2>12, <2>13, <2>14, <2>15, <2>16 DEF Ver!Inv
<1> QED BY <1>6, <1>7, <1>8

LEMMA CompareStep ==
  ASSUME Ver!BatchAssumption, Ver!Inv, Ver!Compare PROVE Ver!Inv'
<1>1. /\ stage = "terms" /\ Len(scalars) = 2 * Len(batch.Qs)
      /\ Ver!Answer(Ver!Verdict(Ver!AllLift(x_coords)
                                  /\ Mult(t, G) = Ver!MultiMultXOnly(scalars, x_coords)))
      /\ t \in Nat /\ x_coords \in Seq(0..(p - 1))
  BY SameGroup DEF Ver!Compare, Ver!Size, Ver!Inv, Ver!TypeOK
<1>2. PICK m \in Nat :
        /\ Gathering(batch, m, scalars, x_coords, t) /\ m <= Len(batch.Qs)
        /\ Len(scalars) = 2 * m /\ Len(x_coords) = 2 * m /\ 1 + Len(scalars) \div 2 = m + 1
        /\ batch \in Batches /\ Len(batch.Qs) \in Nat /\ SameLengths(batch) /\ Here(batch)
        /\ \A i \in 1..Len(batch.Qs) : Ver!ValidSig(batch.sigs[i]) /\ Ver!Readable(batch.Qs[i])
  BY <1>1, AtItem
<1>3. PICK b, ks, xs, u, o : b = batch /\ ks = scalars /\ xs = x_coords /\ u = t /\ o = Len(batch.Qs)
  OBVIOUS
<1>4. m = o /\ u \in Int /\ Len(b.Qs) = o
  BY <1>1, <1>2, <1>3
<1>5. Ver!AllLift(xs) => SumsTo(b, o, ks, xs, u)
  BY <1>2, <1>3, <1>4 DEF Gathering
<1>6. PICK v \in BOOLEAN : v <=> Ver!AllLift(xs) /\ Mult(u, G) = Ver!MultiMultXOnly(ks, xs)
  OBVIOUS
<1>7. \A S \in 0..(n - 1) : Mult(u, G) = Mult(S, G) <=> u % n = S
  <2> SUFFICES ASSUME NEW S \in 0..(n - 1) PROVE Mult(u, G) = Mult(S, G) <=> u % n = S
    OBVIOUS
  <2>1. S \in Int /\ S % n = S
    BY ScalarMod
  <2> QED BY <1>4, <2>1, SameMultiple DEF Cong
<1>8. BadIn(b, o) = {} => v
  <2> SUFFICES ASSUME BadIn(b, o) = {} PROVE v
    OBVIOUS
  <2>1. \A i \in 1..o : GoodIn(b, i)
    BY DEF BadIn
  <2>2. \A i \in 1..o : /\ IsXCoordinate(b.sigs[i].r)
                        /\ IsXCoordinate(Ver!XOfKey(b.Qs[i]))
    BY <2>1, SameGroup DEF GoodIn, Ver!Accepts, Ver!ValidSig, Ver!LiftsInSubgroup
  <2>3. Ver!AllLift(xs)
    BY <1>1, <1>2, <1>3, <1>4, <2>2, GatheredLift
  <2>4. PICK S \in 0..(n - 1) : Ver!MultiMultXOnly(ks, xs) = Mult(S, G) /\ u % n = S
    BY <1>5, <2>3 DEF SumsTo
  <2> QED BY <1>6, <1>7, <2>3, <2>4
<1>9. ASSUME NEW i \in 1..o, BadIn(b, o) = {i} PROVE ~v
  <2> SUFFICES ASSUME Ver!AllLift(xs) PROVE Mult(u, G) # Ver!MultiMultXOnly(ks, xs)
    BY <1>6
  <2>1. PICK S \in 0..(n - 1) : Ver!MultiMultXOnly(ks, xs) = Mult(S, G) /\ u % n # S
    BY <1>5, <1>9 DEF SumsTo
  <2> QED BY <1>7, <2>1
<1>10. Ver!Answer(Ver!Verdict(v))
  <2>1. Ver!Verdict(v) = Ver!Verdict(Ver!AllLift(x_coords)
                                       /\ Mult(t, G) = Ver!MultiMultXOnly(scalars, x_coords))
    BY <1>3, <1>6 DEF Ver!Verdict
  <2> QED BY <1>1, <2>1
<1>11. Says(batch, Ver!Verdict(v))
  <2>1. o > 0
    <3>1. Ver!Size > 1
      BY <1>1 DEF Ver!Inv
    <3> QED BY <1>2, <1>3, <3>1 DEF Ver!Size
  <2> QED BY <1>2, <1>3, <1>4, <1>8, <1>9, <2>1 DEF Says, Ver!Verdict
<1>12. Ver!Verdict(v) \in Ver!Answers
  BY DEF Ver!Verdict, Ver!Answers
<1> QED BY <1>10, <1>11, <1>12, AnswerStep

LEMMA BatchInvNext ==
  ASSUME Ver!BatchAssumption, Ver!Inv, [Ver!Next]_Ver!vars PROVE Ver!Inv'
<1>1. CASE Ver!Raise
  BY <1>1, RaiseStep
<1>2. CASE Ver!Single
  BY <1>2, SingleStep
<1>3. CASE Ver!Refuse
  BY <1>3, RefuseStep
<1>4. CASE Ver!Start
  BY <1>4, StartStep
<1>5. CASE Ver!Term
  BY <1>5, TermStep
<1>6. CASE Ver!Compare
  BY <1>6, CompareStep
<1>7. CASE UNCHANGED Ver!vars
  <2>1. /\ batch' = batch /\ stage' = stage /\ scalars' = scalars /\ x_coords' = x_coords /\ t' = t
    BY <1>7 DEF Ver!vars
  <2>2. \A m : Ver!Gathered(m) <=> Ver!Gathered(m)'
    BY <2>1, GatheredIs
  <2>3. batch \in Batches /\ Len(batch.Qs) \in Nat
    BY BatchFacts DEF Ver!Inv
  <2>4. stage \in Ver!Answers => Ver!BatchSaysWhatSinglesSay' /\ Ver!OddBatchesRefused'
    <3>1. stage \in Ver!Answers => Says(batch, stage)
      BY <2>3, SaysIs DEF Ver!Inv
    <3> QED BY <2>1, <2>3, <3>1, SaysIsNext
  <2>5. stage \notin Ver!Answers => Ver!BatchSaysWhatSinglesSay' /\ Ver!OddBatchesRefused'
    BY <2>1 DEF Ver!BatchSaysWhatSinglesSay, Ver!OddBatchesRefused, Ver!Answers
  <2> QED BY <2>1, <2>2, <2>4, <2>5
          DEF Ver!Inv, Ver!TypeOK, Ver!Structured, Ver!Size, Ver!WellFormed
<1> QED BY <1>1, <1>2, <1>3, <1>4, <1>5, <1>6, <1>7 DEF Ver!Next

\* In every state of a call of batch_verify_, its loop has gathered what the
\* signatures behind it say, and an answer is what they would be one by one.
THEOREM BatchInvariant == Ver!BatchAssumption => (Ver!Spec => []Ver!Inv)
<1> SUFFICES ASSUME Ver!BatchAssumption PROVE Ver!Spec => []Ver!Inv
  OBVIOUS
<1>1. Ver!Init => Ver!Inv
  BY BatchInvInit
<1>2. Ver!Inv /\ [Ver!Next]_Ver!vars => Ver!Inv'
  BY BatchInvNext
<1> QED BY <1>1, <1>2, PTL DEF Ver!Spec

\* What a batch says is what its signatures would say one by one where at most
\* one of them is bad, whatever coefficients are drawn; and a batch that cannot
\* be compared is refused (batch_verify_).
THEOREM BatchesSayWhatSinglesSay ==
  Ver!BatchAssumption
    => (Ver!Spec => [](Ver!BatchSaysWhatSinglesSay /\ Ver!OddBatchesRefused))
<1> SUFFICES ASSUME Ver!BatchAssumption
             PROVE  Ver!Spec => [](Ver!BatchSaysWhatSinglesSay /\ Ver!OddBatchesRefused)
  OBVIOUS
<1>1. Ver!Spec => []Ver!Inv
  BY BatchInvariant
<1>2. Ver!Inv => Ver!BatchSaysWhatSinglesSay /\ Ver!OddBatchesRefused
  BY DEF Ver!Inv
<1> QED BY <1>1, <1>2, PTL

-----------------------------------------------------------------------------
(* More than one bad signature, and the key of a signature                 *)

\* Two coefficients never both make up for a bad signature.
LEMMA TwoCoefficients ==
  ASSUME NEW a \in 1..(n - 1), NEW b \in 1..(n - 1), a > b,
         NEW u \in Int, NEW S \in Int, NEW s \in Int, NEW f \in Int,
         Cong(n, u + a * s, S + a * f), Cong(n, u + b * s, S + b * f)
  PROVE  Cong(n, s, f)
<1>1. PICK d, x, y : d = a - b /\ x = u + b * s /\ y = S + b * f
  OBVIOUS
<1>2. a \in Int /\ b \in Int /\ d \in 1..(n - 1)
  BY <1>1, Orders
<1>3. x \in Int /\ y \in Int
  BY <1>1, <1>2
<1>4. \A z \in Int : a * z = b * z + d * z
  BY <1>1, <1>2
<1>5. u + a * s = x + d * s /\ S + a * f = y + d * f
  <2>1. \A v, z \in Int : v + a * z = (v + b * z) + d * z
    <3> SUFFICES ASSUME NEW v \in Int, NEW z \in Int PROVE v + a * z = (v + b * z) + d * z
      OBVIOUS
    <3>1. PICK g, e : g = b * z /\ e = d * z
      OBVIOUS
    <3>2. g \in Int /\ e \in Int /\ a * z = g + e
      BY <1>1, <1>2, <1>4, <3>1
    <3>3. v + (g + e) = (v + g) + e
      BY <3>2
    <3> QED BY <3>1, <3>2, <3>3
  <2> QED BY <1>1, <2>1
<1>6. Cong(n, x, y) /\ Cong(n, x + d * s, y + d * f)
  BY <1>1, <1>5
<1> QED BY <1>2, <1>3, <1>6, Weighing

\* What is one thing at most.
LEMMA OneAtMost ==
  ASSUME NEW m \in Int, NEW F \in SUBSET (1..m), \A a, b \in F : ~(a > b)
  PROVE  Cardinality(F) <= 1
<1>1. IsFiniteSet(F)
  <2>1. IsFiniteSet(1..m)
    BY FS_Interval
  <2> QED BY <2>1, FS_Subset
<1>2. CASE F = {}
  BY <1>2, FS_EmptySet
<1>3. CASE F # {}
  <2>1. PICK a \in F : TRUE
    BY <1>3
  <2>2. F = {a}
    <3>1. \A b \in F : b = a
      <4> SUFFICES ASSUME NEW b \in F PROVE b = a
        OBVIOUS
      <4>1. a \in Int /\ b \in Int /\ ~(a > b) /\ ~(b > a)
        BY <2>1
      <4> QED BY <4>1
    <3> QED BY <2>1, <3>1
  <2>3. Cardinality(F) = 1
    BY <2>2, FS_Singleton
  <2> QED BY <2>3
<1> QED BY <1>2, <1>3

\* What is compared at the end of the loop, of its last coefficient.
LEMMA LastDraw ==
  ASSUME Ver!BatchAssumption, Ver!Inv, Ver!AtLastDraw, Ver!ChallengeOf(Ver!Size) # 0,
         ~Ver!Good(Ver!Size)
  PROVE  \E S, s, f \in Int :
           /\ ~Cong(n, s, f)
           /\ \A rand \in 1..(n - 1) :
                Ver!FooledBy(rand) => Cong(n, t + rand * s, S + rand * f)
<1>1. /\ stage = "terms" /\ Len(batch.Qs) > 1 /\ Len(scalars) = 2 * (Len(batch.Qs) - 1)
      /\ \A i \in 1..Len(batch.Qs) : /\ IsXCoordinate(Ver!XOfKey(batch.Qs[i]))
                                     /\ Ver!TermOK(Ver!XOfKey(batch.Qs[i]), batch.sigs[i].r)
      /\ Ver!TypeOK
  BY SameGroup DEF Ver!AtLastDraw, Ver!Size, Ver!Items, Ver!Inv
<1>2. PICK m \in Nat :
        /\ Gathering(batch, m, scalars, x_coords, t) /\ m <= Len(batch.Qs)
        /\ Len(scalars) = 2 * m /\ Len(x_coords) = 2 * m /\ 1 + Len(scalars) \div 2 = m + 1
        /\ batch \in Batches /\ Len(batch.Qs) \in Nat /\ SameLengths(batch) /\ Here(batch)
        /\ \A i \in 1..Len(batch.Qs) : Ver!ValidSig(batch.sigs[i]) /\ Ver!Readable(batch.Qs[i])
  BY <1>1, AtItem
<1>3. PICK b, ks, xs, u, i : b = batch /\ ks = scalars /\ xs = x_coords /\ u = t /\ i = Len(batch.Qs)
  OBVIOUS
<1>4. i = m + 1 /\ i \in 1..Len(b.Qs) /\ m <= i
  BY <1>1, <1>2, <1>3
<1>5. ks \in Seq(1..(n - 1)) /\ xs \in Seq(0..(p - 1)) /\ u \in Int
  BY <1>1, <1>3, SameGroup DEF Ver!TypeOK
<1>6. \A j \in 1..i : /\ IsXCoordinate(b.sigs[j].r)
                      /\ IsXCoordinate(Ver!XOfKey(b.Qs[j]))
  BY <1>1, <1>2, <1>3, SameGroup DEF Ver!ValidSig
<1>7. Ver!AllLift(xs)
  <2>1. \A j \in 1..m : j \in 1..i
    BY <1>4
  <2> QED BY <1>2, <1>3, <1>5, <1>6, <2>1, GatheredLift
<1>8. PICK S \in 0..(n - 1) : Ver!MultiMultXOnly(ks, xs) = Mult(S, G)
  BY <1>2, <1>3, <1>7 DEF Gathering, SumsTo
<1>9. PICK r, s, x, c : r = b.sigs[i].r /\ s = b.sigs[i].s /\ x = Ver!XOfKey(b.Qs[i]) /\ c = ChallengeIn(b, i)
  OBVIOUS
<1>10. ItemReady(b, i)
  <2>1. Ver!ValidSig(b.sigs[i]) /\ Ver!Readable(b.Qs[i]) /\ Ver!TermOK(Ver!XOfKey(b.Qs[i]), b.sigs[i].r)
    BY <1>1, <1>2, <1>3, <1>4
  <2>2. ChallengeIn(b, i) # 0
    BY <1>3 DEF Ver!ChallengeOf, Ver!Size, ChallengeIn, ChallengeFor
  <2>3. Ver!XOfKey(b.Qs[i]) \in 0..(p - 1)
    BY <2>1, SameGroup DEF Ver!TermOK
  <2>4. ChallengeIn(b, i) \in 0..(n - 1)
    BY <1>2, <1>3, <1>4, <2>1, <2>3, ItemFacts DEF SameLengths
  <2>5. ChallengeIn(b, i) \in 1..(n - 1)
    BY <2>2, <2>4, Orders
  <2> QED BY <2>1, <2>5 DEF ItemReady
<1>11. PICK q, k : /\ Logs(x, r, q, k)
                   /\ GoodIn(b, i) <=> Cong(n, s, k + c * q)
  <2>1. IsXCoordinate(Ver!XOfKey(b.Qs[i]))
    BY <1>4, <1>6
  <2> QED BY <1>9, <1>10, <2>1, LogsOfItem
<1>12. /\ q \in 1..(n - 1) /\ Lift(x, 0) = Mult(q, G)
       /\ k \in 1..(n - 1) /\ Lift(r, 0) = Mult(k, G)
  BY <1>11 DEF Logs
<1>13. c \in 1..(n - 1) /\ IsXCoordinate(r) /\ IsXCoordinate(x) /\ s \in Int
  <2>1. i \in 1..i
    BY <1>4
  <2>2. s \in Int
    BY <1>9, <1>10, SameGroup DEF ItemReady, Ver!ValidSig
  <2> QED BY <1>6, <1>9, <1>10, <2>1, <2>2 DEF ItemReady
<1>14. PICK f : f = k + c * q
  OBVIOUS
<1>15. f \in Int
  <2>1. c \in Int /\ k \in Int /\ q \in Int
    BY <1>12, <1>13, Orders
  <2> QED BY <1>14, <2>1
<1>16. ~Cong(n, s, f)
  BY <1>3, <1>11, <1>14 DEF Ver!Good, Ver!Size, GoodIn
<1>17. ASSUME NEW rand \in 1..(n - 1), Ver!FooledBy(rand)
       PROVE  Cong(n, u + rand * s, S + rand * f)
  <2>1. PICK d : d = (rand * c) % n
    OBVIOUS
  <2>2. d \in 1..(n - 1)
    BY <1>13, <2>1, ProductOfScalars
  <2>3. PICK ls, ys : ls = ks \o <<rand, d>> /\ ys = xs \o <<r, x>>
    OBVIOUS
  <2>4. Mult(u + rand * s, G) = Ver!MultiMultXOnly(ls, ys)
    <3>1. Ver!ChallengeOf(i) = c /\ Ver!Size = i
      BY <1>3, <1>9 DEF Ver!ChallengeOf, Ver!Size, ChallengeIn, ChallengeFor
    <3>2. Ver!Weighed(i, rand).ks = <<rand, d>> /\ Ver!Weighed(i, rand).t = rand * s
      BY <1>3, <1>9, <2>1, <3>1 DEF Ver!Weighed
    <3> QED BY <1>3, <1>9, <1>17, <2>3, <3>1, <3>2, SameGroup DEF Ver!FooledBy
  <2>5. TwoMore(ls, ks, rand, d) /\ TwoMore(ys, xs, r, x)
    <3>1. r \in 0..(p - 1) /\ x \in 0..(p - 1)
      BY <1>13, CoordinatesAssumption DEF IsXCoordinate
    <3> QED BY <1>5, <2>2, <2>3, <3>1, ConcatIsTwoMore
  <2>6. PICK o : o = 2 * m
    OBVIOUS
  <2>7. o \in Nat /\ Len(ks) = o /\ Lifting(xs, o)
    BY <1>2, <1>3, <1>5, <1>7, <2>6, SameGroup DEF Lifting, Ver!AllLift
  <2>8. TwoTermsMore(ls, ys, ks, xs, o, rand, d, r, x)
    BY <1>5, <1>13, <2>2, <2>5, <2>7 DEF TwoTermsMore
  <2>9. AddsTheTerms(ls, ys, ks, xs, rand, d, r, x)
    BY <2>8, SumOfTwoMore
  <2>10. Ver!MultiMultXOnly(ls, ys) = Add(Add(Mult(S, G), Mult(rand, Mult(k, G))), Mult(d, Mult(q, G)))
    BY <1>8, <1>12, <2>9 DEF AddsTheTerms
  <2>11. PICK E \in Int : Ver!MultiMultXOnly(ls, ys) = Mult(E, G) /\ Cong(n, E, S + rand * f)
    <3>1. S \in Int
      BY Orders
    <3> QED BY <1>12, <1>13, <1>14, <2>1, <2>10, <3>1, TermSum
  <2>12. Cong(n, u + rand * s, E)
    <3>1. u + rand * s \in Int
      <4>1. rand \in Int
        BY Orders
      <4> QED BY <1>5, <1>13, <4>1
    <3> QED BY <2>4, <2>11, <3>1, SameMultiple
  <2> QED BY <2>11, <2>12, CongTrans
<1>18. S \in Int
  BY Orders
<1> QED BY <1>3, <1>13, <1>15, <1>16, <1>17, <1>18

\* At most one of the n - 1 values the last coefficient may take lets bad
\* signatures make up for one another.
THEOREM OneCoefficientAtMost ==
  Ver!BatchAssumption => (Ver!Spec => []Ver!OneCoefficientFools)
<1> SUFFICES ASSUME Ver!BatchAssumption PROVE Ver!Spec => []Ver!OneCoefficientFools
  OBVIOUS
<1>1. Ver!Spec => []Ver!Inv
  BY BatchInvariant
<1>2. ASSUME Ver!Inv PROVE Ver!OneCoefficientFools
  <2> SUFFICES ASSUME Ver!AtLastDraw, ~Ver!Good(Ver!Size)
               PROVE  Cardinality({rand \in Ver!Coefficient(Ver!Size) : Ver!FooledBy(rand)}) <= 1
    BY SameCardinality DEF Ver!OneCoefficientFools
  <2>1. Ver!Coefficient(Ver!Size) = 1..(n - 1) /\ n - 1 \in Int
    BY Orders DEF Ver!AtLastDraw, Ver!Coefficient
  <2>2. PICK F : F = {rand \in 1..(n - 1) : Ver!FooledBy(rand)}
    OBVIOUS
  <2>3. F \in SUBSET (1..(n - 1)) /\ \A rand \in F : Ver!FooledBy(rand)
    BY <2>2
  <2>4. CASE Ver!ChallengeOf(Ver!Size) # 0
    <3>1. PICK S \in Int, s \in Int, f \in Int :
            /\ ~Cong(n, s, f)
            /\ \A rand \in 1..(n - 1) :
                 Ver!FooledBy(rand) => Cong(n, t + rand * s, S + rand * f)
      BY <1>2, <2>4, LastDraw
    <3>2. t \in Int
      BY <1>2 DEF Ver!Inv, Ver!TypeOK
    <3>3. \A a, b \in F : ~(a > b)
      <4> SUFFICES ASSUME NEW a \in F, NEW b \in F, a > b PROVE FALSE
        OBVIOUS
      <4>1. /\ a \in 1..(n - 1) /\ b \in 1..(n - 1)
            /\ Cong(n, t + a * s, S + a * f) /\ Cong(n, t + b * s, S + b * f)
        BY <2>3, <3>1
      <4> QED BY <3>1, <3>2, <4>1, TwoCoefficients
    <3> QED BY <2>1, <2>2, <2>3, <3>3, OneAtMost
  <2>5. CASE Ver!ChallengeOf(Ver!Size) = 0
    <3>1. F = {}
      BY <2>3, <2>5 DEF Ver!FooledBy
    <3> QED BY <2>1, <2>2, <3>1, FS_EmptySet
  <2> QED BY <2>4, <2>5
<1> QED BY <1>1, <1>2, PTL

\* The signature's equation, solved for the key.
LEMMA SolvedForKey ==
  ASSUME NEW c \in 1..(n - 1), NEW q \in 1..(n - 1), NEW k \in 1..(n - 1), NEW s \in Int,
         Cong(n, s, k + c * q)
  PROVE  Cong(n, (n - ModInv(c)) * k + ModInv(c) * s, q)
<1>1. PICK i : i = ModInv(c)
  OBVIOUS
<1>2. /\ i \in Int /\ (c * i) % n = 1 /\ n \in Nat \ {0} /\ 1 % n = 1
      /\ c \in Int /\ q \in Int /\ k \in Int
  <2>1. n \in Nat \ {0} /\ n > 2 /\ c \in Int /\ q \in Int /\ k \in Int
    BY Orders
  <2>2. i \in Int /\ (c * i) % n = 1
    BY <1>1, <2>1, ModInvIsInverse
  <2> QED BY <2>1, <2>2
<1>3. PICK x, y, z : x = i * k /\ y = i * s /\ z = (c * i) * q
  OBVIOUS
<1>4. x \in Int /\ y \in Int /\ z \in Int /\ c * i \in Int /\ c * q \in Int
  BY <1>2, <1>3
<1>5. Cong(n, y, x + z)
  <2>1. Cong(n, i * s, i * (k + c * q))
    <3>1. Cong(n, i, i) /\ k + c * q \in Int
      BY <1>2, <1>4 DEF Cong
    <3> QED BY <1>2, <3>1, CongMul
  <2>2. i * (k + c * q) = x + z
    <3>1. \A v, w \in Int : i * (v + w) = i * v + i * w
      BY <1>2
    <3>2. i * (c * q) = (c * i) * q
      BY <1>2
    <3> QED BY <1>2, <1>3, <1>4, <3>1, <3>2
  <2> QED BY <1>3, <2>1, <2>2
<1>6. Cong(n, z, q)
  <2>1. Cong(n, c * i, 1) /\ Cong(n, q, q) /\ 1 * q = q
    BY <1>2 DEF Cong
  <2>2. PICK e : e = c * i
    OBVIOUS
  <2>3. Cong(n, e * q, 1 * q)
    <3>1. e \in Int /\ 1 \in Int /\ Cong(n, e, 1)
      BY <1>4, <2>1, <2>2
    <3> QED BY <1>2, <2>1, <3>1, CongMul
  <2> QED BY <1>3, <2>1, <2>2, <2>3
<1>7. Cong(n, (n - i) * k, -x)
  <2>1. (n - i) * k = -x + n * k
    BY <1>2, <1>3
  <2>2. (n - i) * k \in Int /\ -x \in Int
    BY <1>2, <1>4
  <2> QED BY <1>2, <2>1, <2>2, CongShift
<1>8. Cong(n, (n - i) * k + y, -x + (x + z))
  <2>1. (n - i) * k \in Int /\ -x \in Int /\ x + z \in Int
    BY <1>2, <1>4
  <2> QED BY <1>2, <1>4, <1>5, <1>7, <2>1, CongAdd
<1>9. -x + (x + z) = z
  BY <1>4
<1> QED BY <1>1, <1>3, <1>6, <1>8, <1>9, CongTrans

\* The key recovered from a signature that verifies is the one it is under.
LEMMA RecoversSigner ==
  ASSUME NEW msg, NEW Q, NEW sg, Ver!Accepts(msg, Q, sg), ChallengeFor(msg, Q, sg) \in 0..(n - 1)
  PROVE  Ver!RecoverPubKey(ChallengeFor(msg, Q, sg), sg.r, sg.s) = {Ver!XOfKey(Q)}
<1>1. PICK x, r, s, c : x = Ver!XOfKey(Q) /\ r = sg.r /\ s = sg.s /\ c = ChallengeFor(msg, Q, sg)
  OBVIOUS
<1>2. /\ Ver!ValidSig(sg) /\ Ver!Readable(Q) /\ IsXCoordinate(x) /\ IsXCoordinate(r)
      /\ Ver!TermOK(x, r) /\ c \in 1..(n - 1)
  BY <1>1, AcceptedIsGathered
<1>3. PICK q, k : Logs(x, r, q, k) /\ Cong(n, s, k + c * q)
  BY <1>1, <1>2, AcceptsIs
<1>4. /\ q \in 1..(n - 1) /\ Lift(x, 0) = Mult(q, G)
      /\ k \in 1..(n - 1) /\ Lift(r, 0) = Mult(k, G) /\ s \in Int
  BY <1>1, <1>2, <1>3, SameGroup DEF Logs, Ver!ValidSig
<1>5. Ver!LiftsInSubgroup(r) /\ Ver!EvenPoint(r) = Mult(k, G)
  <2>1. InSubgroup(Mult(k, G))
    BY <1>4, MultGIsPubKey DEF PubKey
  <2> QED BY <1>2, <1>4, <2>1, SameGroup DEF Ver!LiftsInSubgroup
<1>6. PICK i : i = ModInv(c)
  OBVIOUS
<1>7. i \in Int /\ n - i \in Int /\ k \in Int /\ i * s \in Int /\ (n - i) * k \in Int /\ q \in Int
  <2>1. i \in Int /\ n \in Int /\ k \in Int /\ q \in Int
    BY <1>2, <1>4, <1>6, ModInvIsInverse, Orders
  <2> QED BY <1>4, <2>1
<1>8. Add(Mult(n - i, Mult(k, G)), Mult(i * s, G)) = Mult(q, G)
  <2>1. Mult(n - i, Mult(k, G)) = Mult((n - i) * k, G)
    BY <1>7, MultipleOfMultiple
  <2>2. Add(Mult((n - i) * k, G), Mult(i * s, G)) = Mult((n - i) * k + i * s, G)
    BY <1>7, SumOfMultiples
  <2>3. Cong(n, (n - i) * k + i * s, q)
    BY <1>2, <1>3, <1>4, <1>6, SolvedForKey
  <2>4. (n - i) * k + i * s \in Int
    BY <1>7
  <2> QED BY <1>7, <2>1, <2>2, <2>3, <2>4, CongMult
<1>9. Mult(q, G) # INF /\ XOf[Mult(q, G)] = x
  <2>1. Lift(x, 0) \in Finite /\ XOf[Lift(x, 0)] = x
    BY <1>2, Lifted
  <2> QED BY <1>4, <2>1 DEF Finite, INF
<1>10. c # 0
  BY <1>2
<1>11. Ver!RecoverPubKey(c, r, s) = {x}
  <2>1. Ver!Add(Ver!Mult(n - Ver!ModInv(c), Ver!EvenPoint(r)), Ver!Mult(Ver!ModInv(c) * s, Ver!G)) = Mult(q, G)
    BY <1>5, <1>6, <1>8, SameGroup
  <2> QED BY <1>5, <1>9, <1>10, <2>1, SameGroup DEF Ver!RecoverPubKey
<1> QED BY <1>1, <1>11

\* The key recovered from any signature of a batch that verifies is the
\* signer's (_recover_pub_key_).
THEOREM SignersKeyIsRecovered ==
  Ver!BatchAssumption => (Ver!Spec => []Ver!RecoveredKeyIsTheSigners)
<1> SUFFICES ASSUME Ver!BatchAssumption PROVE Ver!Spec => []Ver!RecoveredKeyIsTheSigners
  OBVIOUS
<1>1. Ver!Spec => []Ver!Inv
  BY BatchInvariant
<1>2. ASSUME Ver!Inv PROVE Ver!RecoveredKeyIsTheSigners
  <2>1. PICK b : b = batch
    OBVIOUS
  <2>2. b \in Batches
    BY <1>2, <2>1 DEF Ver!Inv
  <2>3. SUFFICES ASSUME SameLengths(b), NEW i \in 1..Len(b.Qs), GoodIn(b, i)
                 PROVE  Ver!RecoverPubKey(ChallengeIn(b, i), b.sigs[i].r, b.sigs[i].s)
                          = {Ver!XOfKey(b.Qs[i])}
    BY <2>1 DEF Ver!RecoveredKeyIsTheSigners, Ver!Aligned, Ver!Size, Ver!Items, Ver!Good,
                SameLengths, GoodIn, ChallengeIn, ChallengeFor
  <2>4. Ver!ValidSig(b.sigs[i]) /\ Ver!LiftsInSubgroup(Ver!XOfKey(b.Qs[i]))
    BY <2>3 DEF GoodIn, Ver!Accepts
  <2>5. Ver!XOfKey(b.Qs[i]) \in 0..(p - 1)
    BY <2>4, SameGroup, CoordinatesAssumption DEF Ver!LiftsInSubgroup, IsXCoordinate
  <2>6. ChallengeIn(b, i) \in 0..(n - 1)
    BY <2>2, <2>3, <2>4, <2>5, ItemFacts DEF SameLengths
  <2> QED BY <2>3, <2>6, RecoversSigner DEF GoodIn, ChallengeIn
<1> QED BY <1>1, <1>2, PTL
=============================================================================
