-------------------------- MODULE AntiExfilProofs --------------------------
(***************************************************************************)
(* Sign-to-contract and the anti-exfil exchange keep their promises for    *)
(* every curve of cofactor 1, in both schemes, whatever the hashes: for an *)
(* honest device, for a cheating one, and for every number of calls and of *)
(* restarts.                                                               *)
(***************************************************************************)
EXTENDS AntiExfil, ArithmeticLemmas

-----------------------------------------------------------------------------
(* The group, of cofactor 1                                                *)

\* Every point is a multiple of G, and is named by the scalar.
LEMMA Sizes ==
  ASSUME AntiExfilAssumption
  PROVE  /\ n \in Nat \ {0} /\ n > 2 /\ h = 1 /\ N = n /\ G = 1
         /\ Point = Scalar /\ Finite = 1..(n - 1) /\ p \in Nat
<1>1. n \in Nat \ {0} /\ n > 2 /\ h = 1 /\ N = n * h
  BY GroupAssumption DEF AntiExfilAssumption, N
<1>2. N = n
  BY <1>1
<1> QED BY <1>1, <1>2, GroupAssumption DEF Point, Scalar, Finite, G

\* The multiples of G.
LEMMA Multiples ==
  ASSUME AntiExfilAssumption, NEW k \in Int
  PROVE  Mult(k, G) = k % n /\ Mult(k, G) \in Scalar /\ Mult(k, G) \in Int
<1> DEFINE r == k % n
<1>1. r \in 0..(n - 1) /\ n \in Nat \ {0} /\ N = n /\ G = 1
  BY Sizes, ModRange
<1>2. Mult(k, G) = (r * 1) % n
  BY <1>1 DEF Mult
<1> HIDE DEF r
<1>3. (r * 1) % n = r
  BY <1>1
<1> QED BY <1>1, <1>2, <1>3 DEF r, Scalar

LEMMA MultiplesInRange ==
  ASSUME AntiExfilAssumption, NEW k \in 1..(n - 1)
  PROVE  Mult(k, G) = k /\ Mult(k, G) \in Finite /\ Mult(k, G) # INF
<1>1. k \in Int /\ k % n = k /\ k # 0
  BY Sizes
<1>2. Mult(k, G) = k
  BY <1>1, Multiples
<1> QED BY <1>1, <1>2, Sizes DEF INF

\* Congruent multiples are the same point.
LEMMA CongMult ==
  ASSUME AntiExfilAssumption, NEW x \in Int, NEW y \in Int, Cong(n, x, y)
  PROVE  Mult(x, G) = Mult(y, G)
BY Multiples DEF Cong

\* a*(q*G) + b*G is (a*q + b)*G.
LEMMA DoubleMult ==
  ASSUME AntiExfilAssumption, NEW e \in Int, NEW f \in Int, NEW q \in Int
  PROVE  /\ Add(Mult(e, Mult(q, G)), Mult(f, G)) = Mult(e * q + f, G)
         /\ Add(Mult(f, G), Mult(e, Mult(q, G))) = Mult(e * q + f, G)
<1> DEFINE u == e % n
           v == q % n
           w == f % n
           y == (u * v) % n
           z == e * q + f
<1>1. n \in Nat \ {0} /\ N = n
  BY Sizes
<1>2. u \in Int /\ v \in Int /\ w \in Int /\ Cong(n, u, e) /\ Cong(n, v, q) /\ Cong(n, w, f)
  BY <1>1, CongMod
<1>3. Mult(e, Mult(q, G)) = y /\ Mult(f, G) = w
  BY <1>1, Multiples DEF Mult
<1> HIDE DEF u, v, w
<1>4. u * v \in Int /\ e * q \in Int /\ z \in Int
  BY <1>2
<1>5. y \in Int /\ Cong(n, y, u * v)
  BY <1>1, <1>4, CongMod
<1>6. Cong(n, u * v, e * q)
  BY <1>1, <1>2, CongMul
<1> HIDE DEF y
<1>7. Cong(n, y, e * q)
  BY <1>5, <1>6, CongTrans
<1>8. Cong(n, y + w, z)
  BY <1>1, <1>2, <1>4, <1>5, <1>7, CongAdd
<1> HIDE DEF z
<1>9. Mult(z, G) = z % n /\ y + w = w + y
  BY <1>2, <1>4, <1>5, Multiples
<1> QED BY <1>1, <1>3, <1>8, <1>9 DEF Add, Cong, z

\* The inverse of a scalar is one.
LEMMA ModInvIsInverse ==
  ASSUME NEW k \in 1..(n - 1)
  PROVE  ModInv(k) \in 1..(n - 1) /\ (k * ModInv(k)) % n = 1
<1>1. \E i \in 1..(n - 1) : (k * i) % n = 1
  BY PrimeAssumption
<1>2. ModInv(k) = CHOOSE i \in 1..(n - 1) : (k * i) % n = 1
  BY DEF ModInv, Inverses
<1> QED BY <1>1, <1>2

\* Opposite multiples of G have one x-coordinate.
LEMMA OppositeMult ==
  ASSUME AntiExfilAssumption, NEW k \in 1..(n - 1)
  PROVE  /\ n - k \in 1..(n - 1)
         /\ Mult(n - k, G) = N - Mult(k, G)
         /\ Mult(k, G) \in Finite /\ Mult(n - k, G) \in Finite
         /\ XOf[Mult(n - k, G)] = XOf[Mult(k, G)]
<1>1. n \in Nat /\ N = n /\ n - k \in 1..(n - 1)
  BY Sizes
<1>2. Mult(k, G) = k /\ Mult(n - k, G) = n - k
  BY <1>1, MultiplesInRange
<1>3. Mult(k, G) \in Finite /\ Mult(n - k, G) \in Finite
  BY <1>1, MultiplesInRange
<1> QED BY <1>1, <1>2, <1>3, CoordinatesAssumption

\* What dsa verifies is the point of the nonce.
LEMMA VerifiedMult ==
  ASSUME AntiExfilAssumption, NEW c \in Int, NEW q \in Int, NEW k \in Int, NEW r \in Int,
         NEW s \in 1..(n - 1), Cong(n, c + r * q, k * s)
  PROVE  Add(Mult(r * ModInv(s), Mult(q, G)), Mult(c * ModInv(s), G)) = Mult(k, G)
<1> DEFINE w == ModInv(s)
           e == r * w
           f == c * w
<1>1. n \in Nat \ {0} /\ n > 1 /\ s \in Int
  BY Sizes
<1>2. w \in Int /\ (s * w) % n = 1
  BY <1>1, ModInvIsInverse
<1> HIDE DEF w
<1>3. Cong(n, (r * w) * q + c * w, k)
  BY <1>1, <1>2, VerifiedCong
<1>4. e \in Int /\ f \in Int /\ e * q + f \in Int
  BY <1>2
<1>5. Add(Mult(e, Mult(q, G)), Mult(f, G)) = Mult(e * q + f, G)
  BY <1>4, DoubleMult
<1>6. Mult(e * q + f, G) = Mult(k, G)
  BY <1>3, <1>4, CongMult
<1> QED BY <1>5, <1>6 DEF w

\* The even one of two opposite points has the x-coordinate of both.
LEMMA EvenKeyIsEven ==
  ASSUME AntiExfilAssumption, NEW k \in 1..(n - 1)
  PROVE  /\ EvenKey(k) \in 1..(n - 1)
         /\ Mult(EvenKey(k), G) \notin OddY
         /\ XOf[Mult(EvenKey(k), G)] = XOf[Mult(k, G)]
<1> DEFINE P == Mult(k, G)
<1>1. /\ n - k \in 1..(n - 1) /\ Mult(n - k, G) = N - P
      /\ P \in Finite /\ XOf[Mult(n - k, G)] = XOf[P]
  BY OppositeMult
<1>2. IF N - P = P THEN P \notin OddY ELSE P \in OddY <=> (N - P) \notin OddY
  BY <1>1, CoordinatesAssumption
<1> QED BY <1>1, <1>2 DEF EvenKey

LEMMA KeyInRange ==
  ASSUME AntiExfilAssumption
  PROVE  Key \in 1..(n - 1)
<1>1. prvKey \in 1..(n - 1)
  BY DEF AntiExfilAssumption
<1> QED BY <1>1, EvenKeyIsEven DEF Key

\* The nonce of a derivation is one to sign with, and even where it must be.
Usable(k) == k \in 1..(n - 1) /\ (Scheme = "ssa" => Mult(k, G) \notin OddY)

LEMMA NonceIsUsable ==
  ASSUME AntiExfilAssumption, NEW msg \in Msg, NEW input \in Input
  PROVE  Usable(NonceOf(msg, input))
<1>1. NonceHash[msg, input] \in 1..(n - 1)
  BY DEF AntiExfilAssumption
<1> QED BY <1>1, EvenKeyIsEven DEF NonceOf, Usable, AntiExfilAssumption

\* The coordinate of a point is one the challenges are of.
LEMMA RawRType ==
  ASSUME AntiExfilAssumption, NEW K \in Finite
  PROVE  /\ RawR(K) = IF Scheme = "dsa" THEN XOf[K] % n ELSE XOf[K]
         /\ RawR(K) \in 0..(p - 1)
         /\ Scheme = "dsa" => RawR(K) \in 0..(n - 1)
<1>1. XOf[K] \in 0..(p - 1) /\ p \in Nat /\ n \in Nat \ {0} /\ K # INF
  BY CoordinatesAssumption, Sizes DEF Finite, INF
<1> DEFINE x == XOf[K]
<1>2. x \in Nat /\ x <= p - 1
  BY <1>1
<1> HIDE DEF x
<1>3. x % n \in 0..(n - 1)
  BY <1>1, <1>2, ModRange
<1>4. x < n => x % n = x
  BY <1>1, <1>2
<1>5. x % n \in 0..(p - 1)
  BY <1>1, <1>2, <1>3, <1>4
<1> QED BY <1>1, <1>3, <1>5 DEF RawR, x

LEMMA FinalNonceIsUsable ==
  ASSUME AntiExfilAssumption, NEW k \in 1..(n - 1)
  PROVE  Usable(FinalNonce(k)) /\ RawR(Mult(FinalNonce(k), G)) = RawR(Mult(k, G))
<1>1. /\ FinalNonce(k) \in 1..(n - 1)
      /\ Scheme = "ssa" => Mult(FinalNonce(k), G) \notin OddY
      /\ XOf[Mult(FinalNonce(k), G)] = XOf[Mult(k, G)]
  BY EvenKeyIsEven DEF FinalNonce, AntiExfilAssumption
<1>2. Mult(FinalNonce(k), G) \in Finite /\ Mult(k, G) \in Finite
  BY <1>1, MultiplesInRange
<1> QED BY <1>1, <1>2, RawRType DEF Usable

-----------------------------------------------------------------------------
(* Signing                                                                 *)

\* The challenge is a scalar; by a name of its own in what follows.
ChallengeOf(msg, r) == Challenge[msg, r]

LEMMA ChallengeType ==
  ASSUME AntiExfilAssumption, NEW msg \in Msg, NEW r \in 0..(p - 1)
  PROVE  ChallengeOf(msg, r) \in Scalar
BY DEF ChallengeOf, AntiExfilAssumption

\* What dsa.sign_ answers with verifies, with s as it comes and with its
\* opposite: that one fits the opposite nonce, of the same r.
LEMMA DsaSignVerifies ==
  ASSUME AntiExfilAssumption, Scheme = "dsa", NEW msg \in Msg, NEW k \in 1..(n - 1),
         NEW r, r = RawR(Mult(k, G)), r # 0,
         NEW s, s = (ModInv(k) * (ChallengeOf(msg, r) + r * Key)) % n, s # 0
  PROVE  LowerS(s) \in 1..(n - 1) /\ Verifies(msg, r, LowerS(s))
<1> DEFINE c == ChallengeOf(msg, r)
<1>1. Mult(k, G) \in Finite /\ n \in Nat \ {0}
  BY MultiplesInRange, Sizes
<1>2. r \in 0..(p - 1) /\ r \in 1..(n - 1)
  BY <1>1, RawRType
<1>3. c \in Int /\ r \in Int /\ Key \in Int /\ Key \in 1..(n - 1) /\ k \in Int
  BY <1>1, <1>2, KeyInRange, ChallengeType, Sizes DEF Scalar
<1> HIDE DEF c
<1>4. s \in 0..(n - 1) /\ Cong(n, c + r * Key, k * s)
  <2> DEFINE w == ModInv(k)
             q == Key
  <2>1. /\ n \in Nat \ {0} /\ n > 1 /\ w \in Int /\ (k * w) % n = 1
        /\ c \in Int /\ r \in Int /\ q \in Int /\ k \in Int
    BY <1>3, ModInvIsInverse, Sizes
  <2>2. s = (w * (c + r * q)) % n
    BY DEF c
  <2> HIDE DEF w, q
  <2>3. /\ (w * (c + r * q)) % n \in 0..(n - 1)
        /\ Cong(n, c + r * q, k * ((w * (c + r * q)) % n))
    BY <2>1, SolvedCong
  <2> QED BY <2>2, <2>3 DEF q
<1>5. s \in 1..(n - 1) /\ n - s \in 1..(n - 1) /\ s \in Int
  BY <1>1, <1>4
<1>6. Cong(n, c + r * Key, (n - k) * (n - s))
  <2> DEFINE t == c + r * Key
  <2>1. t \in Int /\ Cong(n, t, k * s)
    BY <1>3, <1>4
  <2> HIDE DEF t
  <2>2. Cong(n, t, (n - k) * (n - s))
    BY <1>1, <1>3, <1>5, <2>1, NegatedCong
  <2> QED BY <2>2 DEF t
<1>7. ASSUME NEW K \in 1..(n - 1), NEW t \in 1..(n - 1), Cong(n, c + r * Key, K * t),
             XOf[Mult(K, G)] = XOf[Mult(k, G)]
      PROVE  Verifies(msg, r, t)
  <2>1. K \in Int /\ Mult(K, G) \in Finite /\ Mult(K, G) # INF
    BY <1>1, MultiplesInRange
  <2>2. Add(Mult(r * ModInv(t), Mult(Key, G)), Mult(c * ModInv(t), G)) = Mult(K, G)
    BY <1>3, <1>7, <2>1, VerifiedMult
  <2>3. RawR(Mult(K, G)) = r
    BY <1>1, <1>7, <2>1, RawRType
  <2> QED BY <1>2, <2>1, <2>2, <2>3 DEF Verifies, ChallengeOf, c
<1>8. n - k \in 1..(n - 1) /\ XOf[Mult(n - k, G)] = XOf[Mult(k, G)]
  BY OppositeMult
<1>9. Verifies(msg, r, s) /\ Verifies(msg, r, n - s)
  BY <1>4, <1>5, <1>6, <1>7, <1>8
<1> QED BY <1>5, <1>9 DEF LowerS

\* What ssa.sign_ answers with verifies, for the even point of the nonce.
LEMMA SsaSignVerifies ==
  ASSUME AntiExfilAssumption, Scheme = "ssa", NEW msg \in Msg, NEW k \in 1..(n - 1),
         Mult(k, G) \notin OddY,
         NEW r, r = RawR(Mult(k, G)), ChallengeOf(msg, r) # 0
  PROVE  /\ (k + ChallengeOf(msg, r) * Key) % n \in Scalar
         /\ Verifies(msg, r, (k + ChallengeOf(msg, r) * Key) % n)
<1> DEFINE c == ChallengeOf(msg, r)
           q == Key
           t == k + c * q
           s == t % n
           u == (n - c) * q
<1>1. /\ Mult(k, G) \in Finite /\ Mult(k, G) # INF
      /\ n \in Nat \ {0} /\ n \in Int
  BY MultiplesInRange, Sizes
<1>2. r \in 0..(p - 1) /\ r = XOf[Mult(k, G)]
  BY <1>1, RawRType
<1>3. c \in Int /\ q \in Int /\ k \in Int
  BY <1>1, <1>2, KeyInRange, ChallengeType, Sizes DEF Scalar
<1>4. (k + ChallengeOf(msg, r) * Key) % n = s
  OBVIOUS
<1> HIDE DEF c, q
<1>5. t \in Int /\ u \in Int
  BY <1>1, <1>3
<1>6. u + t = k + n * q
  BY <1>1, <1>3
<1> HIDE DEF t, u
<1>7. s \in 0..(n - 1) /\ s \in Int /\ Cong(n, s, t)
  BY <1>1, <1>5, CongMod, ModRange
<1> HIDE DEF s
<1>8. Cong(n, u, u)
  BY DEF Cong
<1>9. Cong(n, u + s, u + t)
  BY <1>1, <1>5, <1>7, <1>8, CongAdd
<1>10. u + s \in Int /\ u + t \in Int
  BY <1>5, <1>7
<1>11. Cong(n, u + t, k)
  BY <1>1, <1>3, <1>6, <1>10, CongShift
<1>12. Mult(u + s, G) = Mult(k, G)
  BY <1>3, <1>9, <1>10, <1>11, CongTrans, CongMult
<1>13. n - c \in Int
  BY <1>1, <1>3
<1>14. Add(Mult(s, G), Mult(n - c, Mult(q, G))) = Mult(k, G)
  BY <1>3, <1>7, <1>12, <1>13, DoubleMult DEF u
<1>15. IsXCoordinate(r)
  BY <1>1, <1>2 DEF IsXCoordinate
<1>16. Verifies(msg, r, s)
  BY <1>1, <1>2, <1>7, <1>14, <1>15 DEF Verifies, ChallengeOf, Scalar, c, q
<1> QED BY <1>4, <1>7, <1>16 DEF Scalar

\* What a signing function answers: it failed for a zero, or the answer is a
\* signature that verifies, whose r is of the point asked for.
Signature == (0..(p - 1)) \X Scalar
SignsFor(msg, r, result) ==
  \/ result = Failed
  \/ \E s \in Scalar : /\ result = <<r, s>> /\ <<r, s>> \in Signature
                       /\ Verifies(msg, r, s)

LEMMA SignWithAnswers ==
  ASSUME AntiExfilAssumption, NEW msg \in Msg, NEW k, Usable(k)
  PROVE  SignsFor(msg, RawR(Mult(k, G)), SignWith(msg, k))
<1> DEFINE r == RawR(Mult(k, G))
<1>1. k \in 1..(n - 1) /\ n \in Nat \ {0} /\ r \in 0..(p - 1)
  BY MultiplesInRange, RawRType, Sizes DEF Usable
<1>2. CASE Scheme = "dsa"
  <2> DEFINE s == (ModInv(k) * (ChallengeOf(msg, r) + r * Key)) % n
  <2>1. SignWith(msg, k) = IF r = 0 \/ s = 0 THEN Failed ELSE Checked(msg, r, LowerS(s))
    BY <1>2 DEF SignWith, DsaSign, ChallengeOf
  <2> HIDE DEF s
  <2>2. CASE r # 0 /\ s # 0
    <3>1. LowerS(s) \in 1..(n - 1) /\ Verifies(msg, r, LowerS(s))
      BY <1>1, <1>2, <2>2, DsaSignVerifies DEF s
    <3>2. LowerS(s) \in Scalar
      BY <1>1, <3>1 DEF Scalar
    <3> QED BY <1>1, <2>1, <2>2, <3>1, <3>2 DEF SignsFor, Checked, Signature
  <2> QED BY <2>1, <2>2 DEF SignsFor
<1>3. CASE Scheme = "ssa"
  <2> DEFINE c == ChallengeOf(msg, r)
             s == (k + c * Key) % n
  <2>1. SignWith(msg, k) = IF c = 0 THEN Failed ELSE Checked(msg, r, s)
    BY <1>3 DEF SignWith, SsaSign, ChallengeOf
  <2>2. CASE c # 0
    <3>1. s \in Scalar /\ Verifies(msg, r, s)
      BY <1>1, <1>3, <2>2, SsaSignVerifies DEF Usable
    <3> HIDE DEF s
    <3> QED BY <1>1, <2>1, <2>2, <3>1 DEF SignsFor, Checked, Signature
  <2> QED BY <2>1, <2>2 DEF SignsFor
<1> QED BY <1>2, <1>3 DEF AntiExfilAssumption

-----------------------------------------------------------------------------
(* Commitments                                                             *)

\* The first draw that is a scalar and not zero is taken, and there is one.
LEMMA TweakInRange ==
  ASSUME AntiExfilAssumption, NEW R \in Finite, NEW rho \in Rho
  PROVE  Tweak(R, rho) \in 1..(n - 1)
<1> DEFINE draws == TweakDraws[<<R, rho>>]
           fits(i) == draws[i] \in 1..(n - 1)
           T == {i \in DOMAIN draws : fits(i)}
           First(i) == fits(i) /\ \A j \in 1..(i - 1) : ~fits(j)
<1>1. <<R, rho>> \in Finite \X Rho
  OBVIOUS
<1>2. draws \in Seq(Nat) /\ \E i \in DOMAIN draws : fits(i)
  BY <1>1 DEF AntiExfilAssumption
<1> HIDE DEF draws
<1>3. Len(draws) \in Nat /\ DOMAIN draws = 1..Len(draws)
  BY <1>2
<1>4. T \in SUBSET Nat /\ T # {}
  BY <1>2, <1>3
<1>5. PICK i \in T : \A j \in T : ~ (j < i)
  BY <1>4, LeastElement
<1>6. i \in DOMAIN draws /\ First(i)
  BY <1>3, <1>5
<1>7. Tweak(R, rho) = draws[CHOOSE j \in DOMAIN draws : First(j)]
  BY DEF Tweak, draws
<1> HIDE DEF First
<1>8. First(CHOOSE j \in DOMAIN draws : First(j))
  BY <1>6
<1> QED BY <1>7, <1>8 DEF First

\* commit_point_ computes the point of what commit_nonce_ returns: the receipt
\* opens without the nonce.
LEMMA CommitPointOfNonce ==
  ASSUME AntiExfilAssumption, NEW k \in 1..(n - 1), NEW rho \in Rho
  PROVE  /\ CommitNonce(k, rho) \in 0..(n - 1)
         /\ CommitPoint(Mult(k, G), rho) = Mult(CommitNonce(k, rho), G)
<1> DEFINE t == Tweak(Mult(k, G), rho)
<1>1. Mult(k, G) = k /\ Mult(k, G) \in Finite /\ N = n /\ n \in Nat \ {0} /\ k \in Int
  BY MultiplesInRange, Sizes
<1>2. t \in 1..(n - 1)
  BY <1>1, TweakInRange
<1> HIDE DEF t
<1>3. Mult(t, G) = t /\ t \in Int
  BY <1>1, <1>2, MultiplesInRange
<1>4. CommitNonce(k, rho) = (k + t) % n
  BY DEF CommitNonce, t
<1>5. CommitPoint(Mult(k, G), rho) = (k + t) % n
  BY <1>1, <1>3 DEF CommitPoint, Add, t
<1>6. (k + t) % n \in 0..(n - 1)
  BY <1>1, <1>3, ModRange
<1> DEFINE m == (k + t) % n
<1> HIDE DEF m
<1>7. m \in 0..(n - 1)
  BY <1>6 DEF m
<1>8. m \in Int /\ m % n = m
  BY <1>1, <1>7
<1>9. Mult(m, G) = m
  BY <1>8, Multiples
<1> QED BY <1>4, <1>5, <1>7, <1>9 DEF m

\* A signature that commits carries the coordinate of the point the receipt and
\* the committed value give.
LEMMA SignCommitAnswers ==
  ASSUME AntiExfilAssumption, NEW msg \in Msg, NEW input \in Input, NEW rho \in Rho
  PROVE  SignsFor(msg, RawR(CommitPoint(Mult(NonceOf(msg, input), G), rho)),
                  SignCommit(msg, input, rho))
<1> DEFINE R == Mult(NonceOf(msg, input), G)
           k == CommitNonce(NonceOf(msg, input), rho)
<1>1. k \in 0..(n - 1) /\ CommitPoint(R, rho) = Mult(k, G)
  BY NonceIsUsable, CommitPointOfNonce DEF Usable
<1>2. SignCommit(msg, input, rho) = IF k = 0 THEN Failed ELSE SignWith(msg, FinalNonce(k))
  BY DEF SignCommit
<1> HIDE DEF k, R
<1>3. CASE k = 0
  BY <1>2, <1>3 DEF SignsFor
<1>4. CASE k # 0
  <2>1. k \in 1..(n - 1)
    BY <1>1, <1>4, Sizes
  <2>2. Usable(FinalNonce(k)) /\ RawR(Mult(FinalNonce(k), G)) = RawR(Mult(k, G))
    BY <2>1, FinalNonceIsUsable
  <2>3. SignsFor(msg, RawR(Mult(FinalNonce(k), G)), SignWith(msg, FinalNonce(k)))
    BY <2>2, SignWithAnswers
  <2>4. SignsFor(msg, RawR(CommitPoint(R, rho)), SignCommit(msg, input, rho))
    BY <1>1, <1>2, <1>4, <2>2, <2>3
  <2> QED BY <2>4 DEF R
<1> QED BY <1>3, <1>4

\* An answer is told from a failure by its length, and sent when it is none.
LEMMA SentIsSigned ==
  ASSUME NEW msg, NEW r, NEW result, SignsFor(msg, r, result)
  PROVE  /\ result # Spoiled
         /\ Sent(result) \subseteq Signature
         /\ \A sig \in Sent(result) : sig = result /\ sig[1] = r /\ Verifies(msg, sig[1], sig[2])
<1>1. \A s : <<r, s>> # Failed /\ <<r, s>> # Spoiled
  BY DEF Failed, Spoiled
<1>2. Failed # Spoiled
  BY DEF Failed, Spoiled
<1>3. CASE result = Failed
  BY <1>2, <1>3 DEF Sent
<1>4. ASSUME NEW s \in Scalar, result = <<r, s>>, <<r, s>> \in Signature, Verifies(msg, r, s)
      PROVE  /\ result # Spoiled
             /\ Sent(result) \subseteq Signature
             /\ \A sig \in Sent(result) : sig = result /\ sig[1] = r /\ Verifies(msg, sig[1], sig[2])
  BY <1>1, <1>4 DEF Sent
<1> QED BY <1>3, <1>4 DEF SignsFor

-----------------------------------------------------------------------------
(* The invariant                                                           *)

\* The entropies of a signature that commits to nothing, and to rho.
PlainInput == {<<"aux", aux>> : aux \in Aux} \cup {<< >>}
CommittedInput(rho) ==
  {CommitEntropy(<<rho>>)} \cup {CommitEntropy(<<aux, rho>>) : aux \in Aux}

\* A record of what the device signed, which says how it was made.
SignedPlain(m, i) ==
  [msg |-> m, input |-> i, commit |-> {}, result |-> SignWith(m, NonceOf(m, i))]
SignedCommit(m, i, rho) ==
  [msg |-> m, input |-> i, commit |-> {rho}, result |-> SignCommit(m, i, rho)]
MadeBySigning(sn) ==
  \/ \E m \in Msg, i \in PlainInput : sn = SignedPlain(m, i)
  \/ \E m \in Msg, rho \in Rho : \E i \in CommittedInput(rho) : sn = SignedCommit(m, i, rho)

Phases == {"idle", "committed", "revealed", "accepted", "rejected", "aborted"}
StateTypes ==
  /\ exch \in [msg : Msg, rho : Rho]
  /\ host \in [phase : Phases, R : Point, restarts : 0..MaxRestarts,
               sig : {<< >>} \cup Signature]
  /\ points \subseteq Finite /\ early \subseteq points
  /\ sigs \subseteq Signature
  /\ calls \in 0..MaxCalls

\* What the host holds, beyond its type: the point it was promised was on the
\* wire when rho was first revealed, and what it accepted it had verified.
HostKnows ==
  /\ host.phase \in {"revealed", "accepted", "rejected"} => Revealed
  /\ Revealed => host.R \in early
  /\ host.phase = "accepted" =>
       /\ host.sig \in Signature
       /\ HostVerify(exch.msg, host.sig, exch.rho, host.R)

ExchangeInv == StateTypes /\ HostKnows /\ \A sn \in made : MadeBySigning(sn)

LEMMA InputsAreInputs ==
  ASSUME NEW rho \in Rho
  PROVE  PlainInput \subseteq Input /\ CommittedInput(rho) \subseteq Input
<1>1. PlainInput \subseteq Input
  BY DEF PlainInput, Input
<1>2. CommitEntropy(<<rho>>) \in Input
  BY DEF Input
<1>3. ASSUME NEW aux \in Aux PROVE CommitEntropy(<<aux, rho>>) \in Input
  <2>1. \E a \in Aux, r \in Rho : CommitEntropy(<<aux, rho>>) = CommitEntropy(<<a, r>>)
    BY <1>3
  <2>2. CommitEntropy(<<aux, rho>>) \in {CommitEntropy(<<a, r>>) : a \in Aux, r \in Rho}
    BY <2>1
  <2> QED BY <2>2 DEF Input
<1> QED BY <1>1, <1>2, <1>3 DEF CommittedInput

LEMMA ExchangeInit ==
  ASSUME AntiExfilAssumption, Init
  PROVE  ExchangeInv
<1>1. 0 \in Point /\ 0 \in 0..MaxRestarts /\ 0 \in 0..MaxCalls
  BY Sizes DEF Scalar, AntiExfilAssumption
<1>2. ~Revealed /\ host.phase = "idle"
  BY DEF Init, Revealed
<1>3. StateTypes
  BY <1>1 DEF Init, StateTypes, Phases, INF
<1> QED BY <1>2, <1>3 DEF Init, ExchangeInv, HostKnows

\* The host's steps.
LEMMA HostStep ==
  ASSUME AntiExfilAssumption, ExchangeInv,
         \/ Commit \/ Restart
         \/ \E R \in points : Reveal(R)
         \/ \E sig \in sigs : Verify(sig)
  PROVE  ExchangeInv'
<1>a. MaxRestarts \in Nat
  BY DEF AntiExfilAssumption
<1>0. \A R \in Finite : R \in Point /\ R # INF
  BY DEF Finite, Point, INF
<1> USE DEF ExchangeInv, StateTypes, HostKnows, Revealed, Phases
<1>1. CASE Commit
  BY <1>1 DEF Commit
<1>2. CASE Restart
  <2>1. host.restarts \in 0..MaxRestarts /\ host.restarts < MaxRestarts
    BY <1>2 DEF Restart
  <2>2. host.restarts + 1 \in 0..MaxRestarts
    BY <1>a, <2>1
  <2> QED BY <1>2, <2>2 DEF Restart
<1>3. ASSUME NEW R \in points, Reveal(R) PROVE ExchangeInv'
  <2>1. R \in Point /\ R # INF
    BY <1>0
  <2>2. CASE Revealed /\ R # host.R
    BY <1>3, <2>2 DEF Reveal
  <2>3. CASE Revealed /\ R = host.R
    BY <1>3, <2>1, <2>3 DEF Reveal
  <2>4. CASE ~Revealed
    BY <1>3, <2>1, <2>4 DEF Reveal
  <2> QED BY <2>2, <2>3, <2>4
<1>4. ASSUME NEW sig \in sigs, Verify(sig) PROVE ExchangeInv'
  <2>1. CASE HostVerify(exch.msg, sig, exch.rho, host.R)
    <3>1. /\ host' = [host EXCEPT !.phase = "accepted", !.sig = sig]
          /\ UNCHANGED <<exch, honest, points, sigs, early, made, calls>>
          /\ host.phase = "revealed" /\ sig \in Signature
      BY <1>4, <2>1 DEF Verify
    <3>2. host'.phase = "accepted" /\ host'.sig = sig /\ host'.R = host.R
      BY <3>1
    <3>3. HostVerify(exch.msg, host.sig, exch.rho, host.R)'
      BY <2>1, <3>1, <3>2 DEF HostVerify
    <3> QED BY <3>1, <3>2, <3>3
  <2>2. CASE ~HostVerify(exch.msg, sig, exch.rho, host.R)
    BY <1>4, <2>2 DEF Verify
  <2> QED BY <2>1, <2>2
<1> QED BY <1>1, <1>2, <1>3, <1>4

\* The device's steps, honest or not.
LEMMA DeviceStep ==
  ASSUME AntiExfilAssumption, ExchangeInv,
         \/ \E msg \in Msg, rho \in Rho : DeviceCommits(msg, rho) \/ DeviceSigns(msg, rho)
         \/ \E msg \in Msg, aux \in Aux, commit \in AtMostOne(Rho) : OrdinarySign(msg, aux, commit)
         \/ Cheat
  PROVE  ExchangeInv'
<1>1. Answers => calls' \in 0..MaxCalls
  <2>1. MaxCalls \in Nat /\ calls \in 0..MaxCalls
    BY DEF AntiExfilAssumption, ExchangeInv, StateTypes
  <2> QED BY <2>1 DEF Answers
<1>2. UNCHANGED <<exch, host, early>> => HostKnows'
  BY DEF ExchangeInv, HostKnows, Revealed
<1>3. ASSUME NEW msg \in Msg, NEW rho \in Rho, DeviceCommits(msg, rho) PROVE ExchangeInv'
  <2>1. HostCommit(rho) \in Input
    BY InputsAreInputs DEF HostCommit, CommittedInput
  <2>2. SignerCommit(msg, HostCommit(rho)) \in Finite
    BY <2>1, NonceIsUsable, MultiplesInRange DEF SignerCommit, Usable
  <2> QED BY <1>1, <1>2, <1>3, <2>2 DEF DeviceCommits, ExchangeInv, StateTypes
<1>4. ASSUME NEW msg \in Msg, NEW rho \in Rho, DeviceSigns(msg, rho) PROVE ExchangeInv'
  <2> DEFINE i == HostCommit(rho)
  <2>1. i \in CommittedInput(rho) /\ i \in Input
    BY InputsAreInputs DEF HostCommit, CommittedInput
  <2>2. AntiExfilSign(msg, rho) = SignCommit(msg, i, rho)
    BY DEF AntiExfilSign
  <2>3. Sent(AntiExfilSign(msg, rho)) \subseteq Signature
    BY <2>1, <2>2, SignCommitAnswers, SentIsSigned
  <2>4. made' = made \cup {SignedCommit(msg, i, rho)}
    BY <1>4, <2>2 DEF DeviceSigns, Record, SignedCommit
  <2> HIDE DEF i
  <2>5. MadeBySigning(SignedCommit(msg, i, rho))
    BY <2>1 DEF MadeBySigning
  <2>6. \A sn \in made' : MadeBySigning(sn)
    BY <2>4, <2>5 DEF ExchangeInv
  <2> QED BY <1>1, <1>2, <1>4, <2>3, <2>6 DEF DeviceSigns, ExchangeInv, StateTypes
<1>5. ASSUME NEW msg \in Msg, NEW aux \in Aux, NEW commit \in AtMostOne(Rho),
             OrdinarySign(msg, aux, commit)
      PROVE  ExchangeInv'
  <2> DEFINE i == OrdinaryInput(aux, commit)
  <2>1. \A sn \in made' : MadeBySigning(sn)
    <3>1. CASE commit = {}
      <4>1. i \in PlainInput
        BY <3>1 DEF OrdinaryInput, PlainInput
      <4>2. made' = made \cup {SignedPlain(msg, i)}
        BY <1>5, <3>1 DEF OrdinarySign, Record, SignedPlain
      <4> HIDE DEF i
      <4>3. MadeBySigning(SignedPlain(msg, i))
        BY <4>1 DEF MadeBySigning
      <4> QED BY <4>2, <4>3 DEF ExchangeInv
    <3>2. ASSUME NEW rho \in Rho, commit = {rho} PROVE \A sn \in made' : MadeBySigning(sn)
      <4>1. commit # {} /\ (CHOOSE x \in commit : TRUE) = rho
        BY <3>2
      <4>2. i = CommitEntropy(IF Scheme = "dsa" THEN <<rho>> ELSE <<aux, rho>>)
        BY <4>1 DEF OrdinaryInput
      <4>3. i \in CommittedInput(rho)
        BY <4>2 DEF CommittedInput
      <4>4. made' = made \cup {SignedCommit(msg, i, rho)}
        BY <1>5, <3>2, <4>1 DEF OrdinarySign, Record, SignedCommit
      <4> HIDE DEF i
      <4>5. MadeBySigning(SignedCommit(msg, i, rho))
        BY <4>3 DEF MadeBySigning
      <4> QED BY <4>4, <4>5 DEF ExchangeInv
    <3> QED BY <3>1, <3>2 DEF AtMostOne
  <2> QED BY <1>1, <1>2, <1>5, <2>1 DEF OrdinarySign, ExchangeInv, StateTypes
<1>6. CASE Cheat
  <2>1. exch.msg \in Msg
    BY DEF ExchangeInv, StateTypes
  <2>2. ASSUME NEW k \in 1..(n - 1) PROVE Sent(SignWith(exch.msg, FinalNonce(k))) \subseteq Signature
    BY <2>1, FinalNonceIsUsable, SignWithAnswers, SentIsSigned
  <2>3. points' \subseteq Finite /\ early \subseteq points' /\ sigs' \subseteq Signature
    BY <1>6, <2>2 DEF Cheat, ExchangeInv, StateTypes
  <2> QED BY <1>1, <1>2, <1>6, <2>3 DEF Cheat, ExchangeInv, StateTypes
<1> QED BY <1>3, <1>4, <1>5, <1>6

LEMMA ExchangeInductive ==
  ASSUME AntiExfilAssumption, ExchangeInv, [Next]_vars
  PROVE  ExchangeInv'
<1>1. CASE Next
  BY <1>1, HostStep, DeviceStep DEF Next
<1>2. CASE UNCHANGED vars
  BY <1>2 DEF vars, ExchangeInv, StateTypes, HostKnows, Revealed, HostVerify
<1> QED BY <1>1, <1>2

\* In every behaviour.
THEOREM ExchangeInvariant == ASSUME AntiExfilAssumption PROVE Spec => []ExchangeInv
<1>1. Init => ExchangeInv
  BY ExchangeInit
<1>2. ExchangeInv /\ [Next]_vars => ExchangeInv'
  BY ExchangeInductive
<1> QED BY <1>1, <1>2, PTL DEF Spec

-----------------------------------------------------------------------------
(* Theorems                                                                *)

\* The types of the host, of the wire and of the histories are kept, and a
\* point is promised exactly once rho is out.
THEOREM ExchangeTypes == ASSUME AntiExfilAssumption PROVE Spec => []TypeOK
<1>1. ASSUME ExchangeInv PROVE TypeOK
  <2>1. \A sn \in made : sn.input \in Input
    <3>1. ASSUME NEW sn \in made PROVE sn.input \in Input
      <4>1. MadeBySigning(sn)
        BY <1>1 DEF ExchangeInv
      <4>2. ASSUME NEW m \in Msg, NEW i \in PlainInput, sn = SignedPlain(m, i)
            PROVE  sn.input \in Input
        <5>1. sn.input = i
          BY <4>2 DEF SignedPlain
        <5>2. i \in Input
          BY DEF PlainInput, Input
        <5> QED BY <5>1, <5>2
      <4>3. ASSUME NEW m \in Msg, NEW rho \in Rho, NEW i \in CommittedInput(rho),
                   sn = SignedCommit(m, i, rho)
            PROVE  sn.input \in Input
        BY <4>3, InputsAreInputs DEF SignedCommit
      <4> QED BY <4>1, <4>2, <4>3 DEF MadeBySigning
    <3> QED BY <3>1
  <2>2. \A sig \in sigs : sig[1] \in 0..(p - 1) /\ sig[2] \in Scalar
    BY <1>1 DEF ExchangeInv, StateTypes, Signature
  <2> QED BY <1>1, <2>1, <2>2 DEF ExchangeInv, StateTypes, HostKnows, Phases, TypeOK
<1> QED BY <1>1, ExchangeInvariant, PTL

\* What the host accepted is signed with a nonce whose point, before the tweak
\* of rho, was on the wire while rho was secret: for every device, every order
\* of the messages and every number of restarts.
THEOREM PromisedNonceOnly == ASSUME AntiExfilAssumption PROVE Spec => []OnlyPromisedNonce
<1>1. ASSUME ExchangeInv PROVE OnlyPromisedNonce
  <2>1. SUFFICES ASSUME host.phase = "accepted"
                 PROVE  \E R \in early :
                          /\ host.R = R
                          /\ Verifies(exch.msg, host.sig[1], host.sig[2])
                          /\ host.sig[1] = RawR(Add(R, Mult(Tweak(R, exch.rho), G)))
    BY DEF OnlyPromisedNonce
  <2>2. host.R \in early /\ HostVerify(exch.msg, host.sig, exch.rho, host.R)
    BY <1>1, <2>1 DEF ExchangeInv, HostKnows
  <2> QED BY <2>2 DEF HostVerify, AssertCommitment, CommitPoint
<1> QED BY <1>1, ExchangeInvariant, PTL

\* The answers of a record are those of the function it records.
LEMMA RecordedAnswer ==
  ASSUME AntiExfilAssumption, NEW sn, MadeBySigning(sn)
  PROVE  /\ sn.result # Spoiled
         /\ \A rho \in sn.commit :
              /\ rho \in Rho /\ sn.msg \in Msg /\ sn.input \in Input /\ sn.commit = {rho}
              /\ SignsFor(sn.msg, RawR(CommitPoint(Mult(NonceOf(sn.msg, sn.input), G), rho)),
                          sn.result)
<1>1. ASSUME NEW m \in Msg, NEW i \in PlainInput, sn = SignedPlain(m, i)
      PROVE  sn.result # Spoiled /\ sn.commit = {}
  <2>1. i \in Input
    BY DEF PlainInput, Input
  <2>2. SignWith(m, NonceOf(m, i)) # Spoiled
    BY <2>1, NonceIsUsable, SignWithAnswers, SentIsSigned
  <2> QED BY <1>1, <2>2 DEF SignedPlain
<1>2. ASSUME NEW m \in Msg, NEW rho \in Rho, NEW i \in CommittedInput(rho),
             sn = SignedCommit(m, i, rho)
      PROVE  /\ sn.result # Spoiled
             /\ sn.commit = {rho} /\ sn.msg \in Msg /\ sn.input \in Input
             /\ SignsFor(sn.msg, RawR(CommitPoint(Mult(NonceOf(sn.msg, sn.input), G), rho)),
                         sn.result)
  <2>1. i \in Input
    BY InputsAreInputs
  <2>2. SignsFor(m, RawR(CommitPoint(Mult(NonceOf(m, i), G), rho)), SignCommit(m, i, rho))
    BY <2>1, SignCommitAnswers
  <2>3. SignCommit(m, i, rho) # Spoiled
    BY <2>2, SentIsSigned
  <2>4. /\ sn.msg = m /\ sn.input = i /\ sn.commit = {rho}
        /\ sn.result = SignCommit(m, i, rho)
    BY <1>2 DEF SignedCommit
  <2> QED BY <2>1, <2>2, <2>3, <2>4
<1> QED BY <1>1, <1>2 DEF MadeBySigning

\* A signing call of an honest device never fails its own verification.
THEOREM SigningAlwaysVerifies == ASSUME AntiExfilAssumption PROVE Spec => []SigningVerifies
<1>1. ASSUME AntiExfilAssumption, ExchangeInv PROVE SigningVerifies
  BY <1>1, RecordedAnswer DEF ExchangeInv, SigningVerifies
<1> QED BY <1>1, ExchangeInvariant, PTL

\* Every signature that commits opens with the point of its nonce before the
\* tweak.
THEOREM ReceiptsOpen == ASSUME AntiExfilAssumption PROVE Spec => []ReceiptOpens
<1>1. ASSUME AntiExfilAssumption, ExchangeInv PROVE ReceiptOpens
  <2>1. ASSUME NEW sn \in made, NEW rho \in sn.commit, NEW sig \in Sent(sn.result)
        PROVE  AssertCommitment(rho, Mult(NonceOf(sn.msg, sn.input), G), sig[1])
    <3>1. MadeBySigning(sn)
      BY <1>1 DEF ExchangeInv
    <3>2. SignsFor(sn.msg, RawR(CommitPoint(Mult(NonceOf(sn.msg, sn.input), G), rho)), sn.result)
      BY <1>1, <3>1, RecordedAnswer
    <3>3. sig[1] = RawR(CommitPoint(Mult(NonceOf(sn.msg, sn.input), G), rho))
      BY <3>2, SentIsSigned
    <3> QED BY <3>3 DEF AssertCommitment
  <2> QED BY <2>1 DEF ReceiptOpens
<1> QED BY <1>1, ExchangeInvariant, PTL

\* The signature an honest device makes for the host's message and rho is
\* accepted against the point it answers the host's commitment with.
THEOREM HonestIsAccepted == ASSUME AntiExfilAssumption PROVE Spec => []HonestAccepted
<1>1. ASSUME AntiExfilAssumption, ExchangeInv PROVE HonestAccepted
  <2>1. ASSUME NEW sn \in made, sn.input = HostCommit(exch.rho), sn.msg = exch.msg,
               sn.commit = {exch.rho}, NEW sig \in Sent(sn.result)
        PROVE  HostVerify(exch.msg, sig, exch.rho,
                          SignerCommit(exch.msg, HostCommit(exch.rho)))
    <3>1. MadeBySigning(sn)
      BY <1>1 DEF ExchangeInv
    <3>2. exch.rho \in sn.commit
      BY <2>1
    <3>3. SignsFor(sn.msg, RawR(CommitPoint(Mult(NonceOf(sn.msg, sn.input), G), exch.rho)),
                   sn.result)
      BY <1>1, <3>1, <3>2, RecordedAnswer
    <3>4. /\ sig[1] = RawR(CommitPoint(Mult(NonceOf(sn.msg, sn.input), G), exch.rho))
          /\ Verifies(sn.msg, sig[1], sig[2])
      BY <3>3, SentIsSigned
    <3> QED BY <2>1, <3>4 DEF HostVerify, SignerCommit, AssertCommitment
  <2> QED BY <2>1 DEF HonestAccepted
<1> QED BY <1>1, ExchangeInvariant, PTL

\* An entropy that was committed to is of one rho, and none of a signature that
\* commits to nothing.
LEMMA InputsTellRho ==
  ASSUME NEW r1 \in Rho, NEW r2 \in Rho, NEW i \in CommittedInput(r1)
  PROVE  i \notin PlainInput /\ (i \in CommittedInput(r2) => r1 = r2)
<1>1. PICK x1 : i = <<"committed", x1>> /\ (x1 = <<r1>> \/ \E a \in Aux : x1 = <<a, r1>>)
  BY DEF CommittedInput, CommitEntropy
<1>2. i \notin PlainInput
  BY <1>1 DEF PlainInput
<1>3. ASSUME i \in CommittedInput(r2) PROVE r1 = r2
  <2>1. PICK x2 : i = <<"committed", x2>> /\ (x2 = <<r2>> \/ \E a \in Aux : x2 = <<a, r2>>)
    BY <1>3 DEF CommittedInput, CommitEntropy
  <2>2. x1 = x2
    BY <1>1, <2>1
  <2>3. \A a, b, c, d : <<a, b>> # <<c>> /\ (<<a, b>> = <<c, d>> => b = d) /\ (<<a>> = <<c>> => a = c)
    OBVIOUS
  <2> QED BY <1>1, <2>1, <2>2, <2>3
<1> QED BY <1>2, <1>3

\* A derivation answers for one signature.
THEOREM NoncesSignOnce == ASSUME AntiExfilAssumption PROVE Spec => []NonceSignsOnce
<1>1. ASSUME ExchangeInv PROVE NonceSignsOnce
  <2>1. ASSUME NEW s1 \in made, NEW s2 \in made, s1.msg = s2.msg, s1.input = s2.input
        PROVE  s1 = s2
    <3>1. MadeBySigning(s1) /\ MadeBySigning(s2)
      BY <1>1 DEF ExchangeInv
    <3>2. ASSUME NEW s, MadeBySigning(s)
          PROVE  \/ s.input \in PlainInput /\ s = SignedPlain(s.msg, s.input)
                 \/ \E rho \in Rho : /\ s.input \in CommittedInput(rho)
                                     /\ s = SignedCommit(s.msg, s.input, rho)
      <4>1. ASSUME NEW m \in Msg, NEW i \in PlainInput, s = SignedPlain(m, i)
            PROVE  s.input \in PlainInput /\ s = SignedPlain(s.msg, s.input)
        <5>1. s.msg = m /\ s.input = i
          BY <4>1 DEF SignedPlain
        <5> QED BY <4>1, <5>1
      <4>2. ASSUME NEW m \in Msg, NEW rho \in Rho, NEW i \in CommittedInput(rho),
                   s = SignedCommit(m, i, rho)
            PROVE  s.input \in CommittedInput(rho) /\ s = SignedCommit(s.msg, s.input, rho)
        <5>1. s.msg = m /\ s.input = i
          BY <4>2 DEF SignedCommit
        <5> QED BY <4>2, <5>1
      <4> QED BY <3>2, <4>1, <4>2 DEF MadeBySigning
    <3>3. CASE s1.input \in PlainInput
      BY <2>1, <3>1, <3>2, <3>3, InputsTellRho
    <3>4. CASE s1.input \notin PlainInput
      <4>1. PICK r1 \in Rho : s1.input \in CommittedInput(r1) /\ s1 = SignedCommit(s1.msg, s1.input, r1)
        BY <3>1, <3>2, <3>4
      <4>2. PICK r2 \in Rho : s2.input \in CommittedInput(r2) /\ s2 = SignedCommit(s2.msg, s2.input, r2)
        BY <2>1, <3>1, <3>2, <3>4
      <4>3. r1 = r2
        BY <2>1, <4>1, <4>2, InputsTellRho
      <4> QED BY <2>1, <4>1, <4>2, <4>3
    <3> QED BY <3>3, <3>4
  <2> QED BY <2>1 DEF NonceSignsOnce
<1> QED BY <1>1, ExchangeInvariant, PTL

=============================================================================
