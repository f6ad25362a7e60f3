---------------------------- MODULE FrostProofs ----------------------------
(***************************************************************************)
(* Theorems about Frost for every prime group order, every set of plans,   *)
(* dealt shares and nonces, and every value of the hashes: the types, one  *)
(* answer for each nonce, what an honest signer answers is accepted,       *)
(* accepted shares aggregate to a signature, the order of the signers does *)
(* not matter, a deterministic nonce signs one thing, who can be blamed,   *)
(* and the refinement of OneTimeNonce.                                     *)
(***************************************************************************)
EXTENDS Frost

-----------------------------------------------------------------------------
(***************************************************************************)
(* Products of sequences of integers.                                      *)
(***************************************************************************)

\* The partial products of a sequence of integers are integers, and scalars past
\* the first, each made of the one before it and the next factor.
LEMMA ProductsStep ==
  ASSUME NEW s, NEW m \in Nat, Len(s) = m, \A i \in 1..m : s[i] \in Int
  PROVE /\ Products(s) \in [0..m -> Scalar]
        /\ Products(s)[0] = 1
        /\ \A i \in 1..m : Products(s)[i] = (Products(s)[i - 1] * s[i]) % n
<1> DEFINE F == [p \in Scalar \X (1..m) |-> (p[1] * s[p[2]]) % n]
<1>1. F \in [Scalar \X (1..m) -> Scalar]
  <2>1. ASSUME NEW p \in Scalar \X (1..m) PROVE (p[1] * s[p[2]]) % n \in Scalar
    <3>1. p[1] \in Int /\ s[p[2]] \in Int
      BY DEF Scalar
    <3>2. p[1] * s[p[2]] \in Int
      BY <3>1
    <3> QED BY <3>2, CongReduce
  <2> QED BY <2>1
<1>2. \A x \in Scalar, i \in 1..m : F[<<x, i>>] = (x * s[i]) % n
  OBVIOUS
<1> HIDE DEF F
<1>3. 1 \in Scalar
  BY OrderPositive DEF Scalar
<1>4. PICK g : Iterates(g, Scalar, 1, F, m)
  BY <1>1, <1>3, BoundedRecursionExists
<1>5. g \in [0..m -> Scalar] /\ g[0] = 1 /\ \A k \in 1..m : g[k] = (g[k - 1] * s[k]) % n
  <2>1. g \in [0..m -> Scalar] /\ g[0] = 1 /\ \A k \in 1..m : g[k] = F[<<g[k - 1], k>>]
    BY <1>4 DEF Iterates
  <2>2. \A k \in 1..m : g[k - 1] \in Scalar
    BY <2>1
  <2> QED BY <1>2, <2>1, <2>2, Zenon
<1>6. g = [i \in 0..m |-> IF i = 0 THEN 1 ELSE (g[i - 1] * s[i]) % n]
  <2>1. \A i \in 0..m : i = 0 \/ i \in 1..m
    OBVIOUS
  <2>2. \A i \in 0..m : g[i] = IF i = 0 THEN 1 ELSE (g[i - 1] * s[i]) % n
    BY <1>5, <2>1, Zenon
  <2>3. g = [i \in 0..m |-> g[i]]
    BY <1>5
  <2> QED BY <2>2, <2>3, Zenon
<1>7. Products(s)
        = CHOOSE h : h = [i \in 0..m |-> IF i = 0 THEN 1 ELSE (h[i - 1] * s[i]) % n]
  BY DEF Products
<1> DEFINE h == Products(s)
<1>8. h = [i \in 0..m |-> IF i = 0 THEN 1 ELSE (h[i - 1] * s[i]) % n]
  BY <1>6, <1>7, Zenon
<1> HIDE DEF h
<1>9. \A i \in 0..m : h[i] = IF i = 0 THEN 1 ELSE (h[i - 1] * s[i]) % n
  BY <1>8, Zenon
<1>10. 0 \in 0..m /\ \A i \in 1..m : i \in 0..m /\ i # 0
  OBVIOUS
<1>11. h[0] = 1 /\ \A i \in 1..m : h[i] = (h[i - 1] * s[i]) % n
  BY <1>9, <1>10, Zenon
<1>12. \A k \in 1..m : h[k - 1] \in Scalar => h[k] \in Scalar
  <2> SUFFICES ASSUME NEW k \in 1..m, h[k - 1] \in Scalar PROVE h[k] \in Scalar
    OBVIOUS
  <2>1. h[k - 1] \in Int /\ s[k] \in Int
    BY DEF Scalar
  <2>2. h[k - 1] * s[k] \in Int
    BY <2>1
  <2> QED BY <1>11, <2>2, CongReduce
<1>13. \A k \in 0..m : h[k] \in Scalar
  BY <1>3, <1>11, <1>12, LoopInvariant
<1>14. h \in [0..m -> Scalar]
  BY <1>8, <1>13
<1> QED BY <1>11, <1>14 DEF h

LEMMA ProductScalar ==
  ASSUME NEW s, NEW m \in Nat, Len(s) = m, \A i \in 1..m : s[i] \in Int
  PROVE  Product(s) = Products(s)[m] /\ Product(s) \in Scalar /\ Product(s) \in Int
<1>1. m \in 0..m /\ Products(s) \in [0..m -> Scalar]
  BY ProductsStep
<1> QED BY <1>1 DEF Product, Scalar

\* Modulo n a partial product is the one before it times the next factor.
LEMMA ProductsCong ==
  ASSUME NEW s, NEW m \in Nat, Len(s) = m, \A i \in 1..m : s[i] \in Int, NEW i \in 1..m
  PROVE  /\ Products(s)[i] \in Int /\ Products(s)[i - 1] \in Int
         /\ Cong(n, Products(s)[i], Products(s)[i - 1] * s[i])
<1>1. i \in 0..m /\ i - 1 \in 0..m
  OBVIOUS
<1>2. Products(s)[i] \in Scalar /\ Products(s)[i - 1] \in Scalar
      /\ Products(s)[i] = (Products(s)[i - 1] * s[i]) % n
  BY <1>1, ProductsStep
<1> DEFINE p == Products(s)[i]
           q == Products(s)[i - 1]
           x == s[i]
<1>3. p \in Int /\ q \in Int /\ x \in Int /\ p = (q * x) % n
  BY <1>2 DEF Scalar
<1> HIDE DEF p, q, x
<1>4. q * x \in Int
  BY <1>3
<1>5. Cong(n, p, q * x)
  BY <1>3, <1>4, CongReduce
<1> QED BY <1>3, <1>5 DEF p, q, x

\* A number that has an inverse modulo n.
Unit(x) == \E y \in Scalar : Cong(n, x * y, 1)

\* ModInverse returns the inverse of a number that has one.
LEMMA InverseOfUnit ==
  ASSUME NEW x \in Int, Unit(x)
  PROVE  /\ ModInverse(x) \in Scalar /\ ModInverse(x) \in Int
         /\ Cong(n, x * ModInverse(x), 1)
<1>1. 1 % n = 1
  BY OrderPositive
<1>2. \A z \in Int : Cong(n, z, 1) <=> z % n = 1
  BY <1>1 DEF Cong
<1>3. PICK y \in Scalar : Cong(n, x * y, 1)
  BY DEF Unit
<1>4. \A z \in Scalar : x * z \in Int /\ z \in Int
  BY DEF Scalar
<1>5. \E z \in Scalar : (x * z) % n = 1
  BY <1>2, <1>3, <1>4
<1>6. ModInverse(x) \in Scalar /\ (x * ModInverse(x)) % n = 1
  BY <1>5, Zenon DEF ModInverse
<1> QED BY <1>2, <1>4, <1>6

LEMMA UnitOfCong ==
  ASSUME NEW x \in Int, NEW y \in Int, Cong(n, x, y), Unit(y)
  PROVE  Unit(x)
<1>1. PICK z \in Scalar : Cong(n, y * z, 1)
  BY DEF Unit
<1>2. z \in Int
  BY DEF Scalar
<1>3. Cong(n, z * x, z * y)
  BY <1>2, CongScale
<1>4. x * z = z * x /\ y * z = z * y
  BY <1>2
<1>5. Cong(n, x * z, 1)
  BY <1>1, <1>3, <1>4 DEF Cong
<1> QED BY <1>5 DEF Unit

\* The product of two numbers with inverses has one.
LEMMA UnitTimes ==
  ASSUME NEW x \in Int, NEW y \in Int, Unit(x), Unit(y)
  PROVE  Unit(x * y)
<1>1. PICK u \in Scalar : Cong(n, x * u, 1)
  BY DEF Unit
<1>2. PICK v \in Scalar : Cong(n, y * v, 1)
  BY DEF Unit
<1>3. u \in Int /\ v \in Int
  BY DEF Scalar
<1> DEFINE a == x * u
           b == y * v
           w == (u * v) % n
<1>4. a \in Int /\ b \in Int /\ u * v \in Int /\ x * y \in Int
  BY <1>3
<1>5. w \in Scalar /\ w \in Int /\ Cong(n, w, u * v)
  BY <1>4, CongReduce
<1>6. Cong(n, a * b, 1 * 1)
  <2>1. Cong(n, a, 1) /\ Cong(n, b, 1)
    BY <1>1, <1>2
  <2> HIDE DEF a, b
  <2> QED BY <1>4, <2>1, OrderPositive, CongMul
<1>7. Cong(n, (x * y) * w, (x * y) * (u * v))
  BY <1>4, <1>5, CongScale
<1>8. (x * y) * (u * v) = a * b /\ 1 * 1 = 1
  BY <1>3
<1>9. Cong(n, (x * y) * w, 1)
  BY <1>6, <1>7, <1>8 DEF Cong
<1> QED BY <1>5, <1>9 DEF Unit

\* So has a product of any length.
LEMMA UnitProduct ==
  ASSUME NEW s, NEW m \in Nat, Len(s) = m, \A i \in 1..m : s[i] \in Int /\ Unit(s[i])
  PROVE  Unit(Product(s))
<1> DEFINE X == {x \in Int : Unit(x)}
           h == Products(s)
<1>1. h \in [0..m -> Scalar] /\ h[0] = 1
  BY ProductsStep
<1>2. h[0] \in X
  <2>1. Cong(n, 1 * 1, 1) /\ 1 \in Scalar /\ 1 \in Int
    BY CongSelf, OrderPositive DEF Scalar
  <2> QED BY <1>1, <2>1 DEF Unit
<1>3. \A k \in 1..m : h[k - 1] \in X => h[k] \in X
  <2> SUFFICES ASSUME NEW k \in 1..m, h[k - 1] \in X PROVE h[k] \in X
    OBVIOUS
  <2>1. h[k] \in Int /\ h[k - 1] \in Int /\ Cong(n, h[k], h[k - 1] * s[k])
    BY ProductsCong
  <2>2. Unit(h[k - 1]) /\ Unit(s[k]) /\ s[k] \in Int
    OBVIOUS
  <2> DEFINE a == h[k - 1]
             b == s[k]
             c == h[k]
  <2>3. a \in Int /\ b \in Int /\ c \in Int /\ Unit(a) /\ Unit(b) /\ Cong(n, c, a * b)
    BY <2>1, <2>2
  <2> HIDE DEF a, b, c
  <2>4. Unit(a * b) /\ a * b \in Int
    BY <2>3, UnitTimes
  <2>5. Unit(c)
    BY <2>3, <2>4, UnitOfCong
  <2> QED BY <2>3, <2>5 DEF c
<1> HIDE DEF X, h
<1>4. \A k \in 0..m : h[k] \in X
  BY <1>2, <1>3, LoopInvariant
<1>5. Product(s) = h[m] /\ m \in 0..m
  BY ProductScalar DEF h
<1> QED BY <1>4, <1>5 DEF X

\* The identifiers a session may have.
Ids == 0..(n - 2)

LEMMA IdsAreIntegers == Ids \subseteq Int /\ Seq(Ids) \subseteq Seq(Int)
<1>1. Ids \subseteq Int
  BY OrderPositive DEF Ids
<1> HIDE DEF Ids
<1>2. ASSUME NEW s \in Seq(Ids) PROVE s \in Seq(Int)
  <2>1. s \in [1..Len(s) -> Ids] /\ Len(s) \in Nat
    OBVIOUS
  <2>2. s \in [1..Len(s) -> Int]
    BY <1>1, <2>1, Zenon
  <2> QED BY <2>1, <2>2
<1> QED BY <1>1, <1>2

\* The order being a prime, every number it does not divide has an inverse.
LEMMA UnitOfDifference ==
  ASSUME FrostAssumption, NEW i \in Ids, NEW j \in Ids, i # j
  PROVE  i - j \in Int /\ Unit(i - j)
<1>1. n \in Nat \ {0} /\ n > 2 /\ i \in 0..(n - 2) /\ j \in 0..(n - 2)
  BY OrderPositive DEF Ids
<1>2. i - j \in Int /\ (i - j) % n \in 0..(n - 1)
  BY <1>1, ModRange
<1>3. (i - j) % n # 0
  <2>1. CASE i > j
    <3>1. i - j \in 1..(n - 1) /\ (i - j) % n = i - j
      BY <1>1, <2>1
    <3> QED BY <3>1
  <2>2. CASE i < j
    <3>1. Cong(n, i - j, (i - j) + n)
      <4>1. (i - j) + n \in Int /\ i - j = ((i - j) + n) + n * (-1) /\ -1 \in Int
        BY <1>1
      <4> QED BY <1>1, <1>2, <4>1, CongShift
    <3>2. (i - j) + n \in 1..(n - 1) /\ ((i - j) + n) % n = (i - j) + n
      BY <1>1, <2>2
    <3> QED BY <3>1, <3>2 DEF Cong
  <2> QED BY <1>1, <2>1, <2>2
<1> DEFINE x == (i - j) % n
<1>4. x \in Finite /\ x \in Int /\ Cong(n, i - j, x)
  BY <1>2, <1>3, CongReduce DEF Finite, Point, INF
<1> HIDE DEF x
<1>5. PICK y \in Finite : Mult(x, y) = 1
  BY <1>4 DEF FrostAssumption
<1>6. y \in Scalar /\ y \in Int /\ (x * y) % n = 1
  BY <1>5 DEF Mult, Finite, Point, Scalar
<1>7. 1 % n = 1
  BY <1>1
<1>8. Unit(x)
  BY <1>6, <1>7 DEF Unit, Cong
<1> QED BY <1>2, <1>4, <1>8, UnitOfCong

-----------------------------------------------------------------------------
(***************************************************************************)
(* Interpolating values.                                                   *)
(***************************************************************************)
NumFactors(ids, my_id)  == [i \in DOMAIN ids |-> IF ids[i] = my_id THEN 1 ELSE ids[i] + 1]
DenoFactors(ids, my_id) == [i \in DOMAIN ids |-> IF ids[i] = my_id THEN 1 ELSE ids[i] - my_id]

\* The factors the general formula has at -1, each of the other sign.
NumFactorsAt(ids, my_id)  == [i \in DOMAIN ids |-> IF ids[i] = my_id THEN 1 ELSE -1 - ids[i]]
DenoFactorsAt(ids, my_id) == [i \in DOMAIN ids |-> IF ids[i] = my_id THEN 1 ELSE my_id - ids[i]]

LEMMA FactorsAreIntegers ==
  ASSUME NEW ids \in Seq(Int), NEW my_id \in Int
  PROVE  LET m == Len(ids) IN
         /\ m \in Nat /\ DOMAIN ids = 1..m
         /\ Len(NumFactors(ids, my_id)) = m /\ Len(DenoFactors(ids, my_id)) = m
         /\ Len(NumFactorsAt(ids, my_id)) = m /\ Len(DenoFactorsAt(ids, my_id)) = m
         /\ \A i \in 1..m :
              /\ NumFactors(ids, my_id)[i] \in Int /\ DenoFactors(ids, my_id)[i] \in Int
              /\ NumFactorsAt(ids, my_id)[i] \in Int /\ DenoFactorsAt(ids, my_id)[i] \in Int
<1> DEFINE m == Len(ids)
<1>1. m \in Nat /\ DOMAIN ids = 1..m /\ \A i \in 1..m : ids[i] \in Int
  OBVIOUS
<1>2. /\ DOMAIN NumFactors(ids, my_id) = 1..m /\ DOMAIN DenoFactors(ids, my_id) = 1..m
      /\ DOMAIN NumFactorsAt(ids, my_id) = 1..m /\ DOMAIN DenoFactorsAt(ids, my_id) = 1..m
  BY <1>1 DEF NumFactors, DenoFactors, NumFactorsAt, DenoFactorsAt
<1>3. \A i \in 1..m :
        /\ NumFactors(ids, my_id)[i] \in Int /\ DenoFactors(ids, my_id)[i] \in Int
        /\ NumFactorsAt(ids, my_id)[i] \in Int /\ DenoFactorsAt(ids, my_id)[i] \in Int
  BY <1>1 DEF NumFactors, DenoFactors, NumFactorsAt, DenoFactorsAt
<1> HIDE DEF m
<1>4. /\ Len(NumFactors(ids, my_id)) = m /\ Len(DenoFactors(ids, my_id)) = m
      /\ Len(NumFactorsAt(ids, my_id)) = m /\ Len(DenoFactorsAt(ids, my_id)) = m
  BY <1>1, <1>2, LenOfFunction
<1> QED BY <1>1, <1>3, <1>4 DEF m

\* The denominator of an interpolating value has an inverse.
LEMMA DenominatorUnit ==
  ASSUME FrostAssumption, NEW ids \in Seq(Ids), NEW my_id \in Ids
  PROVE  /\ Product(DenoFactors(ids, my_id)) \in Int /\ Unit(Product(DenoFactors(ids, my_id)))
         /\ Product(DenoFactorsAt(ids, my_id)) \in Int /\ Unit(Product(DenoFactorsAt(ids, my_id)))
<1> DEFINE m == Len(ids)
           s == DenoFactors(ids, my_id)
           t == DenoFactorsAt(ids, my_id)
<1>1. m \in Nat /\ DOMAIN ids = 1..m /\ \A i \in 1..m : ids[i] \in Ids
  OBVIOUS
<1>2. ids \in Seq(Int) /\ my_id \in Int
  BY IdsAreIntegers
<1>3. /\ Len(s) = m /\ Len(t) = m /\ \A i \in 1..m : s[i] \in Int /\ t[i] \in Int
  BY <1>2, FactorsAreIntegers
<1>4. Unit(1)
  <2>1. Cong(n, 1 * 1, 1) /\ 1 \in Scalar
    BY CongSelf, OrderPositive DEF Scalar
  <2> QED BY <2>1 DEF Unit
<1>5. \A i \in 1..m : Unit(s[i]) /\ Unit(t[i])
  <2> SUFFICES ASSUME NEW i \in 1..m PROVE Unit(s[i]) /\ Unit(t[i])
    OBVIOUS
  <2>1. CASE ids[i] = my_id
    BY <1>1, <1>4, <2>1 DEF DenoFactors, DenoFactorsAt
  <2>2. CASE ids[i] # my_id
    <3>1. Unit(ids[i] - my_id) /\ Unit(my_id - ids[i])
      BY <1>1, <2>2, UnitOfDifference
    <3>2. s[i] = ids[i] - my_id /\ t[i] = my_id - ids[i]
      BY <1>1, <2>2 DEF DenoFactors, DenoFactorsAt
    <3> QED BY <3>1, <3>2
  <2> QED BY <2>1, <2>2
<1> HIDE DEF m, s, t
<1>6. Product(s) \in Int /\ Product(t) \in Int
  BY <1>1, <1>3, ProductScalar
<1>7. Unit(Product(s)) /\ Unit(Product(t))
  BY <1>1, <1>3, <1>5, UnitProduct
<1> QED BY <1>6, <1>7 DEF s, t

LEMMA InterpolatingValueGood ==
  ASSUME FrostAssumption, NEW ids \in Seq(Ids), NEW my_id \in Ids
  PROVE  DeriveInterpolatingValue(ids, my_id) \in Scalar
         /\ DeriveInterpolatingValue(ids, my_id) \in Int
<1> DEFINE num == Product(NumFactors(ids, my_id))
           w == ModInverse(Product(DenoFactors(ids, my_id)))
<1>1. ids \in Seq(Int) /\ my_id \in Int
  BY IdsAreIntegers
<1>2. num \in Int
  BY <1>1, FactorsAreIntegers, ProductScalar
<1>3. w \in Int
  BY DenominatorUnit, InverseOfUnit
<1>4. DeriveInterpolatingValue(ids, my_id) = (num * w) % n
  BY DEF DeriveInterpolatingValue, NumFactors, DenoFactors
<1> HIDE DEF num, w
<1>5. num * w \in Int
  BY <1>2, <1>3
<1> QED BY <1>4, <1>5, CongReduce

\* One more factor, one more sign.
LEMMA SignedStep ==
  ASSUME NEW f \in {1, -1}, NEW e \in {1, -1},
         NEW a1 \in Int, NEW a0 \in Int, NEW a \in Int, NEW b1 \in Int, NEW b0 \in Int,
         NEW b \in Int, Cong(n, a1, a0 * a), Cong(n, b1, b0 * b), b = e * a,
         Cong(n, b0, f * a0)
  PROVE  Cong(n, b1, (f * e) * a1)
<1> DEFINE fe == f * e
           fa == f * a0
           aa == a0 * a
<1>1. fe \in Int /\ fa \in Int /\ aa \in Int /\ b0 * b \in Int
  OBVIOUS
<1>2. b0 * b = b * b0
  OBVIOUS
<1>3. b * fa = fe * aa
  <2>1. b * fa = (e * a) * (f * a0)
    OBVIOUS
  <2>2. (e * a) * (f * a0) = fe * aa
    OBVIOUS
  <2> QED BY <2>1, <2>2
<1>4. Cong(n, a1, aa) /\ Cong(n, b0, fa)
  OBVIOUS
<1> HIDE DEF fe, fa, aa
<1>5. Cong(n, b * b0, b * fa)
  BY <1>1, <1>4, CongScale
<1>6. Cong(n, fe * a1, fe * aa)
  BY <1>1, <1>4, CongScale
<1> QED BY <1>2, <1>3, <1>5, <1>6 DEF Cong, fe

\* Two sequences whose factors differ by the same signs have products that differ
\* by one sign.
LEMMA ProductsOfSigns ==
  ASSUME NEW m \in Nat, NEW s, NEW t, NEW u, NEW v,
         Len(s) = m, Len(t) = m, Len(u) = m, Len(v) = m,
         \A i \in 1..m : s[i] \in Int /\ t[i] \in Int /\ u[i] \in Int /\ v[i] \in Int,
         \A i \in 1..m : (t[i] = s[i] /\ v[i] = u[i]) \/ (t[i] = -s[i] /\ v[i] = -u[i])
  PROVE  \E f \in {1, -1} : /\ Cong(n, Product(t), f * Product(s))
                            /\ Cong(n, Product(v), f * Product(u))
<1> DEFINE S == Products(s)
           T == Products(t)
           U == Products(u)
           V == Products(v)
           same(k, f) == Cong(n, T[k], f * S[k]) /\ Cong(n, V[k], f * U[k])
           X == {k \in 0..m : \E f \in {1, -1} : same(k, f)}
           g == [k \in 0..m |-> k]
<1>1. S[0] = 1 /\ T[0] = 1 /\ U[0] = 1 /\ V[0] = 1
  BY ProductsStep
<1>2. \A k \in 1..m :
        /\ S[k] \in Int /\ S[k - 1] \in Int /\ Cong(n, S[k], S[k - 1] * s[k])
        /\ T[k] \in Int /\ T[k - 1] \in Int /\ Cong(n, T[k], T[k - 1] * t[k])
        /\ U[k] \in Int /\ U[k - 1] \in Int /\ Cong(n, U[k], U[k - 1] * u[k])
        /\ V[k] \in Int /\ V[k - 1] \in Int /\ Cong(n, V[k], V[k - 1] * v[k])
  BY ProductsCong
<1> HIDE DEF S, T, U, V
<1>3. g[0] \in X
  <2>1. same(0, 1)
    BY <1>1, CongSelf
  <2> QED BY <2>1
<1>4. ASSUME NEW k \in 1..m, g[k - 1] \in X PROVE g[k] \in X
  <2>1. PICK f \in {1, -1} : same(k - 1, f)
    BY <1>4
  <2>2. PICK e \in {1, -1} : t[k] = e * s[k] /\ v[k] = e * u[k]
    <3>1. s[k] \in Int /\ u[k] \in Int /\ t[k] \in Int /\ v[k] \in Int
      OBVIOUS
    <3>2. CASE t[k] = s[k] /\ v[k] = u[k]
      BY <3>1, <3>2
    <3>3. CASE t[k] = -s[k] /\ v[k] = -u[k]
      BY <3>1, <3>3
    <3> QED BY <3>2, <3>3
  <2>3. f * e \in {1, -1} /\ f \in Int /\ e \in Int
    OBVIOUS
  <2>4. Cong(n, T[k], (f * e) * S[k])
    <3> DEFINE a1 == S[k]  a0 == S[k - 1]  a == s[k]  b1 == T[k]  b0 == T[k - 1]  b == t[k]
    <3>1. /\ a1 \in Int /\ a0 \in Int /\ a \in Int /\ b1 \in Int /\ b0 \in Int /\ b \in Int
          /\ Cong(n, a1, a0 * a) /\ Cong(n, b1, b0 * b) /\ b = e * a /\ Cong(n, b0, f * a0)
      BY <1>2, <2>1, <2>2
    <3> HIDE DEF a1, a0, a, b1, b0, b
    <3>2. Cong(n, b1, (f * e) * a1)
      BY <3>1, SignedStep, ZenonT(60)
    <3> QED BY <3>2 DEF a1, b1
  <2>5. Cong(n, V[k], (f * e) * U[k])
    <3> DEFINE a1 == U[k]  a0 == U[k - 1]  a == u[k]  b1 == V[k]  b0 == V[k - 1]  b == v[k]
    <3>1. /\ a1 \in Int /\ a0 \in Int /\ a \in Int /\ b1 \in Int /\ b0 \in Int /\ b \in Int
          /\ Cong(n, a1, a0 * a) /\ Cong(n, b1, b0 * b) /\ b = e * a /\ Cong(n, b0, f * a0)
      BY <1>2, <2>1, <2>2
    <3> HIDE DEF a1, a0, a, b1, b0, b
    <3>2. Cong(n, b1, (f * e) * a1)
      BY <3>1, SignedStep, ZenonT(60)
    <3> QED BY <3>2 DEF a1, b1
  <2>6. same(k, f * e)
    BY <2>4, <2>5
  <2> HIDE DEF same
  <2>7. k \in X
    BY <2>3, <2>6
  <2> QED BY <2>7
<1>5. \A k \in 0..m : g[k] \in X
  <2> HIDE DEF g, X
  <2> QED BY <1>3, <1>4, LoopInvariant
<1>6. m \in X
  BY <1>5
<1>7. Product(s) = S[m] /\ Product(t) = T[m] /\ Product(u) = U[m] /\ Product(v) = V[m]
  BY DEF Product, S, T, U, V
<1> QED BY <1>6, <1>7

\* The signs cancel.
LEMMA SignsCancel ==
  ASSUME NEW f \in {1, -1}, NEW a \in Int, NEW b \in Int, NEW c \in Int, NEW d \in Int,
         NEW w \in Int, NEW z \in Int, Cong(n, b, f * a), Cong(n, d, f * c),
         Cong(n, c * w, 1), Cong(n, d * z, 1)
  PROVE  Cong(n, b * z, a * w)
<1> DEFINE fa == f * a
           fc == f * c
           cw == c * w
           dz == d * z
           x == f * (a * z)
           aw == a * w
           awz == aw * z
           one == 1
<1>1. /\ one \in Int /\ fa \in Int /\ fc \in Int /\ cw \in Int /\ dz \in Int /\ x \in Int /\ aw \in Int
      /\ awz \in Int
  OBVIOUS
<1>2. aw * dz = awz * d
  OBVIOUS
<1>3. awz * fc = x * cw
  OBVIOUS
<1>4. x * one = z * fa /\ aw * one = aw /\ b * z = z * b
  OBVIOUS
<1>5. Cong(n, b, fa) /\ Cong(n, d, fc) /\ Cong(n, cw, one) /\ Cong(n, dz, one)
  OBVIOUS
<1> HIDE DEF fa, fc, cw, dz, x, aw, awz, one
<1>6. Cong(n, z * b, z * fa)
  BY <1>1, <1>5, CongScale
<1>7. Cong(n, x * cw, x * one)
  BY <1>1, <1>5, CongScale
<1>8. Cong(n, aw * dz, aw * one)
  BY <1>1, <1>5, CongScale
<1>9. Cong(n, awz * d, awz * fc)
  BY <1>1, <1>5, CongScale
<1> QED BY <1>2, <1>3, <1>4, <1>6, <1>7, <1>8, <1>9 DEF Cong, aw

\* The interpolating value sign uses is the coefficient of the general formula at
\* -1, the argument the threshold key is the value at.
LEMMA CoefficientsAgree ==
  ASSUME FrostAssumption, NEW ids \in Seq(Ids), NEW my_id \in Ids
  PROVE  Coefficient(ids, my_id, -1) = DeriveInterpolatingValue(ids, my_id)
<1> DEFINE m == Len(ids)
           s == NumFactors(ids, my_id)
           t == NumFactorsAt(ids, my_id)
           u == DenoFactors(ids, my_id)
           v == DenoFactorsAt(ids, my_id)
           w == ModInverse(Product(u))
           z == ModInverse(Product(v))
<1>1. ids \in Seq(Int) /\ my_id \in Int
  BY IdsAreIntegers
<1>2. /\ m \in Nat /\ DOMAIN ids = 1..m
      /\ Len(s) = m /\ Len(t) = m /\ Len(u) = m /\ Len(v) = m
      /\ \A i \in 1..m : s[i] \in Int /\ t[i] \in Int /\ u[i] \in Int /\ v[i] \in Int
  BY <1>1, FactorsAreIntegers
<1>3. \A i \in 1..m : (t[i] = s[i] /\ v[i] = u[i]) \/ (t[i] = -s[i] /\ v[i] = -u[i])
  <2> SUFFICES ASSUME NEW i \in 1..m
               PROVE  (t[i] = s[i] /\ v[i] = u[i]) \/ (t[i] = -s[i] /\ v[i] = -u[i])
    OBVIOUS
  <2>1. ids[i] \in Int
    BY <1>1, <1>2
  <2>2. CASE ids[i] = my_id
    BY <1>2, <2>2 DEF NumFactors, NumFactorsAt, DenoFactors, DenoFactorsAt
  <2>3. CASE ids[i] # my_id
    <3>1. t[i] = -1 - ids[i] /\ s[i] = ids[i] + 1 /\ u[i] = ids[i] - my_id /\ v[i] = my_id - ids[i]
      BY <1>2, <2>3 DEF NumFactors, NumFactorsAt, DenoFactors, DenoFactorsAt
    <3> QED BY <1>1, <2>1, <3>1
  <2> QED BY <2>2, <2>3
<1>4. /\ Product(u) \in Int /\ Unit(Product(u)) /\ Product(v) \in Int /\ Unit(Product(v))
  BY DenominatorUnit
<1>5. /\ w \in Int /\ Cong(n, Product(u) * w, 1)
      /\ z \in Int /\ Cong(n, Product(v) * z, 1)
  BY <1>4, InverseOfUnit
<1>6. /\ DeriveInterpolatingValue(ids, my_id) = (Product(s) * w) % n
      /\ Coefficient(ids, my_id, -1) = (Product(t) * z) % n
  BY DEF DeriveInterpolatingValue, Coefficient, NumFactors, NumFactorsAt,
         DenoFactors, DenoFactorsAt
<1> HIDE DEF m, s, t, u, v, w, z
<1>7. Product(s) \in Int /\ Product(t) \in Int
  BY <1>2, ProductScalar
<1>8. PICK f \in {1, -1} : /\ Cong(n, Product(t), f * Product(s))
                           /\ Cong(n, Product(v), f * Product(u))
  BY <1>2, <1>3, ProductsOfSigns
<1>9. Cong(n, Product(t) * z, Product(s) * w)
  BY <1>4, <1>5, <1>7, <1>8, SignsCancel
<1> QED BY <1>6, <1>9 DEF Cong

-----------------------------------------------------------------------------
(***************************************************************************)
(* The parameters of a session, its key and its values.                    *)
(***************************************************************************)

\* The parameters of a session pass when they pass each of the checks.
PassesChecks(total, t, ids, shares, thresh_pk) ==
  /\ t \in 1..total /\ ~(total > MaxParticipants) /\ Len(ids) \in t..total
  /\ ~(shares # Unknown /\ Len(shares) # Len(ids))
  /\ \A i \in DOMAIN ids : ParseShare(total, ids, shares, i) = "ok"
  /\ IsInjective(ids)
  /\ shares # Unknown => /\ DeriveThreshPubkey(ids, shares) # INF
                         /\ DeriveThreshPubkey(ids, shares) = thresh_pk
LEMMA ParamsPass ==
  ASSUME NEW total \in Int, NEW t \in Int, NEW ids \in Seq(Int), NEW shares, NEW thresh_pk
  PROVE  ValidateSessionParams(total, t, ids, shares, thresh_pk) = "ok"
           <=> PassesChecks(total, t, ids, shares, thresh_pk)
<1> DEFINE refused == {i \in DOMAIN ids : ParseShare(total, ids, shares, i) # "ok"}
           Q == DeriveThreshPubkey(ids, shares)
           first == CHOOSE i \in refused : \A j \in refused : i <= j
           error == ParseShare(total, ids, shares, first)
           res == ValidateSessionParams(total, t, ids, shares, thresh_pk)
<1>1. res = IF t \notin 1..total THEN "threshold range"
            ELSE IF total > MaxParticipants THEN "too many"
            ELSE IF Len(ids) \notin t..total THEN "signers"
            ELSE IF shares # Unknown /\ Len(shares) # Len(ids) THEN "lengths"
            ELSE IF refused # {} THEN error
            ELSE IF ~IsInjective(ids) THEN "duplicates"
            ELSE IF shares = Unknown THEN "ok"
            ELSE IF Q = INF THEN "infinite threshold"
            ELSE IF Q # thresh_pk THEN "mismatch"
            ELSE "ok"
  BY DEF ValidateSessionParams
<1>2. refused # {} => error # "ok"
  <2> SUFFICES ASSUME refused # {} PROVE error # "ok"
    OBVIOUS
  <2>1. refused \in SUBSET Nat
    <3>1. DOMAIN ids \subseteq Nat
      OBVIOUS
    <3> QED BY <3>1
  <2>2. PICK x \in refused : \A y \in refused : ~(y < x)
    BY <2>1, LeastElement
  <2>3. \A y \in refused : x <= y
    BY <2>1, <2>2
  <2> HIDE DEF refused
  <2>4. first \in refused
    BY <2>2, <2>3
  <2> QED BY <2>4 DEF refused
<1>3. refused = {} <=> \A i \in DOMAIN ids : ParseShare(total, ids, shares, i) = "ok"
  OBVIOUS
<1> HIDE DEF error, first, refused, Q, res
<1>4. ASSUME res = "ok"
      PROVE  /\ t \in 1..total /\ ~(total > MaxParticipants) /\ Len(ids) \in t..total
             /\ ~(shares # Unknown /\ Len(shares) # Len(ids)) /\ refused = {}
             /\ IsInjective(ids) /\ (shares # Unknown => Q # INF /\ Q = thresh_pk)
  <2>1. t \in 1..total
    BY <1>1, <1>4
  <2>2. ~(total > MaxParticipants)
    BY <1>1, <1>4, <2>1
  <2>3. Len(ids) \in t..total
    BY <1>1, <1>4, <2>1, <2>2
  <2>4. ~(shares # Unknown /\ Len(shares) # Len(ids))
    BY <1>1, <1>4, <2>1, <2>2, <2>3
  <2>5. refused = {}
    BY <1>1, <1>2, <1>4, <2>1, <2>2, <2>3, <2>4
  <2>6. IsInjective(ids)
    BY <1>1, <1>4, <2>1, <2>2, <2>3, <2>4, <2>5
  <2>7. shares # Unknown => Q # INF /\ Q = thresh_pk
    BY <1>1, <1>4, <2>1, <2>2, <2>3, <2>4, <2>5, <2>6
  <2> QED BY <2>1, <2>2, <2>3, <2>4, <2>5, <2>6, <2>7
<1>5. ASSUME t \in 1..total, ~(total > MaxParticipants), Len(ids) \in t..total,
             ~(shares # Unknown /\ Len(shares) # Len(ids)), refused = {}, IsInjective(ids),
             shares # Unknown => Q # INF /\ Q = thresh_pk
      PROVE  res = "ok"
  BY <1>1, <1>5, Zenon
<1> DEFINE checks == PassesChecks(total, t, ids, shares, thresh_pk)
<1>6. checks <=>
        /\ t \in 1..total /\ ~(total > MaxParticipants) /\ Len(ids) \in t..total
        /\ ~(shares # Unknown /\ Len(shares) # Len(ids)) /\ refused = {}
        /\ IsInjective(ids) /\ (shares # Unknown => Q # INF /\ Q = thresh_pk)
  BY <1>3, Zenon DEF PassesChecks, Q
<1> HIDE DEF checks
<1>7. res = "ok" => checks
  BY <1>4, <1>6, Zenon
<1>8. checks => res = "ok"
  BY <1>5, <1>6, Zenon
<1> QED BY <1>7, <1>8 DEF res, checks

\* What these checks leave: distinct identifiers in range, and public shares, if
\* known, that give the threshold key.
LEMMA ParamsAre ==
  ASSUME FrostAssumption, NEW total \in Int, NEW t \in Int, NEW ids \in Seq(Int),
         NEW shares, shares = Unknown \/ shares \in Seq(Encoding), NEW thresh_pk,
         ValidateSessionParams(total, t, ids, shares, thresh_pk) = "ok"
  PROVE  /\ ids \in Seq(Ids) /\ IsInjective(ids) /\ Len(ids) >= 1
         /\ shares # Unknown =>
              /\ DOMAIN shares = DOMAIN ids
              /\ \A i \in DOMAIN ids : shares[i] \in Finite
              /\ DeriveThreshPubkey(ids, shares) = thresh_pk /\ thresh_pk # INF
<1> DEFINE Q == DeriveThreshPubkey(ids, shares)
<1>0. PassesChecks(total, t, ids, shares, thresh_pk)
  BY ParamsPass, Zenon
<1>1. /\ t \in 1..total /\ ~(total > MaxParticipants) /\ Len(ids) \in t..total
      /\ ~(shares # Unknown /\ Len(shares) # Len(ids))
      /\ \A i \in DOMAIN ids : ParseShare(total, ids, shares, i) = "ok"
      /\ IsInjective(ids)
      /\ shares # Unknown => Q # INF /\ Q = thresh_pk
  BY <1>0, Zenon DEF PassesChecks
<1> HIDE DEF Q
<1>4. t \in 1..total
  BY <1>1
<1>5. ~(total > MaxParticipants)
  BY <1>1
<1>6. Len(ids) \in t..total
  BY <1>1
<1>7. ~(shares # Unknown /\ Len(shares) # Len(ids))
  BY <1>1
<1>9. IsInjective(ids)
  BY <1>1
<1>10. shares # Unknown => Q # INF /\ Q = thresh_pk
  BY <1>1
<1>11. total \in Nat /\ total < n /\ Len(ids) >= 1
  <2>1. MaxParticipants \in Nat /\ MaxParticipants < n
    BY DEF FrostAssumption
  <2>2. n \in Nat
    BY OrderPositive
  <2> QED BY <1>4, <1>5, <1>6, <2>1, <2>2
<1>12. \A i \in DOMAIN ids : ids[i] \in 0..(total - 1) /\ (shares # Unknown => shares[i] # Bad)
  <2> SUFFICES ASSUME NEW i \in DOMAIN ids
               PROVE  ids[i] \in 0..(total - 1) /\ (shares # Unknown => shares[i] # Bad)
    OBVIOUS
  <2>1. ParseShare(total, ids, shares, i) = "ok"
    BY <1>1
  <2>2. ParseShare(total, ids, shares, i)
          = IF ids[i] \notin 0..(total - 1) THEN "id"
            ELSE IF shares # Unknown /\ shares[i] = Bad THEN "pubshare" ELSE "ok"
    BY DEF ParseShare
  <2> QED BY <2>1, <2>2
<1>13. ids \in Seq(Ids)
  <2>1. \A i \in DOMAIN ids : ids[i] \in Ids
    <3>1. \A x \in 0..(total - 1) : x \in Ids
      BY <1>11, OrderPositive DEF Ids
    <3> QED BY <1>12, <3>1
  <2>2. Len(ids) \in Nat /\ ids \in [1..Len(ids) -> Int] /\ DOMAIN ids = 1..Len(ids)
    OBVIOUS
  <2>3. ids \in [1..Len(ids) -> Ids]
    BY <2>1, <2>2, Zenon
  <2> QED BY <2>2, <2>3
<1>14. shares # Unknown => DOMAIN shares = DOMAIN ids /\ \A i \in DOMAIN ids : shares[i] \in Finite
  <2> SUFFICES ASSUME shares # Unknown
               PROVE  DOMAIN shares = DOMAIN ids /\ \A i \in DOMAIN ids : shares[i] \in Finite
    OBVIOUS
  <2>1. shares \in Seq(Encoding) /\ Len(shares) = Len(ids)
    BY <1>7
  <2>2. DOMAIN shares = DOMAIN ids /\ \A i \in DOMAIN shares : shares[i] \in Encoding
    BY <2>1
  <2> QED BY <1>12, <2>2 DEF Encoding
<1> QED BY <1>9, <1>10, <1>11, <1>13, <1>14 DEF Q

\* The keys the tweaks make of a threshold key.
KeyErrors == {"threshold key", "tweak range", "infinite key"}
GoodKeys == {k \in [err : KeyErrors \cup {"ok"}, Q : Point, gacc : Scalar, tacc : Scalar] :
               k.err = "ok" => k.Q \in Finite}

LEMMA KeyErrorGood ==
  ASSUME NEW err \in KeyErrors
  PROVE  KeyError(err) \in GoodKeys /\ KeyError(err).err = err
<1>1. INF \in Point /\ 1 \in Scalar /\ 0 \in Scalar
  BY OrderPositive DEF INF, Point, Scalar
<1> QED BY <1>1 DEF KeyError, GoodKeys, KeyErrors

LEMMA TweakCtxInitGood ==
  ASSUME NEW thresh_pk \in Encoding
  PROVE  /\ TweakCtxInit(thresh_pk) \in GoodKeys
         /\ TweakCtxInit(thresh_pk).err = "ok" =>
              /\ thresh_pk \in Finite /\ TweakCtxInit(thresh_pk).Q = thresh_pk
              /\ TweakCtxInit(thresh_pk).gacc = 1 /\ TweakCtxInit(thresh_pk).tacc = 0
<1>1. 1 \in Scalar /\ 0 \in Scalar
  BY OrderPositive DEF Scalar
<1>2. CASE thresh_pk = Bad
  <2>1. TweakCtxInit(thresh_pk) = KeyError("threshold key")
    BY <1>2 DEF TweakCtxInit
  <2> QED BY <2>1, KeyErrorGood DEF KeyErrors
<1>3. CASE thresh_pk # Bad
  <2>1. thresh_pk \in Finite /\ thresh_pk \in Point
    BY <1>3 DEF Encoding, Finite
  <2>2. TweakCtxInit(thresh_pk) = [err |-> "ok", Q |-> thresh_pk, gacc |-> 1, tacc |-> 0]
    BY <1>3 DEF TweakCtxInit
  <2> QED BY <1>1, <2>1, <2>2 DEF GoodKeys
<1> QED BY <1>2, <1>3

\* One tweak gives a key of the same kind, and keeps it g*Q + t of the untweaked
\* key Q, g and t being the two accumulators.
LEMMA ApplyTweakGood ==
  ASSUME NEW k \in GoodKeys, NEW tweak \in Tweak
  PROVE  /\ ApplyTweak(k, tweak) \in GoodKeys
         /\ ApplyTweak(k, tweak).err = "ok" => k.err = "ok"
         /\ \A Q0 \in Int :
              Cong(n, k.Q, k.gacc * Q0 + k.tacc) /\ ApplyTweak(k, tweak).err = "ok"
                => Cong(n, ApplyTweak(k, tweak).Q,
                        ApplyTweak(k, tweak).gacc * Q0 + ApplyTweak(k, tweak).tacc)
<1> DEFINE flip == tweak.is_xonly /\ HasOddY(k.Q)
           g == IF flip THEN n - 1 ELSE 1
           P == Mult(g, k.Q)
           t == tweak.t
           Q == k.Q
           ga == k.gacc
           ta == k.tacc
           Qn == Add(P, Mult(t, G))
           j == ApplyTweak(k, tweak)
           new == [err |-> "ok", Q |-> Qn, gacc |-> (g * ga) % n, tacc |-> (t + g * ta) % n]
<1>1. n \in Int /\ Q \in Int /\ ga \in Int /\ ta \in Int /\ t \in Int
  BY OrderPositive DEF GoodKeys, Point, Scalar, Tweak
<1>2. j = IF k.err # "ok" THEN k
          ELSE IF t >= n THEN KeyError("tweak range")
          ELSE IF Qn = INF THEN KeyError("infinite key")
          ELSE new
  BY DEF ApplyTweak
<1>3. g \in Int
  BY <1>1
<1>4. new.err = "ok" /\ new.Q = Qn /\ new.gacc = (g * ga) % n /\ new.tacc = (t + g * ta) % n
  OBVIOUS
<1> HIDE DEF flip, g, t, Q, ga, ta
<1>5. g * Q \in Int /\ g * ga \in Int /\ t + g * ta \in Int
  BY <1>1, <1>3
<1>6. P \in Int /\ Cong(n, P, g * Q)
  BY <1>5, CongReduce DEF Mult, Q
<1> HIDE DEF P
<1>7. (g * ga) % n \in Scalar /\ (t + g * ta) % n \in Scalar
  BY <1>5, CongReduce
<1>8. Qn \in Point
  <2>1. G \in Int
    BY DEF G
  <2>2. Mult(t, G) \in Int
    BY <1>1, <2>1, GroupClosed DEF Point
  <2> QED BY <1>6, <2>2, GroupClosed
<1>9. \A Q0 \in Int : Cong(n, Q, ga * Q0 + ta)
        => Cong(n, Qn, ((g * ga) % n) * Q0 + ((t + g * ta) % n))
  BY <1>1, <1>3, <1>6, TweakArithmetic
<1>10. Qn # INF => new \in GoodKeys
  BY <1>7, <1>8 DEF GoodKeys, Finite
<1> HIDE DEF Qn, new, j
<1>11. CASE k.err # "ok"
  <2>1. j = k
    BY <1>2, <1>11
  <2> QED BY <1>11, <2>1 DEF j
<1>12. CASE k.err = "ok" /\ t >= n
  <2>1. j = KeyError("tweak range")
    BY <1>2, <1>12
  <2>2. j \in GoodKeys /\ j.err = "tweak range"
    BY <2>1, KeyErrorGood DEF KeyErrors
  <2> QED BY <2>2 DEF j
<1>13. CASE k.err = "ok" /\ ~(t >= n) /\ Qn = INF
  <2>1. j = KeyError("infinite key")
    BY <1>2, <1>13
  <2>2. j \in GoodKeys /\ j.err = "infinite key"
    BY <2>1, KeyErrorGood DEF KeyErrors
  <2> QED BY <2>2 DEF j
<1>14. CASE k.err = "ok" /\ ~(t >= n) /\ Qn # INF
  <2>1. j = new
    BY <1>2, <1>14
  <2>2. /\ j \in GoodKeys /\ j.Q = Qn /\ j.gacc = (g * ga) % n /\ j.tacc = (t + g * ta) % n
    BY <1>4, <1>10, <1>14, <2>1
  <2> QED BY <1>9, <1>14, <2>2 DEF j, Q, ga, ta
<1> QED BY <1>11, <1>12, <1>13, <1>14

\* What the loop over the tweaks keeps of a key: it is g*Q + t of the threshold
\* key Q, g and t being the two accumulators.
AffineKeys(thresh_pk) ==
  {k \in GoodKeys : k.err = "ok" => /\ thresh_pk \in Finite
                                    /\ Cong(n, k.Q, k.gacc * thresh_pk + k.tacc)}

LEMMA TweakedKeyIsAffine ==
  ASSUME NEW thresh_pk \in Encoding, NEW tweaks \in Seq(Tweak)
  PROVE  ThreshPubkeyAndTweak(thresh_pk, tweaks) \in AffineKeys(thresh_pk)
<1> DEFINE m == Len(tweaks)
           step(k, i) == ApplyTweak(k, tweaks[i])
           x0 == TweakCtxInit(thresh_pk)
           X == AffineKeys(thresh_pk)
           F == [p \in X \X (1..m) |-> step(p[1], p[2])]
<1>1. m \in Nat /\ \A i \in 1..m : tweaks[i] \in Tweak
  OBVIOUS
<1>2. x0 \in X
  <2>1. x0 \in GoodKeys /\ (x0.err = "ok" => /\ thresh_pk \in Finite /\ x0.Q = thresh_pk
                                             /\ x0.gacc = 1 /\ x0.tacc = 0)
    BY TweakCtxInitGood
  <2> HIDE DEF x0
  <2>2. thresh_pk \in Finite => Cong(n, thresh_pk, 1 * thresh_pk + 0)
    <3> SUFFICES ASSUME thresh_pk \in Finite PROVE Cong(n, thresh_pk, 1 * thresh_pk + 0)
      OBVIOUS
    <3>1. 1 * thresh_pk + 0 = thresh_pk
      BY DEF Finite, Point
    <3> QED BY <3>1, CongSelf
  <2>3. x0.err = "ok" => thresh_pk \in Finite /\ Cong(n, x0.Q, x0.gacc * thresh_pk + x0.tacc)
    BY <2>1, <2>2
  <2> QED BY <2>1, <2>3 DEF AffineKeys
<1>3. \A k \in X, i \in 1..m : step(k, i) \in X
  <2> SUFFICES ASSUME NEW k \in X, NEW i \in 1..m PROVE step(k, i) \in X
    OBVIOUS
  <2> DEFINE j == ApplyTweak(k, tweaks[i])
  <2>1. k \in GoodKeys /\ tweaks[i] \in Tweak
    BY <1>1 DEF AffineKeys
  <2>2. /\ j \in GoodKeys /\ (j.err = "ok" => k.err = "ok")
        /\ \A Q0 \in Int : Cong(n, k.Q, k.gacc * Q0 + k.tacc) /\ j.err = "ok"
             => Cong(n, j.Q, j.gacc * Q0 + j.tacc)
    BY <2>1, ApplyTweakGood
  <2>3. k.err = "ok" => thresh_pk \in Finite /\ Cong(n, k.Q, k.gacc * thresh_pk + k.tacc)
    BY DEF AffineKeys
  <2>4. thresh_pk \in Finite => thresh_pk \in Int
    BY DEF Finite, Point
  <2> HIDE DEF j
  <2>5. j \in X
    BY <2>2, <2>3, <2>4 DEF AffineKeys
  <2> QED BY <2>5 DEF j
<1> HIDE DEF step, m, x0, X
<1>4. F \in [X \X (1..m) -> X] /\ \A k \in X, i \in 1..m : F[<<k, i>>] = step(k, i)
  BY <1>3
<1> HIDE DEF F
<1>5. PICK g : Iterates(g, X, x0, F, m)
  BY <1>1, <1>2, <1>4, BoundedRecursionExists
<1>6. g = [i \in 0..m |-> IF i = 0 THEN x0 ELSE step(g[i - 1], i)]
  <2>1. g \in [0..m -> X] /\ g[0] = x0 /\ \A i \in 1..m : g[i] = F[<<g[i - 1], i>>]
    BY <1>5 DEF Iterates
  <2>2. \A i \in 1..m : g[i - 1] \in X
    BY <1>1, <2>1
  <2>3. \A i \in 1..m : g[i] = step(g[i - 1], i)
    BY <1>4, <2>1, <2>2, Zenon
  <2>4. g = [i \in 0..m |-> g[i]]
    BY <2>1
  <2>5. \A i \in 0..m : i = 0 \/ i \in 1..m
    BY <1>1
  <2>6. \A i \in 0..m : g[i] = IF i = 0 THEN x0 ELSE step(g[i - 1], i)
    BY <2>1, <2>3, <2>5, Zenon
  <2> QED BY <2>4, <2>6, Zenon
<1>7. TweakedKeys(thresh_pk, tweaks)
        = CHOOSE h : h = [i \in 0..m |-> IF i = 0 THEN x0 ELSE step(h[i - 1], i)]
  BY DEF TweakedKeys, m, x0, step
<1> DEFINE h == TweakedKeys(thresh_pk, tweaks)
<1>8. h = [i \in 0..m |-> IF i = 0 THEN x0 ELSE step(h[i - 1], i)]
  BY <1>6, <1>7
<1> HIDE DEF h
<1>9. \A i \in 0..m : h[i] = IF i = 0 THEN x0 ELSE step(h[i - 1], i)
  BY <1>8, Zenon
<1>10. 0 \in 0..m /\ m \in 0..m /\ \A i \in 1..m : i \in 0..m /\ i # 0
  BY <1>1
<1>11. h[0] \in X /\ \A i \in 1..m : h[i - 1] \in X => h[i] \in X
  BY <1>2, <1>3, <1>9, <1>10, Zenon
<1>12. \A i \in 0..m : h[i] \in X
  BY <1>1, <1>11, LoopInvariant
<1>13. ThreshPubkeyAndTweak(thresh_pk, tweaks) = h[m]
  BY DEF ThreshPubkeyAndTweak, h, m
<1> QED BY <1>10, <1>12, <1>13 DEF X

\* What the functions of a session rely on of its context.
IsContext(ctx) ==
  /\ ctx.total \in Int /\ ctx.t \in Int /\ ctx.ids \in Seq(Int) /\ ToSet(ctx.ids) \in SignerSets
  /\ ctx.pub_shares = Unknown \/ ctx.pub_shares \in Seq(Encoding)
  /\ ctx.thresh_pk \in Encoding /\ ctx.tweaks \in Seq(Tweak) /\ ctx.msg \in Msg
  /\ ctx.aggNonce \in ExtEncoding \X ExtEncoding

IsValues(v) ==
  /\ v.Q \in Finite /\ v.gacc \in Scalar /\ v.tacc \in Scalar
  /\ v.b \in Scalar /\ v.R \in Finite /\ v.e \in Scalar

ParamsOf(ctx) ==
  ValidateSessionParams(ctx.total, ctx.t, ctx.ids, ctx.pub_shares, ctx.thresh_pk)
KeyOf(ctx) == ThreshPubkeyAndTweak(ctx.thresh_pk, ctx.tweaks)

\* What the values of a session that comes together are made of.
LEMMA SessionValuesAre ==
  ASSUME FrostAssumption, NEW ctx, IsContext(ctx), SessionValues(ctx).err = "ok"
  PROVE  LET v == SessionValues(ctx)
             b == NonceCoeff(ctx.ids, ctx.aggNonce[1], ctx.aggNonce[2], XOnly(v.Q), ctx.msg)
         IN  /\ ParamsOf(ctx) = "ok" /\ KeyOf(ctx).err = "ok"
             /\ IsValues(v)
             /\ v.Q = KeyOf(ctx).Q /\ v.gacc = KeyOf(ctx).gacc /\ v.tacc = KeyOf(ctx).tacc
             /\ ctx.aggNonce[1] \in Point /\ ctx.aggNonce[2] \in Point
             /\ v.b = b
             /\ v.e = Challenge[XOnly(v.R), XOnly(v.Q), ctx.msg] /\ v.e # 0
             /\ ~v.placeholder => v.R = Add(ctx.aggNonce[1], Mult(b, ctx.aggNonce[2]))
<1> DEFINE params == ParamsOf(ctx)
           key == KeyOf(ctx)
           v == SessionValues(ctx)
           x_Q == XOnly(key.Q)
           R_1 == ctx.aggNonce[1]
           R_2 == ctx.aggNonce[2]
           b   == NonceCoeff(ctx.ids, R_1, R_2, x_Q, ctx.msg)
           R0  == Add(R_1, Mult(b, R_2))
           R   == IF R0 = INF THEN G ELSE R0
           e   == Challenge[XOnly(R), x_Q, ctx.msg]
           values == [err |-> "ok", Q |-> key.Q, gacc |-> key.gacc, tacc |-> key.tacc,
                      b |-> b, R |-> R, e |-> e, placeholder |-> R0 = INF]
<1>1. v = IF params # "ok" THEN SessionError(params)
          ELSE IF key.err # "ok" THEN SessionError(key.err)
          ELSE IF Bad \in {R_1, R_2} THEN SessionError("aggnonce")
          ELSE IF e = 0 THEN SessionError("zero challenge")
          ELSE values
  BY DEF SessionValues, SessionOf, ParamsOf, KeyOf
<1>2. v.err = "ok"
  OBVIOUS
<1>3. /\ R = IF R0 = INF THEN G ELSE R0
      /\ e = Challenge[XOnly(R), x_Q, ctx.msg]
      /\ R0 = Add(R_1, Mult(b, R_2))
      /\ values.Q = key.Q /\ values.gacc = key.gacc /\ values.tacc = key.tacc
      /\ values.e = e /\ values.b = b /\ values.R = R
      /\ values.placeholder = (R0 = INF)
  OBVIOUS
<1>4. key \in AffineKeys(ctx.thresh_pk)
  BY TweakedKeyIsAffine DEF IsContext, KeyOf
<1>5. b = NonceCoeffHash[<<ToSet(ctx.ids), R_1, R_2, x_Q, ctx.msg>>]
  BY DEF NonceCoeff
<1>6. x_Q = XOnly(key.Q)
  OBVIOUS
<1> HIDE DEF params, key, v, b, R0, R, e, values, x_Q
<1>7. \A err : SessionError(err).err = err
  BY DEF SessionError
<1>8. /\ params = "ok" /\ key.err = "ok" /\ Bad \notin {R_1, R_2} /\ e # 0 /\ v = values
  <2>1. params = "ok"
    BY <1>1, <1>2, <1>7, Zenon
  <2>2. key.err = "ok"
    BY <1>1, <1>2, <1>7, <2>1, Zenon
  <2>3. Bad \notin {R_1, R_2}
    <3> SUFFICES ASSUME Bad \in {R_1, R_2} PROVE FALSE
      OBVIOUS
    <3>1. v = SessionError("aggnonce")
      BY <1>1, <2>1, <2>2, Zenon
    <3>2. v.err = "aggnonce"
      BY <1>7, <3>1
    <3> QED BY <1>2, <3>2
  <2>4. e # 0
    <3> SUFFICES ASSUME e = 0 PROVE FALSE
      OBVIOUS
    <3>1. v = SessionError("zero challenge")
      BY <1>1, <2>1, <2>2, <2>3, Zenon
    <3>2. v.err = "zero challenge"
      BY <1>7, <3>1
    <3> QED BY <1>2, <3>2
  <2>5. v = values
    BY <1>1, <2>1, <2>2, <2>3, <2>4, Zenon
  <2> QED BY <2>1, <2>2, <2>3, <2>4, <2>5
<1>9. R_1 \in Point /\ R_2 \in Point
  BY <1>8 DEF IsContext, ExtEncoding
<1> HIDE DEF R_1, R_2
<1>10. key.Q \in Finite /\ key.gacc \in Scalar /\ key.tacc \in Scalar
  BY <1>4, <1>8 DEF AffineKeys, GoodKeys
<1>11. x_Q \in Finite
  BY <1>10, XOnlyFinite DEF x_Q
<1>12. b \in Scalar
  <2>1. ToSet(ctx.ids) \in SignerSets /\ ctx.msg \in Msg
    BY DEF IsContext
  <2> DEFINE S == ToSet(ctx.ids)
             msg == ctx.msg
  <2>2. S \in SignerSets /\ msg \in Msg
    BY <2>1
  <2> HIDE DEF S, msg
  <2>3. NonceCoeffHash[<<S, R_1, R_2, x_Q, msg>>] \in Scalar
    BY <1>9, <1>11, <2>2 DEF FrostAssumption
  <2> QED BY <1>5, <2>3 DEF S, msg
<1>13. R0 \in Point
  <2>1. R_1 \in Int /\ b \in Int /\ R_2 \in Int
    BY <1>9, <1>12 DEF Point, Scalar
  <2>2. Mult(b, R_2) \in Int
    BY <2>1, GroupClosed DEF Point
  <2> QED BY <2>1, <2>2, GroupClosed DEF R0
<1>14. R \in Finite
  <2>1. G \in Finite
    BY OrderPositive DEF Finite, Point, G, INF
  <2> QED BY <1>3, <1>13, <2>1 DEF Finite
<1>15. e \in Scalar
  <2>1. XOnly(R) \in Finite
    BY <1>14, XOnlyFinite
  <2>2. XOnly(R) \in Scalar /\ x_Q \in Scalar
    BY <1>11, <2>1 DEF Finite, Point, Scalar
  <2> QED BY <1>3, <2>2, GroupAssumption DEF IsContext
<1>16. v.Q = key.Q /\ v.gacc = key.gacc /\ v.tacc = key.tacc /\ v.e = e /\ v.R = R /\ v.b = b
       /\ v.placeholder = (R0 = INF)
  BY <1>3, <1>8, Zenon
<1>17. IsValues(v)
  BY <1>10, <1>12, <1>14, <1>15, <1>16 DEF IsValues
<1>18. /\ v.b = NonceCoeff(ctx.ids, R_1, R_2, XOnly(v.Q), ctx.msg)
       /\ v.e = Challenge[XOnly(v.R), XOnly(v.Q), ctx.msg]
  BY <1>3, <1>6, <1>16, Zenon DEF b
<1>19. ~v.placeholder => v.R = Add(R_1, Mult(v.b, R_2))
  BY <1>3, <1>16, Zenon
<1> QED BY <1>8, <1>9, <1>16, <1>17, <1>18, <1>19, Zenon DEF v, params, key, R_1, R_2

-----------------------------------------------------------------------------
(***************************************************************************)
(* Aggregate nonces and partial signatures.                                *)
(***************************************************************************)
Half(nonces, j) == [i \in DOMAIN nonces |-> nonces[i][j]]

\* nonce_agg blames a nonce with a half that is no point, or returns the two sums.
LEMMA NonceAggAre ==
  ASSUME NEW nonces, NEW m \in Nat, DOMAIN nonces = 1..m,
         \A i \in 1..m : nonces[i] \in ExtEncoding \X ExtEncoding
  PROVE  /\ NonceAgg(nonces).err \in {"ok", "pubnonce"}
         /\ NonceAgg(nonces).err = "ok" =>
              /\ \A i \in 1..m : nonces[i][1] \in Point /\ nonces[i][2] \in Point
              /\ NonceAgg(nonces).R = <<SumAll(Half(nonces, 1)), SumAll(Half(nonces, 2))>>
              /\ SumAll(Half(nonces, 1)) \in Point /\ SumAll(Half(nonces, 2)) \in Point
         /\ NonceAgg(nonces).err = "pubnonce" =>
              LET who == NonceAgg(nonces).who IN
              who \in 1..m /\ Bad \in {nonces[who][1], nonces[who][2]}
<1> DEFINE bad(j) == {i \in DOMAIN nonces : nonces[i][j] = Bad}
           first(S) == CHOOSE i \in S : \A k \in S : i <= k
           blamed == IF bad(1) # {} THEN bad(1) ELSE bad(2)
           h1 == Half(nonces, 1)
           h2 == Half(nonces, 2)
           agg == NonceAgg(nonces)
<1>1. agg = IF bad(1) \cup bad(2) = {}
            THEN [err |-> "ok", who |-> 0, R |-> <<SumAll(h1), SumAll(h2)>>]
            ELSE [err |-> "pubnonce", R |-> <<INF, INF>>, who |-> first(blamed)]
  BY DEF NonceAgg, Half
<1>2. ASSUME bad(1) \cup bad(2) = {}
      PROVE  /\ \A i \in 1..m : nonces[i][1] \in Point /\ nonces[i][2] \in Point
             /\ SumAll(h1) \in Point /\ SumAll(h2) \in Point
  <2>1. \A i \in 1..m : nonces[i][1] \in Point /\ nonces[i][2] \in Point
    BY <1>2 DEF ExtEncoding
  <2>2. /\ DOMAIN h1 = 1..m /\ DOMAIN h2 = 1..m
        /\ \A i \in 1..m : h1[i] \in Int /\ h2[i] \in Int
    BY <2>1 DEF Half, Point
  <2> HIDE DEF h1, h2
  <2>3. Len(h1) = m /\ Len(h2) = m
    BY <2>2, LenOfFunction
  <2>4. SumAll(h1) \in Scalar /\ SumAll(h2) \in Scalar
    BY <2>2, <2>3, SumScalar
  <2> QED BY <2>1, <2>4 DEF Scalar, Point
<1>3. ASSUME bad(1) \cup bad(2) # {}
      PROVE  first(blamed) \in 1..m
             /\ Bad \in {nonces[first(blamed)][1], nonces[first(blamed)][2]}
  <2>1. blamed # {} /\ blamed \in SUBSET Nat /\ \A i \in blamed : i \in 1..m
    BY <1>3
  <2>2. \A i \in blamed : Bad \in {nonces[i][1], nonces[i][2]}
    OBVIOUS
  <2> HIDE DEF blamed
  <2>3. PICK x \in blamed : \A y \in blamed : ~(y < x)
    BY <2>1, LeastElement
  <2>4. \A y \in blamed : x <= y
    BY <2>1, <2>3
  <2>5. first(blamed) \in blamed
    BY <2>3, <2>4
  <2> QED BY <2>1, <2>2, <2>5
<1> HIDE DEF bad, first, h1, h2, blamed
<1>4. CASE bad(1) \cup bad(2) = {}
  <2>1. agg = [err |-> "ok", who |-> 0, R |-> <<SumAll(h1), SumAll(h2)>>]
    BY <1>1, <1>4
  <2>2. agg.err = "ok" /\ agg.R = <<SumAll(h1), SumAll(h2)>>
    BY <2>1
  <2> QED BY <1>2, <1>4, <2>2 DEF h1, h2
<1>5. CASE bad(1) \cup bad(2) # {}
  <2>1. agg.err = "pubnonce" /\ agg.who = first(blamed)
    BY <1>1, <1>5
  <2> QED BY <1>3, <1>5, <2>1
<1> QED BY <1>4, <1>5

\* The interpolating value of one of the signers of a session.
LEMMA SignerValue ==
  ASSUME FrostAssumption, NEW ctx, IsContext(ctx), ParamsOf(ctx) = "ok",
         NEW my_id \in ToSet(ctx.ids)
  PROVE  /\ ctx.ids \in Seq(Ids) /\ my_id \in Ids
         /\ DeriveInterpolatingValue(ctx.ids, my_id) \in Scalar
         /\ DeriveInterpolatingValue(ctx.ids, my_id) \in Int
<1>1. ctx.ids \in Seq(Ids)
  BY ParamsAre DEF IsContext, ParamsOf
<1>2. my_id \in Ids
  <2>1. PICK j \in DOMAIN ctx.ids : ctx.ids[j] = my_id
    BY DEF ToSet
  <2> QED BY <1>1, <2>1
<1> QED BY <1>1, <1>2, InterpolatingValueGood

\* What a partial signature adds up to before its reduction.
LEMMA PartialSigParts ==
  ASSUME NEW v, IsValues(v), NEW ids, NEW my_id, DeriveInterpolatingValue(ids, my_id) \in Int,
         NEW k_1 \in Int, NEW k_2 \in Int, NEW d_ \in Int
  PROVE  LET a == DeriveInterpolatingValue(ids, my_id)
             nonce == FlipIfOdd(v.R, k_1) + v.b * FlipIfOdd(v.R, k_2)
             share == v.e * a * ((SignOf(v) * v.gacc * d_) % n)
         IN  /\ nonce \in Int /\ share \in Int
             /\ PartialSig(v, ids, my_id, k_1, k_2, d_) = (nonce + share) % n
             /\ PartialSig(v, ids, my_id, k_1, k_2, d_) \in Scalar
<1> DEFINE a == DeriveInterpolatingValue(ids, my_id)
           x_1 == FlipIfOdd(v.R, k_1)
           x_2 == FlipIfOdd(v.R, k_2)
           S == SignOf(v)
           d == (S * v.gacc * d_) % n
           nonce == x_1 + v.b * x_2
           share == v.e * a * d
<1>1. v.b \in Int /\ v.e \in Int /\ v.gacc \in Int /\ a \in Int
  BY DEF IsValues, Scalar
<1>2. x_1 \in Int /\ x_2 \in Int
  BY FlipCong
<1>3. S \in Int
  BY OrderPositive DEF SignOf
<1>4. PartialSig(v, ids, my_id, k_1, k_2, d_) = (nonce + share) % n
  BY DEF PartialSig
<1> HIDE DEF a, x_1, x_2, S
<1>5. d \in Int
  <2>1. S * v.gacc * d_ \in Int
    BY <1>1, <1>3
  <2> QED BY <2>1, CongReduce
<1> HIDE DEF d
<1>6. nonce \in Int /\ share \in Int
  BY <1>1, <1>2, <1>5
<1> HIDE DEF nonce, share
<1>7. (nonce + share) % n \in Scalar
  <2>1. nonce + share \in Int
    BY <1>6
  <2> QED BY <2>1, CongReduce
<1> QED BY <1>4, <1>6, <1>7 DEF nonce, share, d, x_1, x_2, a, S

\* The partial signature that one of the signers of a session makes with its nonce
\* and its share is accepted with the public nonce and the public share.
LEMMA PartialSigAccepted ==
  ASSUME FrostAssumption, NEW ctx, IsContext(ctx), SessionValues(ctx).err = "ok",
         NEW k_1 \in Finite, NEW k_2 \in Finite, NEW my_id, NEW d_,
         SignerError(ctx, d_, my_id) = "ok"
  PROVE  LET s == PartialSig(SessionValues(ctx), ctx.ids, my_id, k_1, k_2, d_) IN
         /\ s \in Scalar /\ d_ \in Finite /\ my_id \in ToSet(ctx.ids)
         /\ PartialSigVerify_(s, my_id, <<k_1, k_2>>, Mult(d_, G), ctx) = "true"
<1> DEFINE v == SessionValues(ctx)
           a == DeriveInterpolatingValue(ctx.ids, my_id)
           S == SignOf(v)
           nonce == FlipIfOdd(v.R, k_1) + v.b * FlipIfOdd(v.R, k_2)
           share == v.e * a * ((S * v.gacc * d_) % n)
           Rs == FlipIfOdd(v.R, Add(k_1, Mult(v.b, k_2)))
           P == Mult(d_, G)
           M == Mult((v.e * a * ((S * v.gacc) % n)) % n, P)
           s == PartialSig(v, ctx.ids, my_id, k_1, k_2, d_)
           other == ctx.pub_shares # Unknown /\ \E j \in DOMAIN ctx.ids :
                      ctx.ids[j] = my_id /\ ctx.pub_shares[j] # P
<1>1. IsValues(v) /\ ParamsOf(ctx) = "ok"
  BY SessionValuesAre
<1>2. d_ \in 1..(n - 1) /\ my_id \in ToSet(ctx.ids) /\ ~other
  <2>1. SignerError(ctx, d_, my_id)
          = IF d_ \notin 1..(n - 1) THEN "secret share"
            ELSE IF my_id \notin ToSet(ctx.ids) THEN "not a signer"
            ELSE IF other THEN "other share" ELSE "ok"
    BY DEF SignerError
  <2> HIDE DEF other
  <2> QED BY <2>1
<1>3. d_ \in Finite /\ d_ \in Int /\ P = d_
  <2>1. d_ \in Int /\ d_ * 1 = d_ /\ d_ % n = d_ /\ d_ \in Finite
    BY <1>2, OrderPositive DEF Finite, Point, INF
  <2> QED BY <2>1 DEF Mult, G
<1>4. k_1 \in Int /\ k_2 \in Int /\ k_1 # Bad /\ k_2 # Bad /\ P # Bad
  <2>1. Bad \notin Int
    BY DEF FrostAssumption
  <2>2. \A x \in Finite : x \in Int
    BY DEF Finite, Point
  <2> HIDE DEF P
  <2> QED BY <1>3, <2>1, <2>2
<1>5. a \in Int
  BY <1>1, <1>2, SignerValue
<1>6. PartialSigVerify_(s, my_id, <<k_1, k_2>>, P, ctx)
        = IF v.err # "ok" \/ my_id \notin ToSet(ctx.ids) THEN "raises"
          ELSE IF s >= n \/ Bad \in {k_1, k_2, P} THEN "false"
          ELSE IF other THEN "false"
          ELSE IF Mult(s, G) = Add(Rs, M) THEN "true" ELSE "false"
  BY DEF PartialSigVerify_, VerifyShare
<1> HIDE DEF other
<1>7. nonce \in Int /\ share \in Int /\ s = (nonce + share) % n /\ s \in Scalar
  BY <1>1, <1>3, <1>4, <1>5, PartialSigParts
<1>8. v.b \in Int /\ v.e \in Int /\ v.gacc \in Int /\ S \in Int
  BY <1>1, OrderPositive DEF IsValues, Scalar, SignOf
<1>9. Rs \in Int /\ Cong(n, nonce, Rs)
  <2> DEFINE x_1 == FlipIfOdd(v.R, k_1)
             x_2 == FlipIfOdd(v.R, k_2)
             b == v.b
             R == v.R
  <2>1. /\ b \in Int /\ x_1 \in Int /\ x_2 \in Int
        /\ Cong(n, x_1, SignY(R) * k_1) /\ Cong(n, x_2, SignY(R) * k_2)
    BY <1>4, <1>8, FlipCong
  <2> HIDE DEF x_1, x_2, b, R
  <2>2. /\ FlipIfOdd(R, Add(k_1, Mult(b, k_2))) \in Int
        /\ Cong(n, x_1 + b * x_2, FlipIfOdd(R, Add(k_1, Mult(b, k_2))))
    BY <1>4, <2>1, NonceShare
  <2> QED BY <2>2 DEF x_1, x_2, b, R
<1>10. M \in Int /\ Cong(n, share, M)
  <2> DEFINE e == v.e
             g == v.gacc
  <2>1. e \in Int /\ g \in Int
    BY <1>8
  <2> HIDE DEF e, g, S, a, v
  <2>2. LET MM == Mult((e * a * ((S * g) % n)) % n, d_) IN
         MM \in Int /\ Cong(n, e * a * ((S * g * d_) % n), MM)
    BY <1>3, <1>5, <1>8, <2>1, KeyShare
  <2> HIDE DEF P
  <2> QED BY <1>3, <2>2 DEF e, g
<1> HIDE DEF nonce, share, Rs, M, s
<1>11. Cong(n, nonce + share, Rs + M)
  BY <1>7, <1>9, <1>10, CongSum
<1>12. s = Add(Rs, M)
  BY <1>7, <1>11 DEF Cong, Add
<1>13. Mult(s, G) = s /\ ~(s >= n)
  <2>1. \A y \in 0..(n - 1) : y * 1 = y /\ y % n = y /\ ~(y >= n)
    BY OrderPositive
  <2> QED BY <1>7, <2>1 DEF Mult, G, Scalar
<1>14. PartialSigVerify_(s, my_id, <<k_1, k_2>>, P, ctx) = "true"
  <2> HIDE DEF P
  <2> QED BY <1>2, <1>4, <1>6, <1>12, <1>13 DEF v
<1> QED BY <1>2, <1>3, <1>7, <1>14 DEF s, v

-----------------------------------------------------------------------------
(***************************************************************************)
(* The inductive invariant: what the callers hold was made as the module   *)
(* makes it.                                                               *)
(***************************************************************************)
SessionSet ==
  {Session(p, a, sl) : p \in Plans, a \in ExtEncoding \X ExtEncoding, sl \in Seq(Slot)}

StateTypes ==
  /\ secNonce \in [Slot -> {NoBuffer, <<0, 0>>} \cup (Finite \X Finite)]
  /\ pubNonce \in [Slot -> ExtEncoding \X ExtEncoding]
  /\ sessions \in Seq(SessionSet)
  /\ Len(sessions) <= MaxSessions
  /\ \A p \in psigs : p.slot \in Slot /\ p.session \in DOMAIN sessions

\* While its scalars are in the buffer a secret nonce is the published one, and
\* sign leaves none of it behind.
BuffersMatch ==
  /\ \A slot \in Slot : HasBuffer(slot) => pubNonce[slot] \in Finite \X Finite
  /\ \A slot \in Slot : IsFresh(slot) => pubNonce[slot] = secNonce[slot]
  /\ \A p \in psigs : HasBuffer(p.slot) /\ ~IsFresh(p.slot)

\* A partial signature was made in its session, which came together, with the
\* nonce its slot published, by a signer the session took for one.
MadeIn(p, ctx, nonce) ==
  /\ nonce \in Finite \X Finite
  /\ SessionValues(ctx).err = "ok"
  /\ SignerError(ctx, p.d_, p.my_id) = "ok"
  /\ p.s = PartialSig(SessionValues(ctx), ctx.ids, p.my_id, nonce[1], nonce[2], p.d_)
PsigsMade == \A p \in psigs : MadeIn(p, sessions[p.session], pubNonce[p.slot])

\* A session opened on nonces still has the aggregate of those nonces.
NoncesOf(ctx) == [j \in DOMAIN ctx.slots |-> pubNonce[ctx.slots[j]]]
Matched(ctx) ==
  ctx.slots # << >> =>
    /\ DOMAIN ctx.slots = DOMAIN ctx.ids
    /\ \A j \in DOMAIN ctx.slots : Published(ctx.slots[j])
    /\ NonceAgg(NoncesOf(ctx)).err = "ok" /\ ctx.aggNonce = NonceAgg(NoncesOf(ctx)).R
SessionsMatch == \A i \in DOMAIN sessions : Matched(sessions[i])

\* A deterministic signature was made with the nonce its hash answered, in the
\* session of that nonce and the others', and one input has one nonce.
DetNonce(d) == <<Mult(d.pair[1], G), Mult(d.pair[2], G)>>
MadeAlone(d) ==
  /\ d.plan \in Plans /\ d.pair \in NoncePairs /\ d.other \in ForeignNonce \cup {NoOther}
  /\ DeterministicAgg(DetNonce(d), d.other).err = "ok"
  /\ d.ctx = Session(d.plan, DeterministicAgg(DetNonce(d), d.other).R, << >>)
  /\ SessionValues(d.ctx).err = "ok"
  /\ SignerError(d.ctx, d.d_, d.my_id) = "ok"
  /\ d.input = DetInput(d.d_, d.my_id, d.plan.ids, d.other,
                        XOnly(ThreshPubkeyAndTweak(d.plan.thresh_pk, d.plan.tweaks).Q),
                        d.plan.msg)
  /\ d.s = PartialSig(SessionValues(d.ctx), d.plan.ids, d.my_id, d.pair[1], d.pair[2], d.d_)
DetSigsMade ==
  /\ \A d \in detSigs : MadeAlone(d)
  /\ \A d, e \in detSigs : d.input = e.input => d.pair = e.pair

Inv == /\ StateTypes /\ BuffersMatch /\ NonceSignsOnce
       /\ PsigsMade /\ SessionsMatch /\ DetSigsMade

LEMMA PlanFields ==
  ASSUME FrostAssumption, NEW plan \in Plans
  PROVE  /\ plan.total \in Int /\ plan.t \in Int /\ plan.ids \in Seq(Int)
         /\ ToSet(plan.ids) \in SignerSets
         /\ plan.pub_shares = Unknown \/ plan.pub_shares \in Seq(Encoding)
         /\ plan.thresh_pk \in Encoding /\ plan.tweaks \in Seq(Tweak) /\ plan.msg \in Msg
<1>1. ToSet(plan.ids) \in SignerSets
  BY DEF SignerSets
<1> QED BY <1>1 DEF FrostAssumption

LEMMA SessionFields ==
  ASSUME NEW plan, NEW agg, NEW slots
  PROVE  LET ctx == Session(plan, agg, slots) IN
         /\ ctx.total = plan.total /\ ctx.t = plan.t /\ ctx.ids = plan.ids
         /\ ctx.pub_shares = plan.pub_shares /\ ctx.thresh_pk = plan.thresh_pk
         /\ ctx.tweaks = plan.tweaks /\ ctx.msg = plan.msg
         /\ ctx.aggNonce = agg /\ ctx.slots = slots
BY DEF Session

LEMMA SessionIsContext ==
  ASSUME FrostAssumption, NEW ctx \in SessionSet
  PROVE  IsContext(ctx) /\ ctx.slots \in Seq(Slot)
<1>1. PICK p \in Plans, a \in ExtEncoding \X ExtEncoding, sl \in Seq(Slot) :
             ctx = Session(p, a, sl)
  BY DEF SessionSet
<1>2. /\ ctx.total = p.total /\ ctx.t = p.t /\ ctx.ids = p.ids
      /\ ctx.pub_shares = p.pub_shares /\ ctx.thresh_pk = p.thresh_pk
      /\ ctx.tweaks = p.tweaks /\ ctx.msg = p.msg
      /\ ctx.aggNonce = a /\ ctx.slots = sl
  BY <1>1, SessionFields
<1> QED BY <1>2, PlanFields DEF IsContext

LEMMA SessionTyped ==
  ASSUME NEW plan \in Plans, NEW agg \in ExtEncoding \X ExtEncoding, NEW slots \in Seq(Slot)
  PROVE  Session(plan, agg, slots) \in SessionSet
<1> DEFINE S == Session(plan, agg, slots)
<1>1. \E p \in Plans, a \in ExtEncoding \X ExtEncoding, sl \in Seq(Slot) : S = Session(p, a, sl)
  OBVIOUS
<1> HIDE DEF S
<1>2. S \in SessionSet
  BY <1>1 DEF SessionSet
<1> QED BY <1>2 DEF S

LEMMA SessionOfState ==
  ASSUME FrostAssumption, StateTypes, NEW i \in DOMAIN sessions
  PROVE  sessions[i] \in SessionSet /\ IsContext(sessions[i]) /\ sessions[i].slots \in Seq(Slot)
<1>1. sessions[i] \in SessionSet
  BY DEF StateTypes
<1> QED BY <1>1, SessionIsContext

\* The public nonce of a pair of scalars is, in a group named by its logarithms,
\* the pair.
LEMMA PublicOfPair ==
  ASSUME FrostAssumption, NEW pair \in NoncePairs
  PROVE  /\ pair \in Finite \X Finite /\ pair[1] \in Finite /\ pair[2] \in Finite
         /\ <<Mult(pair[1], G), Mult(pair[2], G)>> = pair
         /\ pair \in ExtEncoding \X ExtEncoding
         /\ pair # NoBuffer /\ pair # <<0, 0>> /\ pair # NoPubNonce
<1>1. pair \in Finite \X Finite
  BY DEF FrostAssumption
<1>2. \A k \in Finite : Mult(k, G) = k /\ k \in ExtEncoding /\ k # 0 /\ k # INF
  <2>1. \A k \in 0..(n - 1) : k * 1 = k /\ k % n = k
    BY OrderPositive
  <2> QED BY <2>1 DEF Mult, G, Finite, Point, INF, ExtEncoding
<1>3. pair[1] \in Finite /\ pair[2] \in Finite /\ pair = <<pair[1], pair[2]>>
  BY <1>1
<1> QED BY <1>1, <1>2, <1>3 DEF NoBuffer, NoPubNonce

LEMMA PsigsStay ==
  ASSUME PsigsMade, psigs' = psigs,
         \A p \in psigs : /\ pubNonce'[p.slot] = pubNonce[p.slot]
                          /\ sessions'[p.session] = sessions[p.session]
  PROVE  PsigsMade'
<1> SUFFICES ASSUME NEW p \in psigs PROVE MadeIn(p, sessions'[p.session], pubNonce'[p.slot])
  BY Zenon DEF PsigsMade
<1>1. MadeIn(p, sessions[p.session], pubNonce[p.slot])
  BY DEF PsigsMade
<1> QED BY <1>1

LEMMA MatchedStays ==
  ASSUME NEW ctx, Matched(ctx),
         \A j \in DOMAIN ctx.slots :
           Published(ctx.slots[j]) => pubNonce'[ctx.slots[j]] = pubNonce[ctx.slots[j]]
  PROVE  Matched(ctx)'
<1> SUFFICES ASSUME ctx.slots # << >>
             PROVE  /\ DOMAIN ctx.slots = DOMAIN ctx.ids
                    /\ \A j \in DOMAIN ctx.slots : Published(ctx.slots[j])'
                    /\ NonceAgg(NoncesOf(ctx)').err = "ok"
                    /\ ctx.aggNonce = NonceAgg(NoncesOf(ctx)').R
  BY DEF Matched
<1>1. /\ DOMAIN ctx.slots = DOMAIN ctx.ids
      /\ \A j \in DOMAIN ctx.slots : Published(ctx.slots[j])
      /\ NonceAgg(NoncesOf(ctx)).err = "ok" /\ ctx.aggNonce = NonceAgg(NoncesOf(ctx)).R
  BY DEF Matched
<1>2. \A j \in DOMAIN ctx.slots : pubNonce'[ctx.slots[j]] = pubNonce[ctx.slots[j]]
  BY <1>1
<1>3. NoncesOf(ctx)' = NoncesOf(ctx)
  BY <1>2 DEF NoncesOf
<1>4. \A j \in DOMAIN ctx.slots : Published(ctx.slots[j])'
  BY <1>1, <1>2 DEF Published
<1> QED BY <1>1, <1>3, <1>4

\* What publishes a nonce in an empty slot keeps the sessions and the signatures.
LEMMA PublishKeeps ==
  ASSUME FrostAssumption, StateTypes, BuffersMatch, PsigsMade, SessionsMatch, DetSigsMade,
         NEW slot \in Slot, ~Published(slot), NEW nonce \in ExtEncoding \X ExtEncoding,
         pubNonce' = [pubNonce EXCEPT ![slot] = nonce],
         sessions' = sessions, psigs' = psigs, detSigs' = detSigs
  PROVE  /\ PsigsMade' /\ SessionsMatch' /\ DetSigsMade'
         /\ pubNonce' \in [Slot -> ExtEncoding \X ExtEncoding]
         /\ pubNonce'[slot] = nonce /\ ~HasBuffer(slot)
         /\ \A t \in Slot \ {slot} : pubNonce'[t] = pubNonce[t]
         /\ \A p \in psigs : p.slot \in Slot \ {slot}
<1>1. /\ pubNonce' \in [Slot -> ExtEncoding \X ExtEncoding] /\ pubNonce'[slot] = nonce
      /\ \A t \in Slot \ {slot} : pubNonce'[t] = pubNonce[t]
  BY DEF StateTypes
<1>2. ~HasBuffer(slot)
  <2>1. \A P \in Finite \X Finite : P # NoPubNonce
    BY DEF Finite, INF, NoPubNonce
  <2> QED BY <2>1 DEF BuffersMatch, Published
<1>3. \A p \in psigs : p.slot \in Slot \ {slot}
  BY <1>2 DEF StateTypes, BuffersMatch
<1>4. PsigsMade'
  BY <1>1, <1>3, PsigsStay
<1>5. SessionsMatch'
  <2> SUFFICES ASSUME NEW i \in DOMAIN sessions PROVE Matched(sessions[i])'
    BY DEF SessionsMatch
  <2> DEFINE ctx == sessions[i]
  <2>1. Matched(ctx) /\ ctx.slots \in Seq(Slot)
    BY SessionOfState DEF SessionsMatch
  <2>2. ctx' = ctx
    OBVIOUS
  <2> SUFFICES Matched(ctx)'
    OBVIOUS
  <2>3. \A j \in DOMAIN ctx.slots : Published(ctx.slots[j]) =>
          pubNonce'[ctx.slots[j]] = pubNonce[ctx.slots[j]]
    <3>1. \A j \in DOMAIN ctx.slots : ctx.slots[j] \in Slot
      BY <2>1
    <3> QED BY <1>1, <3>1
  <2>4. PICK c : c = ctx
    OBVIOUS
  <2>5. Matched(c) /\ \A j \in DOMAIN c.slots : Published(c.slots[j]) =>
          pubNonce'[c.slots[j]] = pubNonce[c.slots[j]]
    BY <2>1, <2>3, <2>4
  <2>6. Matched(c)'
    BY <2>5, MatchedStays
  <2> QED BY <2>2, <2>4, <2>6 DEF Matched, NoncesOf
<1>6. DetSigsMade'
  BY DEF DetSigsMade
<1> QED BY <1>1, <1>2, <1>3, <1>4, <1>5, <1>6

LEMMA NonceGenKeeps ==
  ASSUME FrostAssumption, Inv, NEW slot \in Slot, NEW pair \in NoncePairs, NonceGen(slot, pair)
  PROVE  Inv'
<1> USE DEF Inv
<1>1. /\ pair \in Finite \X Finite /\ pair \in ExtEncoding \X ExtEncoding
      /\ pair # NoBuffer /\ pair # <<0, 0>>
  BY PublicOfPair
<1>2. /\ ~Published(slot)
      /\ secNonce' = [secNonce EXCEPT ![slot] = pair]
      /\ pubNonce' = [pubNonce EXCEPT ![slot] = pair]
      /\ sessions' = sessions /\ psigs' = psigs /\ detSigs' = detSigs
  BY PublicOfPair DEF NonceGen
<1>3. /\ PsigsMade' /\ SessionsMatch' /\ DetSigsMade'
      /\ pubNonce' \in [Slot -> ExtEncoding \X ExtEncoding]
      /\ pubNonce'[slot] = pair /\ ~HasBuffer(slot)
      /\ \A t \in Slot \ {slot} : pubNonce'[t] = pubNonce[t]
      /\ \A p \in psigs : p.slot \in Slot \ {slot}
  BY <1>1, <1>2, PublishKeeps
<1>4. /\ secNonce' \in [Slot -> {NoBuffer, <<0, 0>>} \cup (Finite \X Finite)]
      /\ secNonce'[slot] = pair
      /\ \A t \in Slot \ {slot} : secNonce'[t] = secNonce[t]
  BY <1>1, <1>2 DEF StateTypes
<1>5. StateTypes'
  BY <1>2, <1>3, <1>4 DEF StateTypes
<1>6. BuffersMatch'
  BY <1>1, <1>2, <1>3, <1>4 DEF BuffersMatch, HasBuffer, IsFresh
<1> QED BY <1>2, <1>3, <1>5, <1>6 DEF NonceSignsOnce

LEMMA ReceiveKeeps ==
  ASSUME FrostAssumption, Inv, NEW slot \in Slot, NEW nonce \in ForeignPubNonce,
         ReceivePubNonce(slot, nonce)
  PROVE  Inv'
<1> USE DEF Inv
<1>1. nonce \in ExtEncoding \X ExtEncoding
  <2>1. nonce \in Encoding \X Encoding
    BY DEF FrostAssumption
  <2> QED BY <2>1 DEF Encoding, ExtEncoding, Finite
<1>2. /\ ~Published(slot) /\ secNonce' = secNonce
      /\ pubNonce' = [pubNonce EXCEPT ![slot] = nonce]
      /\ sessions' = sessions /\ psigs' = psigs /\ detSigs' = detSigs
  BY DEF ReceivePubNonce
<1>3. /\ PsigsMade' /\ SessionsMatch' /\ DetSigsMade'
      /\ pubNonce' \in [Slot -> ExtEncoding \X ExtEncoding]
      /\ ~HasBuffer(slot)
      /\ \A t \in Slot \ {slot} : pubNonce'[t] = pubNonce[t]
  BY <1>1, <1>2, PublishKeeps
<1>4. StateTypes'
  BY <1>2, <1>3 DEF StateTypes
<1>5. BuffersMatch'
  BY <1>2, <1>3 DEF BuffersMatch, HasBuffer, IsFresh
<1> QED BY <1>2, <1>3, <1>4, <1>5 DEF NonceSignsOnce

\* Opening a session appends one that matches its nonces and keeps the others.
LEMMA AppendKeepsInv ==
  ASSUME FrostAssumption, Inv, NEW ctx \in SessionSet, Matched(ctx),
         Len(sessions) < MaxSessions,
         sessions' = Append(sessions, ctx), UNCHANGED <<secNonce, pubNonce, psigs, detSigs>>
  PROVE  Inv'
<1> USE DEF Inv
<1>1. sessions \in Seq(SessionSet) /\ MaxSessions \in Nat
  BY DEF StateTypes, FrostAssumption
<1>2. /\ sessions' \in Seq(SessionSet) /\ Len(sessions') = Len(sessions) + 1
      /\ DOMAIN sessions' = DOMAIN sessions \cup {Len(sessions) + 1}
      /\ sessions'[Len(sessions) + 1] = ctx
      /\ \A i \in DOMAIN sessions : sessions'[i] = sessions[i]
  BY <1>1
<1>3. StateTypes'
  <2>1. Len(sessions') <= MaxSessions
    <3>1. Len(sessions) \in Nat
      BY <1>1
    <3> QED BY <1>1, <1>2, <3>1
  <2> QED BY <1>2, <2>1 DEF StateTypes
<1>4. BuffersMatch' /\ NonceSignsOnce' /\ DetSigsMade'
  BY DEF BuffersMatch, NonceSignsOnce, DetSigsMade, HasBuffer, IsFresh
<1>5. PsigsMade'
  BY <1>2, PsigsStay DEF StateTypes
<1>6. SessionsMatch'
  <2> SUFFICES ASSUME NEW i \in DOMAIN sessions' PROVE Matched(sessions'[i])
    <3>1. \A c : Matched(c)' <=> Matched(c)
      BY DEF Matched, NoncesOf, Published
    <3>2. (\A i \in DOMAIN sessions' : Matched(sessions'[i])) => SessionsMatch'
      BY <3>1 DEF SessionsMatch
    <3> QED BY <3>2
  <2>1. CASE i \in DOMAIN sessions
    BY <1>2, <2>1 DEF SessionsMatch
  <2>2. CASE i = Len(sessions) + 1
    BY <1>2, <2>2
  <2> QED BY <1>2, <2>1, <2>2
<1> QED BY <1>3, <1>4, <1>5, <1>6

\* A call that changes none of what the callers hold but the outcome.
LEMMA FrameKeepsInv ==
  ASSUME Inv, UNCHANGED <<secNonce, pubNonce, sessions, psigs, detSigs>>
  PROVE  Inv'
BY DEF Inv, StateTypes, BuffersMatch, NonceSignsOnce, PsigsMade, MadeIn, SessionsMatch, Matched,
       NoncesOf, Published, HasBuffer, IsFresh, DetSigsMade

LEMMA OpenSessionKeeps ==
  ASSUME FrostAssumption, Inv, NEW plan \in Plans, NEW slots \in [DOMAIN plan.ids -> Slot],
         OpenSession(plan, slots)
  PROVE  Inv'
<1> DEFINE m == Len(plan.ids)
           pubs == [i \in DOMAIN slots |-> pubNonce[slots[i]]]
           agg == NonceAgg(pubs)
           ctx == Session(plan, agg.R, slots)
<1>1. m \in Nat /\ DOMAIN plan.ids = 1..m /\ DOMAIN slots = 1..m /\ slots \in Seq(Slot)
  <2>1. m \in Nat /\ DOMAIN plan.ids = 1..m
    BY PlanFields
  <2> HIDE DEF m
  <2> QED BY <2>1
<1>2. DOMAIN pubs = 1..m /\ \A i \in 1..m : pubs[i] \in ExtEncoding \X ExtEncoding
  BY <1>1 DEF Inv, StateTypes
<1> HIDE DEF m, pubs
<1>3. agg.err \in {"ok", "pubnonce"}
      /\ (agg.err = "ok" => agg.R \in ExtEncoding \X ExtEncoding)
  <2>1. \A x \in Point : x \in ExtEncoding
    BY DEF ExtEncoding
  <2> HIDE DEF agg
  <2>2. /\ agg.err \in {"ok", "pubnonce"}
        /\ agg.err = "ok" => /\ agg.R = <<SumAll(Half(pubs, 1)), SumAll(Half(pubs, 2))>>
                             /\ SumAll(Half(pubs, 1)) \in Point /\ SumAll(Half(pubs, 2)) \in Point
    BY <1>1, <1>2, NonceAggAre DEF agg
  <2> QED BY <2>1, <2>2
<1>4. /\ sessions' = IF agg.err = "ok" THEN Append(sessions, ctx) ELSE sessions
      /\ Len(sessions) < MaxSessions
      /\ \A i \in DOMAIN slots : Published(slots[i])
      /\ UNCHANGED <<secNonce, pubNonce, psigs, detSigs>>
  BY DEF OpenSession, pubs
<1>5. CASE agg.err = "ok"
  <2>1. ctx \in SessionSet
    <3> HIDE DEF agg
    <3> QED BY <1>1, <1>3, <1>5, SessionTyped
  <2>2. ctx.slots = slots /\ ctx.ids = plan.ids /\ ctx.aggNonce = agg.R
    BY SessionFields
  <2> HIDE DEF ctx
  <2>3. NoncesOf(ctx) = pubs
    BY <2>2 DEF NoncesOf, pubs
  <2>4. Matched(ctx)
    BY <1>1, <1>4, <1>5, <2>2, <2>3 DEF Matched
  <2> HIDE DEF agg
  <2>5. sessions' = Append(sessions, ctx)
    BY <1>4, <1>5
  <2> QED BY <1>4, <2>1, <2>4, <2>5, AppendKeepsInv
<1>6. CASE agg.err # "ok"
  BY <1>4, <1>6, FrameKeepsInv
<1> QED BY <1>5, <1>6

LEMMA OpenForeignSessionKeeps ==
  ASSUME FrostAssumption, Inv, NEW plan \in Plans, NEW nonce \in ForeignNonce,
         OpenForeignSession(plan, nonce)
  PROVE  Inv'
<1> DEFINE ctx == Session(plan, nonce, << >>)
<1>1. ctx \in SessionSet
  <2>1. nonce \in ExtEncoding \X ExtEncoding
    BY DEF FrostAssumption
  <2>2. << >> \in Seq(Slot)
    OBVIOUS
  <2> QED BY <2>1, <2>2, SessionTyped
<1>2. Matched(ctx)
  BY SessionFields DEF Matched
<1> HIDE DEF ctx
<1> QED BY <1>1, <1>2, AppendKeepsInv DEF OpenForeignSession, ctx

\* The three ways a call of sign ends: it refuses the session, it consumes the
\* nonce and raises, it consumes the nonce and signs.
SignedBy(slot, d_, my_id, i) == Signed(slot, i, my_id, d_, SessionValues(sessions[i]))
Consumed(slot) == [secNonce EXCEPT ![slot] = <<0, 0>>]
Refuses(i) ==
  SessionValues(sessions[i]).err # "ok" /\ UNCHANGED <<secNonce, psigs>>
Raises(slot, i) ==
  /\ SessionValues(sessions[i]).err = "ok"
  /\ outcome' \in {"nonce range", "secret share", "not a signer", "other share"}
  /\ outcome' = "nonce range" <=> ~IsFresh(slot)
  /\ secNonce' = Consumed(slot) /\ psigs' = psigs
Signs(slot, d_, my_id, i) ==
  /\ SessionValues(sessions[i]).err = "ok" /\ SignerError(sessions[i], d_, my_id) = "ok"
  /\ outcome' = "ok" /\ IsFresh(slot)
  /\ secNonce' = Consumed(slot)
  /\ psigs' = psigs \cup {SignedBy(slot, d_, my_id, i)}

LEMMA SignCases ==
  ASSUME NEW slot, NEW d_, NEW my_id, NEW i, Sign(slot, d_, my_id, i)
  PROVE  /\ HasBuffer(slot)
         /\ pubNonce' = pubNonce /\ sessions' = sessions /\ detSigs' = detSigs
         /\ Refuses(i) \/ Raises(slot, i) \/ Signs(slot, d_, my_id, i)
<1> DEFINE v == SessionValues(sessions[i])
           error == SignerError(sessions[i], d_, my_id)
           new == SignedBy(slot, d_, my_id, i)
<1>1. /\ HasBuffer(slot)
      /\ IF v.err # "ok"
         THEN UNCHANGED <<secNonce, psigs>>
         ELSE /\ secNonce' = Consumed(slot)
              /\ outcome' = IF ~IsFresh(slot) THEN "nonce range" ELSE error
              /\ psigs' = IF outcome' # "ok" THEN psigs ELSE psigs \cup {new}
      /\ pubNonce' = pubNonce /\ sessions' = sessions /\ detSigs' = detSigs
  BY DEF Sign, Consumed, SignedBy
<1>2. error \in {"ok", "secret share", "not a signer", "other share"}
  BY DEF SignerError
<1> HIDE DEF error, new, v
<1>3. CASE v.err # "ok"
  BY <1>1, <1>3 DEF v, Refuses
<1>4. CASE v.err = "ok" /\ outcome' # "ok"
  BY <1>1, <1>2, <1>4 DEF v, Raises
<1>5. CASE v.err = "ok" /\ outcome' = "ok"
  <2>1. IsFresh(slot) /\ error = "ok"
    BY <1>1, <1>5
  <2> QED BY <1>1, <1>5, <2>1 DEF v, error, new, Signs
<1> QED BY <1>1, <1>3, <1>4, <1>5

LEMMA SignKeeps ==
  ASSUME FrostAssumption, Inv, NEW slot \in Slot, NEW d_, NEW my_id,
         NEW i \in DOMAIN sessions, Sign(slot, d_, my_id, i)
  PROVE  Inv'
<1> USE DEF Inv
<1>1. /\ HasBuffer(slot)
      /\ pubNonce' = pubNonce /\ sessions' = sessions /\ detSigs' = detSigs
      /\ Refuses(i) \/ Raises(slot, i) \/ Signs(slot, d_, my_id, i)
  BY SignCases
<1>2. CASE Refuses(i)
  BY <1>1, <1>2, FrameKeepsInv DEF Refuses
<1>3. CASE secNonce' = Consumed(slot)
  <2> DEFINE new == SignedBy(slot, d_, my_id, i)
  <2>1. /\ secNonce' \in [Slot -> {NoBuffer, <<0, 0>>} \cup (Finite \X Finite)]
        /\ secNonce'[slot] = <<0, 0>>
        /\ \A t \in Slot \ {slot} : secNonce'[t] = secNonce[t]
    BY <1>3 DEF StateTypes, Consumed
  <2>2. \A t \in Slot : /\ IsFresh(t)' => IsFresh(t) /\ secNonce'[t] = secNonce[t]
                        /\ HasBuffer(t)' => HasBuffer(t)
                        /\ HasBuffer(t) => HasBuffer(t)'
    BY <1>1, <2>1 DEF HasBuffer, IsFresh, NoBuffer
  <2>3. HasBuffer(slot)' /\ ~IsFresh(slot)'
    BY <1>1, <2>1, <2>2 DEF IsFresh
  <2>4. DetSigsMade'
    BY <1>1 DEF DetSigsMade
  <2>5. SessionsMatch'
    BY <1>1 DEF SessionsMatch, Matched, NoncesOf, Published
  <2>6. CASE psigs' = psigs
    <3>1. StateTypes'
      BY <1>1, <2>1, <2>6 DEF StateTypes
    <3>2. BuffersMatch'
      BY <1>1, <2>2, <2>6 DEF BuffersMatch, StateTypes
    <3>3. PsigsMade' /\ NonceSignsOnce'
      BY <1>1, <2>6, PsigsStay DEF NonceSignsOnce
    <3> QED BY <2>4, <2>5, <3>1, <3>2, <3>3
  <2>7. CASE Signs(slot, d_, my_id, i)
    <3>1. /\ psigs' = psigs \cup {new} /\ IsFresh(slot)
          /\ SessionValues(sessions[i]).err = "ok" /\ SignerError(sessions[i], d_, my_id) = "ok"
      BY <2>7 DEF Signs
    <3>2. /\ new.slot = slot /\ new.session = i /\ new.d_ = d_ /\ new.my_id = my_id
          /\ new.s = PartialSig(SessionValues(sessions[i]), sessions[i].ids, my_id,
                                secNonce[slot][1], secNonce[slot][2], d_)
      BY DEF SignedBy, Signed
    <3>3. pubNonce[slot] = secNonce[slot] /\ pubNonce[slot] \in Finite \X Finite
      BY <1>1, <3>1 DEF BuffersMatch
    <3> HIDE DEF new
    <3>4. MadeIn(new, sessions[new.session], pubNonce[new.slot])
      BY <3>1, <3>2, <3>3 DEF MadeIn
    <3>5. \A p \in psigs : p.slot # slot
      BY <3>1 DEF BuffersMatch
    <3>6. StateTypes'
      BY <1>1, <2>1, <3>1, <3>2 DEF StateTypes
    <3>7. BuffersMatch'
      <4>1. \A p \in psigs' : HasBuffer(p.slot)' /\ ~IsFresh(p.slot)'
        BY <2>2, <2>3, <3>1, <3>2 DEF BuffersMatch, StateTypes
      <4> QED BY <1>1, <2>2, <4>1 DEF BuffersMatch
    <3>8. PsigsMade'
      <4> SUFFICES ASSUME NEW p \in psigs \cup {new}
                   PROVE  MadeIn(p, sessions[p.session], pubNonce[p.slot])
        BY <1>1, <3>1, Zenon DEF PsigsMade
      <4> QED BY <3>4 DEF PsigsMade
    <3>9. NonceSignsOnce'
      BY <3>1, <3>2, <3>5 DEF NonceSignsOnce
    <3> QED BY <2>4, <2>5, <3>6, <3>7, <3>8, <3>9
  <2> QED BY <1>1, <2>6, <2>7 DEF Refuses, Raises
<1> QED BY <1>1, <1>2, <1>3 DEF Raises, Signs

LEMMA DeterministicSignKeeps ==
  ASSUME FrostAssumption, Inv, NEW d_, NEW my_id, NEW pair \in NoncePairs, NEW plan \in Plans,
         NEW other \in ForeignNonce \cup {NoOther}, DeterministicSign(d_, my_id, pair, plan, other)
  PROVE  Inv'
<1> USE DEF Inv
<1> DEFINE key == ThreshPubkeyAndTweak(plan.thresh_pk, plan.tweaks)
           params == ValidateSessionParams(plan.total, plan.t, plan.ids, plan.pub_shares,
                                           plan.thresh_pk)
           input == DetInput(d_, my_id, plan.ids, other, XOnly(key.Q), plan.msg)
           mine == <<Mult(pair[1], G), Mult(pair[2], G)>>
           agg == DeterministicAgg(mine, other)
           ctx == Session(plan, agg.R, << >>)
           v == SessionValues(ctx)
           new == [input |-> input, pair |-> pair, my_id |-> my_id, d_ |-> d_,
                   other |-> other, plan |-> plan, ctx |-> ctx,
                   s |-> PartialSig(v, plan.ids, my_id, pair[1], pair[2], d_)]
<1>1. /\ \A d \in detSigs : d.input = input => d.pair = pair
      /\ outcome' = IF params # "ok" THEN params
                    ELSE IF key.err # "ok" THEN key.err
                    ELSE IF agg.err # "ok" THEN "aggothernonce"
                    ELSE IF v.err # "ok" THEN v.err
                    ELSE SignerError(ctx, d_, my_id)
      /\ detSigs' = IF outcome' # "ok" THEN detSigs ELSE detSigs \cup {new}
      /\ UNCHANGED <<secNonce, pubNonce, sessions, psigs>>
  BY DEF DeterministicSign
<1>2. /\ new.input = input /\ new.pair = pair /\ new.my_id = my_id /\ new.d_ = d_
      /\ new.other = other /\ new.plan = plan /\ new.ctx = ctx
      /\ new.s = PartialSig(v, plan.ids, my_id, pair[1], pair[2], d_)
  OBVIOUS
<1> HIDE DEF new
<1>3. DetNonce(new) = mine
  BY <1>2 DEF DetNonce
<1>4. input = DetInput(d_, my_id, plan.ids, other,
                       XOnly(ThreshPubkeyAndTweak(plan.thresh_pk, plan.tweaks).Q), plan.msg)
  OBVIOUS
<1>5. ctx = Session(plan, DeterministicAgg(mine, other).R, << >>)
      /\ agg = DeterministicAgg(mine, other) /\ v = SessionValues(ctx)
  OBVIOUS
<1> HIDE DEF key, params, input, mine, agg, ctx, v
<1>6. CASE outcome' # "ok"
  BY <1>1, <1>6, FrameKeepsInv
<1>7. CASE outcome' = "ok"
  <2>1. detSigs' = detSigs \cup {new}
    BY <1>1, <1>7
  <2>2. params = "ok" /\ key.err = "ok"
    BY <1>1, <1>7, Zenon
  <2>3. agg.err = "ok"
    <3> SUFFICES ASSUME agg.err # "ok" PROVE FALSE
      OBVIOUS
    <3>1. outcome' = "aggothernonce"
      BY <1>1, <2>2, Zenon
    <3> QED BY <1>7, <3>1
  <2>4. v.err = "ok"
    BY <1>1, <1>7, <2>2, <2>3, Zenon
  <2>5. SignerError(ctx, d_, my_id) = "ok"
    BY <1>1, <1>7, <2>2, <2>3, <2>4, Zenon
  <2>6. MadeAlone(new)
    BY <1>2, <1>3, <1>4, <1>5, <2>3, <2>4, <2>5 DEF MadeAlone
  <2>7. DetSigsMade'
    <3>1. \A d \in detSigs' : MadeAlone(d)
      BY <2>1, <2>6 DEF DetSigsMade
    <3>2. \A d, e \in detSigs' : d.input = e.input => d.pair = e.pair
      BY <1>1, <1>2, <2>1 DEF DetSigsMade
    <3> QED BY <3>1, <3>2 DEF DetSigsMade
  <2>8. StateTypes' /\ BuffersMatch' /\ NonceSignsOnce' /\ PsigsMade' /\ SessionsMatch'
    BY <1>1 DEF StateTypes, BuffersMatch, NonceSignsOnce, PsigsMade, MadeIn, SessionsMatch,
                Matched, NoncesOf, Published, HasBuffer, IsFresh
  <2> QED BY <2>7, <2>8
<1> QED BY <1>6, <1>7

LEMMA InitInv ==
  ASSUME FrostAssumption, Init
  PROVE  Inv
<1>1. pubNonce \in [Slot -> ExtEncoding \X ExtEncoding]
  <2>1. INF \in ExtEncoding
    BY OrderPositive DEF INF, Point, ExtEncoding
  <2> QED BY <2>1 DEF Init, NoPubNonce
<1>2. StateTypes
  <2>1. MaxSessions \in Nat /\ sessions = << >>
    BY DEF Init, FrostAssumption
  <2>2. << >> \in Seq(SessionSet) /\ Len(<< >>) = 0
    OBVIOUS
  <2> QED BY <1>1, <2>1, <2>2 DEF Init, StateTypes
<1>3. BuffersMatch /\ NonceSignsOnce
  BY DEF Init, BuffersMatch, NonceSignsOnce, HasBuffer, IsFresh
<1>4. PsigsMade /\ SessionsMatch /\ DetSigsMade
  BY DEF Init, PsigsMade, SessionsMatch, DetSigsMade
<1> QED BY <1>2, <1>3, <1>4 DEF Inv

LEMMA NextInv ==
  ASSUME FrostAssumption, Inv, [Next]_vars
  PROVE  Inv'
<1>1. CASE \E slot \in Slot, pair \in NoncePairs : NonceGen(slot, pair)
  BY <1>1, NonceGenKeeps
<1>2. CASE \E slot \in Slot, nonce \in ForeignPubNonce : ReceivePubNonce(slot, nonce)
  BY <1>2, ReceiveKeeps
<1>3. CASE \E plan \in Plans : \E slots \in [DOMAIN plan.ids -> Slot] : OpenSession(plan, slots)
  BY <1>3, OpenSessionKeeps
<1>4. CASE \E plan \in Plans, nonce \in ForeignNonce : OpenForeignSession(plan, nonce)
  BY <1>4, OpenForeignSessionKeeps
<1>5. CASE \E slot \in Slot, d_ \in SecShares \cup {0}, my_id \in Participants,
             i \in DOMAIN sessions : Sign(slot, d_, my_id, i)
  BY <1>5, SignKeeps
<1>6. CASE \E my_id \in Participants, pair \in NoncePairs, plan \in Plans,
             other \in ForeignNonce \cup {NoOther} :
             DeterministicSign(DealtShare[my_id], my_id, pair, plan, other)
  BY <1>6, DeterministicSignKeeps
<1>7. CASE UNCHANGED vars
  BY <1>7, FrameKeepsInv DEF vars
<1> QED BY <1>1, <1>2, <1>3, <1>4, <1>5, <1>6, <1>7 DEF Next

\* The inductive invariant: every nonce, session and signature the callers hold was
\* made as the module makes it, for every group, plan, share, nonce and hash.
THEOREM FrostInvariant ==
  ASSUME FrostAssumption
  PROVE  Spec => []Inv
<1>1. Init => Inv
  BY InitInv
<1>2. Inv /\ [Next]_vars => Inv'
  BY NextInv
<1> QED BY <1>1, <1>2, PTL DEF Spec

\* No two partial signatures are ever made with one secret nonce, whatever sessions,
\* shares and identifiers sign is called with, in whatever order, and although no
\* public key beside the scalars lets sign refuse a call.
THEOREM NonceNeverReused ==
  ASSUME FrostAssumption
  PROVE  Spec => []NonceSignsOnce
<1>1. Inv => NonceSignsOnce
  BY DEF Inv
<1> QED BY <1>1, FrostInvariant, PTL

LEMMA PsigAccepted ==
  ASSUME FrostAssumption, Inv, NEW p \in psigs
  PROVE  /\ p.s \in Scalar
         /\ PartialSigVerify_(p.s, p.my_id, pubNonce[p.slot], Mult(p.d_, G),
                              sessions[p.session]) = "true"
<1> DEFINE ctx == sessions[p.session]
           k_1 == pubNonce[p.slot][1]
           k_2 == pubNonce[p.slot][2]
<1>1. MadeIn(p, ctx, pubNonce[p.slot]) /\ IsContext(ctx)
  BY SessionOfState DEF Inv, PsigsMade, StateTypes
<1>2. k_1 \in Finite /\ k_2 \in Finite /\ pubNonce[p.slot] = <<k_1, k_2>>
  BY <1>1 DEF MadeIn
<1>3. /\ SessionValues(ctx).err = "ok" /\ SignerError(ctx, p.d_, p.my_id) = "ok"
      /\ p.s = PartialSig(SessionValues(ctx), ctx.ids, p.my_id, k_1, k_2, p.d_)
  BY <1>1 DEF MadeIn
<1> HIDE DEF ctx, k_1, k_2
<1> QED BY <1>1, <1>2, <1>3, PartialSigAccepted DEF ctx

\* Whatever sign returns, partial_sig_verify_ accepts with the signer's public nonce
\* and the public share of its secret share, for every group, every subset of
\* signers, every value of the hashes and every parity of nonce, key and tweaks.
THEOREM HonestPartialSigsVerify ==
  ASSUME FrostAssumption
  PROVE  Spec => []PartialSigsVerify
<1>1. Inv => PartialSigsVerify
  BY PsigAccepted DEF PartialSigsVerify
<1> QED BY <1>1, FrostInvariant, PTL

LEMMA DetSigAccepted ==
  ASSUME FrostAssumption, NEW d, MadeAlone(d)
  PROVE  /\ d.s \in Scalar /\ IsContext(d.ctx) /\ d.ctx.ids = d.plan.ids
         /\ d.pair[1] \in Finite /\ d.pair[2] \in Finite /\ DetNonce(d) = d.pair
         /\ d.pair = <<d.pair[1], d.pair[2]>>
         /\ PartialSigVerify_(d.s, d.my_id, DetNonce(d), Mult(d.d_, G), d.ctx) = "true"
<1> DEFINE agg == DeterministicAgg(DetNonce(d), d.other)
           k_1 == d.pair[1]
           k_2 == d.pair[2]
<1>1. /\ d.plan \in Plans /\ d.pair \in NoncePairs /\ d.other \in ForeignNonce \cup {NoOther}
      /\ agg.err = "ok" /\ d.ctx = Session(d.plan, agg.R, << >>)
      /\ SessionValues(d.ctx).err = "ok" /\ SignerError(d.ctx, d.d_, d.my_id) = "ok"
      /\ d.s = PartialSig(SessionValues(d.ctx), d.plan.ids, d.my_id, k_1, k_2, d.d_)
  BY DEF MadeAlone
<1>2. k_1 \in Finite /\ k_2 \in Finite /\ d.pair = <<k_1, k_2>> /\ DetNonce(d) = d.pair
      /\ d.pair \in ExtEncoding \X ExtEncoding
  <2>1. d.pair \in Finite \X Finite
    BY <1>1, PublicOfPair
  <2>2. k_1 \in Finite /\ k_2 \in Finite /\ d.pair = <<k_1, k_2>>
    BY <2>1
  <2> QED BY <1>1, <2>2, PublicOfPair DEF DetNonce
<1>3. agg.R \in ExtEncoding \X ExtEncoding
  <2>1. CASE d.other = NoOther
    <3>1. agg.R = DetNonce(d)
      BY <2>1 DEF DeterministicAgg
    <3> QED BY <1>2, <3>1
  <2>2. CASE d.other # NoOther
    <3> DEFINE parsed == [j \in 1..2 |-> IF d.other[j] = INF THEN Bad ELSE d.other[j]]
               nonces == <<DetNonce(d), parsed>>
    <3>1. d.other \in ExtEncoding \X ExtEncoding
      BY <1>1, <2>2 DEF FrostAssumption
    <3>2. parsed \in ExtEncoding \X ExtEncoding
      <4>1. parsed = <<parsed[1], parsed[2]>>
        OBVIOUS
      <4>2. parsed[1] \in ExtEncoding /\ parsed[2] \in ExtEncoding
        BY <3>1 DEF ExtEncoding
      <4> QED BY <4>1, <4>2
    <3>3. agg = NonceAgg(nonces)
      BY <2>2 DEF DeterministicAgg
    <3> HIDE DEF parsed
    <3>4. DOMAIN nonces = 1..2 /\ \A i \in 1..2 : nonces[i] \in ExtEncoding \X ExtEncoding
      BY <1>2, <3>2
    <3> HIDE DEF nonces, agg
    <3>5. agg.R = <<SumAll(Half(nonces, 1)), SumAll(Half(nonces, 2))>>
          /\ SumAll(Half(nonces, 1)) \in Point /\ SumAll(Half(nonces, 2)) \in Point
      BY <1>1, <3>3, <3>4, NonceAggAre
    <3> QED BY <3>5 DEF ExtEncoding
  <2> QED BY <2>1, <2>2
<1>4. IsContext(d.ctx) /\ d.ctx.ids = d.plan.ids
  <2>1. d.ctx \in SessionSet
    <3>1. << >> \in Seq(Slot)
      OBVIOUS
    <3> HIDE DEF agg
    <3> QED BY <1>1, <1>3, <3>1, SessionTyped
  <2> HIDE DEF agg
  <2> QED BY <1>1, <2>1, SessionIsContext, SessionFields
<1> HIDE DEF k_1, k_2, agg
<1>5. /\ d.s \in Scalar
      /\ PartialSigVerify_(d.s, d.my_id, <<k_1, k_2>>, Mult(d.d_, G), d.ctx) = "true"
  <2> DEFINE ctx == d.ctx
             my_id == d.my_id
             d_ == d.d_
  <2>1. /\ IsContext(ctx) /\ SessionValues(ctx).err = "ok" /\ SignerError(ctx, d_, my_id) = "ok"
        /\ d.s = PartialSig(SessionValues(ctx), ctx.ids, my_id, k_1, k_2, d_)
    BY <1>1, <1>4
  <2> HIDE DEF ctx, my_id, d_
  <2>2. /\ d.s \in Scalar
        /\ PartialSigVerify_(d.s, my_id, <<k_1, k_2>>, Mult(d_, G), ctx) = "true"
    BY <1>2, <2>1, PartialSigAccepted
  <2> QED BY <2>2 DEF ctx, my_id, d_
<1> QED BY <1>2, <1>4, <1>5 DEF k_1, k_2

\* Every variable keeps its type: every scalar the module returns is reduced.
THEOREM TypeCorrect ==
  ASSUME FrostAssumption
  PROVE  Spec => []TypeOK
<1>1. Inv => TypeOK
  <2> SUFFICES ASSUME Inv PROVE TypeOK
    OBVIOUS
  <2>1. \A i \in DOMAIN sessions : sessions[i].aggNonce \in ExtEncoding \X ExtEncoding
    BY SessionOfState DEF Inv, IsContext
  <2>2. \A p \in psigs : p.s \in Scalar /\ p.session \in DOMAIN sessions
    BY PsigAccepted DEF Inv, StateTypes
  <2>3. \A d \in detSigs : d.s \in Scalar
    BY DetSigAccepted DEF Inv, DetSigsMade
  <2> QED BY <2>1, <2>2, <2>3 DEF TypeOK, Inv, StateTypes
<1> QED BY <1>1, FrostInvariant, PTL

-----------------------------------------------------------------------------
(***************************************************************************)
(* The two verifiers, and who is blamed.                                   *)
(***************************************************************************)

\* Two contexts with the same parameters, tweaks, message and aggregate nonce are one
\* to the verifier.
LEMMA SameContextSameVerdict ==
  ASSUME NEW c, NEW d, c.total = d.total, c.t = d.t, c.ids = d.ids,
         c.pub_shares = d.pub_shares, c.thresh_pk = d.thresh_pk, c.tweaks = d.tweaks,
         c.msg = d.msg, c.aggNonce = d.aggNonce,
         NEW s, NEW my_id, NEW nonce, NEW P
  PROVE  /\ SessionValues(c) = SessionValues(d)
         /\ PartialSigVerify_(s, my_id, nonce, P, c) = PartialSigVerify_(s, my_id, nonce, P, d)
<1>1. SessionValues(c) = SessionValues(d)
  BY DEF SessionValues, SessionOf
<1>2. \A v : VerifyShare(v, s, my_id, nonce, P, c) = VerifyShare(v, s, my_id, nonce, P, d)
  BY Zenon DEF VerifyShare
<1> QED BY <1>1, <1>2 DEF PartialSigVerify_

\* partial_sig_verify, which aggregates the nonces anew and opens a session of its
\* own, gives the answer of partial_sig_verify_ in the session the coordinator
\* opened, whenever it is asked.
THEOREM WrapperAlwaysAgrees ==
  ASSUME FrostAssumption
  PROVE  Spec => []WrapperAgrees
<1>1. Inv => WrapperAgrees
  <2> SUFFICES ASSUME Inv, NEW i \in DOMAIN sessions,
                      Len(sessions[i].pub_shares) = Len(sessions[i].ids),
                      NEW j \in DOMAIN sessions[i].slots, NEW s \in 0..n
               PROVE  LET ctx == sessions[i]
                          nonces == NoncesOf(ctx)
                          plan == [f \in DOMAIN ctx \ {"aggNonce", "slots"} |-> ctx[f]]
                      IN  PartialSigVerify(s, nonces, plan, j)
                            = PartialSigVerify_(s, ctx.ids[j], nonces[j], ctx.pub_shares[j], ctx)
    BY DEF WrapperAgrees, NoncesOf
  <2> DEFINE ctx == sessions[i]
             nonces == NoncesOf(ctx)
             agg == NonceAgg(nonces)
             plan == [f \in DOMAIN ctx \ {"aggNonce", "slots"} |-> ctx[f]]
             own == [f \in DOMAIN plan \cup {"aggNonce"} |->
                       IF f = "aggNonce" THEN agg.R ELSE plan[f]]
  <2>1. IsContext(ctx) /\ ctx.slots \in Seq(Slot) /\ ctx \in SessionSet
    BY SessionOfState DEF Inv
  <2>2. /\ DOMAIN ctx.slots = DOMAIN ctx.ids /\ DOMAIN nonces = DOMAIN ctx.ids
        /\ agg.err = "ok" /\ ctx.aggNonce = agg.R
    <3>1. ctx.slots # << >>
      OBVIOUS
    <3> QED BY <3>1 DEF Inv, SessionsMatch, Matched, NoncesOf
  <2>3. Len(nonces) = Len(ctx.ids) /\ j \in DOMAIN ctx.ids
    <3>1. DOMAIN nonces = 1..Len(ctx.ids) /\ Len(ctx.ids) \in Nat
      BY <2>1, <2>2 DEF IsContext
    <3> QED BY <2>2, <3>1, LenOfFunction
  <2>4. /\ plan.total = ctx.total /\ plan.t = ctx.t /\ plan.ids = ctx.ids
        /\ plan.pub_shares = ctx.pub_shares /\ plan.thresh_pk = ctx.thresh_pk
        /\ plan.tweaks = ctx.tweaks /\ plan.msg = ctx.msg
        /\ own.total = ctx.total /\ own.t = ctx.t /\ own.ids = ctx.ids
        /\ own.pub_shares = ctx.pub_shares /\ own.thresh_pk = ctx.thresh_pk
        /\ own.tweaks = ctx.tweaks /\ own.msg = ctx.msg /\ own.aggNonce = agg.R
    <3>1. PICK p \in Plans, a \in ExtEncoding \X ExtEncoding, sl \in Seq(Slot) :
                 ctx = Session(p, a, sl)
      BY <2>1 DEF SessionSet
    <3>2. DOMAIN ctx = {"total", "t", "ids", "pub_shares", "thresh_pk", "tweaks", "msg",
                        "aggNonce", "slots"}
      BY <3>1 DEF Session
    <3> HIDE DEF ctx
    <3> QED BY <3>2
  <2>5. PartialSigVerify(s, nonces, plan, j)
          = PartialSigVerify_(s, ctx.ids[j], nonces[j], ctx.pub_shares[j], own)
    <3>1. Len(nonces) = Len(plan.ids) /\ Len(plan.pub_shares) = Len(plan.ids)
          /\ j \in DOMAIN plan.ids /\ agg.err = "ok"
      BY <2>2, <2>3, <2>4
    <3> HIDE DEF ctx, nonces, plan
    <3>2. PartialSigVerify(s, nonces, plan, j)
            = IF Len(nonces) # Len(plan.ids) \/ Len(plan.pub_shares) # Len(plan.ids) THEN "raises"
              ELSE IF j \notin DOMAIN plan.ids \/ agg.err # "ok" THEN "raises"
              ELSE PartialSigVerify_(s, plan.ids[j], nonces[j], plan.pub_shares[j], own)
      BY DEF PartialSigVerify
    <3> HIDE DEF own, agg
    <3> QED BY <2>4, <3>1, <3>2, Zenon
  <2>6. own.aggNonce = ctx.aggNonce
    BY <2>2, <2>4
  <2> HIDE DEF own, ctx, nonces, plan, agg
  <2>7. PartialSigVerify_(s, ctx.ids[j], nonces[j], ctx.pub_shares[j], own)
          = PartialSigVerify_(s, ctx.ids[j], nonces[j], ctx.pub_shares[j], ctx)
    BY <2>4, <2>6, SameContextSameVerdict
  <2> QED BY <2>5, <2>7 DEF ctx, nonces, plan
<1> QED BY <1>1, FrostInvariant, PTL

\* A partial signature the aggregation blames is not less than n.
LEMMA BlamedShareIsTooBig ==
  ASSUME NEW s \in Nat, NEW t \in Scalar, NEW v, v.err # "psig",
         Aggregate(<<s, t>>, v).err = "psig"
  PROVE  Aggregate(<<s, t>>, v).who = 1
<1> DEFINE psig == <<s, t>>
           tooBig == {i \in DOMAIN psig : psig[i] >= n}
           first == CHOOSE i \in tooBig : \A j \in tooBig : i <= j
           error(err, who) == [err |-> err, who |-> who, r |-> INF, s |-> 0]
           good == [err |-> "ok", who |-> 0, r |-> XOnly(v.R),
                    s |-> (SumAll(psig) + v.e * SignOf(v) * v.tacc) % n]
<1>1. Aggregate(psig, v) = IF v.err # "ok" THEN error(v.err, 0)
                           ELSE IF tooBig # {} THEN error("psig", first)
                           ELSE good
  BY DEF Aggregate
<1>2. good.err = "ok" /\ \A err, who : error(err, who).err = err /\ error(err, who).who = who
  OBVIOUS
<1>3. tooBig \subseteq {1}
  <2>1. DOMAIN psig = {1, 2} /\ psig[2] = t /\ ~(t >= n)
    BY OrderPositive DEF Scalar
  <2> QED BY <2>1
<1> HIDE DEF good, error, tooBig
<1>4. tooBig # {} /\ Aggregate(psig, v) = error("psig", first)
  <2>1. v.err = "ok"
    BY <1>1, <1>2
  <2>2. tooBig # {}
    BY <1>1, <1>2, <2>1
  <2> QED BY <1>1, <2>1, <2>2
<1>5. tooBig = {1}
  BY <1>3, <1>4
<1>6. first = 1
  BY <1>5
<1> HIDE DEF first, psig
<1>7. Aggregate(psig, v).who = first
  BY <1>2, <1>4
<1> QED BY <1>6, <1>7 DEF psig

\* No error of nonce_agg or of the aggregation ever names a signer whose nonce
\* came out of nonce_gen, whose partial signature came out of sign.
THEOREM HonestSignerNeverBlamed ==
  ASSUME FrostAssumption
  PROVE  Spec => []HonestNeverBlamed
<1>1. Inv => HonestNeverBlamed
  <2> SUFFICES ASSUME Inv PROVE HonestNeverBlamed
    OBVIOUS
  <2>1. ASSUME NEW slots \in [1..2 -> Slot],
               NonceAgg([i \in DOMAIN slots |-> pubNonce[slots[i]]]).err = "pubnonce"
        PROVE  ~HasBuffer(slots[NonceAgg([i \in DOMAIN slots |-> pubNonce[slots[i]]]).who])
    <3> DEFINE nonces == [i \in DOMAIN slots |-> pubNonce[slots[i]]]
               who == NonceAgg(nonces).who
    <3>1. /\ DOMAIN nonces = 1..2 /\ \A i \in 1..2 : nonces[i] = pubNonce[slots[i]]
          /\ \A i \in 1..2 : nonces[i] \in ExtEncoding \X ExtEncoding
      BY DEF Inv, StateTypes
    <3>2. NonceAgg(nonces).err = "pubnonce"
      BY <2>1
    <3> HIDE DEF nonces
    <3>3. who \in 1..2 /\ Bad \in {nonces[who][1], nonces[who][2]}
      BY <3>1, <3>2, NonceAggAre
    <3> HIDE DEF who
    <3>4. slots[who] \in Slot /\ pubNonce[slots[who]] \notin Finite \X Finite
      <4>1. Bad \notin Int
        BY DEF FrostAssumption
      <4>2. \A k \in Finite : k # Bad
        BY <4>1 DEF Finite, Point
      <4> QED BY <3>1, <3>3, <4>2
    <3>5. ~HasBuffer(slots[who])
      BY <3>4 DEF Inv, BuffersMatch
    <3> QED BY <3>5 DEF who, nonces
  <2>2. ASSUME NEW p \in psigs, NEW s \in 0..n,
               PartialSigAgg(<<s, p.s>>, sessions[p.session]).err = "psig"
        PROVE  PartialSigAgg(<<s, p.s>>, sessions[p.session]).who = 1
    <3> DEFINE v == SessionValues(sessions[p.session])
               agg == Aggregate(<<s, p.s>>, v)
    <3>1. p.s \in Scalar
      BY PsigAccepted
    <3>2. v.err = "ok"
      BY DEF Inv, PsigsMade, MadeIn
    <3>3. s \in Nat
      BY OrderPositive
    <3>4. PartialSigAgg(<<s, p.s>>, sessions[p.session])
            \in {agg, [err |-> "lengths", who |-> 0, r |-> INF, s |-> 0]}
      BY DEF PartialSigAgg
    <3> HIDE DEF agg
    <3>5. PartialSigAgg(<<s, p.s>>, sessions[p.session]) = agg /\ agg.err = "psig"
      BY <2>2, <3>4
    <3> HIDE DEF v
    <3>6. agg.who = 1
      BY <3>1, <3>2, <3>3, <3>5, BlamedShareIsTooBig DEF agg
    <3> QED BY <3>5, <3>6
  <2> QED BY <2>1, <2>2 DEF HonestNeverBlamed
<1> QED BY <1>1, FrostInvariant, PTL

-----------------------------------------------------------------------------
(***************************************************************************)
(* The calls keep the promise of OneTimeNonce.                             *)
(***************************************************************************)

\* The first state is one of the promise.
LEMMA InitPromise ==
  ASSUME Init
  PROVE  Promise!Init
<1>1. NonceState = [slot \in Slot |-> "none"]
  BY DEF Init, NonceState, HasBuffer, NoBuffer
<1>2. Answered = [slot \in Slot |-> {}]
  BY DEF Init, Answered
<1> QED BY <1>1, <1>2 DEF Init, Promise!Init

\* What is not said of a nonce is as it was.
LEMMA SameNonces ==
  ASSUME UNCHANGED secNonce
  PROVE  NonceState' = NonceState
BY DEF NonceState, HasBuffer, IsFresh

\* What a step does not answer is neither produced nor spent.
LEMMA SameAnswers ==
  ASSUME UNCHANGED psigs
  PROVE  Answered' = Answered
BY DEF Answered

\* A nonce is made: the promise gains a fresh one.
LEMMA NonceGenKeepsPromise ==
  ASSUME FrostAssumption, Inv, NEW slot \in Slot, NEW pair \in NoncePairs, NonceGen(slot, pair)
  PROVE  Promise!Generate(slot)
<1> USE DEF Inv
<1>1. pair # NoBuffer /\ pair # <<0, 0>>
  BY PublicOfPair
<1>2. /\ ~Published(slot) /\ outcome' = "ok" /\ psigs' = psigs
      /\ secNonce' = [secNonce EXCEPT ![slot] = pair]
  BY DEF NonceGen
<1>3. ~HasBuffer(slot)
  <2>1. NoPubNonce \notin Finite \X Finite
    BY DEF Finite, INF, NoPubNonce
  <2> QED BY <1>2, <2>1 DEF BuffersMatch, Published
<1>4. HasBuffer(slot)' /\ IsFresh(slot)'
  <2>1. secNonce'[slot] = pair
    BY <1>2 DEF StateTypes
  <2> QED BY <1>1, <2>1 DEF HasBuffer, IsFresh
<1>5. \A t \in Slot \ {slot} : HasBuffer(t)' = HasBuffer(t) /\ IsFresh(t)' = IsFresh(t)
  BY <1>2 DEF StateTypes, HasBuffer, IsFresh
<1>6. NonceState[slot] = "none"
  BY <1>3 DEF NonceState
<1>7. NonceState' = [NonceState EXCEPT ![slot] = "fresh"]
  BY <1>4, <1>5 DEF NonceState
<1> QED BY <1>2, <1>6, <1>7, SameAnswers DEF Promise!Generate

\* sign answers once with a nonce, or raises and answers nothing.
LEMMA SignKeepsPromise ==
  ASSUME FrostAssumption, Inv, NEW slot \in Slot, NEW d_, NEW my_id,
         NEW i \in DOMAIN sessions, Sign(slot, d_, my_id, i)
  PROVE  Promise!Next
<1> USE DEF Inv
<1>1. HasBuffer(slot) /\ (Refuses(i) \/ Raises(slot, i) \/ Signs(slot, d_, my_id, i))
  BY SignCases
<1>2. ASSUME secNonce' = Consumed(slot)
      PROVE  /\ NonceState' = [NonceState EXCEPT ![slot] = "spent"]
             /\ NonceState[slot] = IF IsFresh(slot) THEN "fresh" ELSE "spent"
  <2>1. /\ ~IsFresh(slot)' /\ HasBuffer(slot)'
        /\ \A t \in Slot \ {slot} : HasBuffer(t)' = HasBuffer(t) /\ IsFresh(t)' = IsFresh(t)
    <3>1. secNonce'[slot] = <<0, 0>> /\ \A t \in Slot \ {slot} : secNonce'[t] = secNonce[t]
      BY <1>2 DEF StateTypes, Consumed
    <3>2. <<0, 0>> # << >>
      OBVIOUS
    <3> QED BY <3>1, <3>2 DEF IsFresh, HasBuffer, NoBuffer
  <2> QED BY <1>1, <2>1 DEF NonceState
<1>3. CASE Refuses(i)
  BY <1>3, SameNonces, SameAnswers DEF Refuses, Promise!Next, Promise!Other
<1>4. CASE Raises(slot, i)
  <2>1. Answered' = Answered
    BY <1>4, SameAnswers DEF Raises
  <2>2. /\ NonceState' = [NonceState EXCEPT ![slot] = "spent"]
        /\ NonceState[slot] = IF IsFresh(slot) THEN "fresh" ELSE "spent"
    BY <1>2, <1>4 DEF Raises
  <2>3. CASE IsFresh(slot)
    <3>1. outcome' \in {"secret share", "not a signer", "other share"}
      BY <1>4, <2>3 DEF Raises
    <3>2. Promise!Burn(slot)
      BY <2>1, <2>2, <2>3, <3>1 DEF Promise!Burn
    <3> QED BY <3>2 DEF Promise!Next
  <2>4. CASE ~IsFresh(slot)
    <3>1. NonceState' = NonceState
      BY <2>2, <2>4 DEF NonceState
    <3> QED BY <2>1, <3>1 DEF Promise!Next, Promise!Other
  <2> QED BY <2>3, <2>4
<1>5. CASE Signs(slot, d_, my_id, i)
  <2> DEFINE new == SignedBy(slot, d_, my_id, i)
  <2>1. /\ IsFresh(slot) /\ outcome' = "ok" /\ secNonce' = Consumed(slot)
        /\ psigs' = psigs \cup {new}
    BY <1>5 DEF Signs
  <2>2. new.slot = slot /\ new.session = i
    BY DEF SignedBy, Signed
  <2>3. \A p \in psigs : p.slot # slot
    BY <2>1 DEF BuffersMatch
  <2> HIDE DEF new
  <2>4. Answered' = [Answered EXCEPT ![slot] = {i}]
    <3>1. \A t \in Slot : {q \in psigs' : q.slot = t}
                            = IF t = slot THEN {new} ELSE {q \in psigs : q.slot = t}
      BY <2>1, <2>2, <2>3
    <3>2. {p.session : p \in {new}} = {i}
      BY <2>2
    <3>3. Answered' = [t \in Slot |-> {p.session : p \in {q \in psigs' : q.slot = t}}]
      BY DEF Answered
    <3>4. \A t \in Slot : Answered'[t] = IF t = slot THEN {i} ELSE Answered[t]
      BY <3>1, <3>2, <3>3 DEF Answered
    <3> QED BY <3>3, <3>4 DEF Answered
  <2>5. i \in 1..MaxSessions
    <3>1. i \in 1..Len(sessions) /\ Len(sessions) \in Nat /\ Len(sessions) <= MaxSessions
      BY DEF StateTypes
    <3>2. MaxSessions \in Nat
      BY DEF FrostAssumption
    <3> QED BY <3>1, <3>2
  <2>6. /\ NonceState' = [NonceState EXCEPT ![slot] = "spent"] /\ NonceState[slot] = "fresh"
    BY <1>2, <2>1
  <2>7. Promise!Answer(slot, i)
    BY <2>1, <2>4, <2>6 DEF Promise!Answer
  <2> QED BY <2>5, <2>7 DEF Promise!Next
<1> QED BY <1>1, <1>3, <1>4, <1>5

\* Every step is a step of the promise or none of its.
LEMMA NextKeepsPromise ==
  ASSUME FrostAssumption, Inv, [Next]_vars
  PROVE  Promise!Next
<1>1. CASE \E slot \in Slot, pair \in NoncePairs : NonceGen(slot, pair)
  BY <1>1, NonceGenKeepsPromise DEF Promise!Next
<1>2. CASE UNCHANGED <<secNonce, psigs>>
  BY <1>2, SameNonces, SameAnswers DEF Promise!Next, Promise!Other
<1>3. CASE \E slot \in Slot, nonce \in ForeignPubNonce : ReceivePubNonce(slot, nonce)
  BY <1>2, <1>3 DEF ReceivePubNonce
<1>4. CASE \E plan \in Plans : \E slots \in [DOMAIN plan.ids -> Slot] : OpenSession(plan, slots)
  BY <1>2, <1>4 DEF OpenSession
<1>5. CASE \E plan \in Plans, nonce \in ForeignNonce : OpenForeignSession(plan, nonce)
  BY <1>2, <1>5 DEF OpenForeignSession
<1>6. CASE \E slot \in Slot, d_ \in SecShares \cup {0}, my_id \in Participants,
             i \in DOMAIN sessions : Sign(slot, d_, my_id, i)
  BY <1>6, SignKeepsPromise
<1>7. CASE \E my_id \in Participants, pair \in NoncePairs, plan \in Plans,
             other \in ForeignNonce \cup {NoOther} :
             DeterministicSign(DealtShare[my_id], my_id, pair, plan, other)
  BY <1>2, <1>7 DEF DeterministicSign
<1>8. CASE UNCHANGED vars
  BY <1>2, <1>8 DEF vars
<1> QED BY <1>1, <1>3, <1>4, <1>5, <1>6, <1>7, <1>8 DEF Next

\* FROST implements OneTimeNonce, for any number of nonces and sessions: a nonce is
\* spent by the first call that reads it, answers for at most one session, and
\* survives every refusal.
THEOREM NoncesAreOneTime ==
  ASSUME FrostAssumption
  PROVE  Spec => OneTimeNonces
<1>1. Init => Promise!Init
  BY InitPromise
<1>2. Inv /\ [Next]_vars => [Promise!Next]_(Promise!vars)
  BY NextKeepsPromise
<1> QED BY <1>1, <1>2, FrostInvariant, PTL DEF Spec, OneTimeNonces, Promise!Spec

\* The aggregation deterministic_sign does itself is the addition of its nonce to the
\* others'.
LEMMA DetAggregateIsSum ==
  ASSUME FrostAssumption, NEW d, MadeAlone(d)
  PROVE  LET mine == DetNonce(d)
             all == IF d.other = NoOther THEN mine
                    ELSE <<Add(mine[1], d.other[1]), Add(mine[2], d.other[2])>>
         IN  [d.ctx EXCEPT !.aggNonce = all] = d.ctx
<1> DEFINE mine == DetNonce(d)
           all == IF d.other = NoOther THEN mine
                  ELSE <<Add(mine[1], d.other[1]), Add(mine[2], d.other[2])>>
           agg == DeterministicAgg(mine, d.other)
<1>1. /\ d.pair \in NoncePairs /\ d.other \in ForeignNonce \cup {NoOther}
      /\ agg.err = "ok" /\ d.ctx = Session(d.plan, agg.R, << >>)
  BY DEF MadeAlone
<1>2. mine[1] \in Finite /\ mine[2] \in Finite /\ mine \in ExtEncoding \X ExtEncoding
      /\ mine = <<mine[1], mine[2]>>
  <2>1. mine = d.pair /\ d.pair \in Finite \X Finite /\ d.pair \in ExtEncoding \X ExtEncoding
    BY <1>1, PublicOfPair DEF DetNonce
  <2> QED BY <2>1
<1>3. agg.R = all
  <2>1. CASE d.other = NoOther
    BY <2>1 DEF DeterministicAgg
  <2>2. CASE d.other # NoOther
    <3> DEFINE other == d.other
               parsed == [j \in 1..2 |-> IF other[j] = INF THEN Bad ELSE other[j]]
               nonces == <<mine, parsed>>
               h1 == Half(nonces, 1)
               h2 == Half(nonces, 2)
    <3>1. other \in ExtEncoding \X ExtEncoding
      BY <1>1, <2>2 DEF FrostAssumption
    <3>2. agg = NonceAgg(nonces)
      BY <2>2 DEF DeterministicAgg
    <3>3. h1 = <<mine[1], parsed[1]>> /\ h2 = <<mine[2], parsed[2]>>
      BY DEF Half
    <3>4. nonces[2] = parsed /\ parsed = <<parsed[1], parsed[2]>>
          /\ parsed[1] = (IF other[1] = INF THEN Bad ELSE other[1])
          /\ parsed[2] = (IF other[2] = INF THEN Bad ELSE other[2])
      OBVIOUS
    <3>5. all = <<Add(mine[1], other[1]), Add(mine[2], other[2])>>
      BY <2>2
    <3> HIDE DEF parsed, mine, other, h1, h2, all
    <3>6. parsed[1] \in ExtEncoding /\ parsed[2] \in ExtEncoding
      BY <3>1, <3>4 DEF ExtEncoding
    <3>7. DOMAIN nonces = 1..2 /\ \A i \in 1..2 : nonces[i] \in ExtEncoding \X ExtEncoding
      BY <1>2, <3>4, <3>6
    <3> HIDE DEF nonces, agg
    <3>8. agg.R = <<SumAll(h1), SumAll(h2)>>
          /\ nonces[2][1] \in Point /\ nonces[2][2] \in Point
      <4>1. 2 \in Nat /\ 2 \in 1..2 /\ NonceAgg(nonces).err = "ok"
        BY <1>1, <3>2
      <4>2. /\ \A i \in 1..2 : nonces[i][1] \in Point /\ nonces[i][2] \in Point
            /\ NonceAgg(nonces).R = <<SumAll(Half(nonces, 1)), SumAll(Half(nonces, 2))>>
        BY <3>7, <4>1, NonceAggAre
      <4>3. nonces[2][1] \in Point /\ nonces[2][2] \in Point
        BY <4>1, <4>2, Zenon
      <4> QED BY <3>2, <4>2, <4>3 DEF h1, h2
    <3>9. parsed[1] \in Point /\ parsed[2] \in Point /\ Bad \notin Int
      BY <3>4, <3>8 DEF FrostAssumption
    <3>10. parsed[1] = other[1] /\ parsed[2] = other[2]
      BY <3>4, <3>9 DEF Point
    <3>11. \A k \in Finite : k \in Point
      BY DEF Finite
    <3>12. SumAll(<<mine[1], parsed[1]>>) = Add(mine[1], parsed[1])
           /\ SumAll(<<mine[2], parsed[2]>>) = Add(mine[2], parsed[2])
      BY <1>2, <3>9, <3>11, SumOfTwo
    <3> QED BY <3>3, <3>5, <3>8, <3>10, <3>12
  <2> QED BY <2>1, <2>2
<1> HIDE DEF all, agg, mine
<1>4. [d.ctx EXCEPT !.aggNonce = all] = d.ctx
  <2>1. d.ctx.aggNonce = all
    BY <1>1, <1>3, SessionFields
  <2>2. d.ctx = [f \in DOMAIN d.ctx |-> d.ctx[f]]
    BY <1>1 DEF Session
  <2> QED BY <2>1, <2>2
<1> QED BY <1>4 DEF all, mine

\* What deterministic_sign returns, partial_sig_verify_ accepts in the session the
\* others open with that public nonce added to theirs.
THEOREM DetSigsAlwaysVerify ==
  ASSUME FrostAssumption
  PROVE  Spec => []DetSigsVerify
<1>1. Inv => DetSigsVerify
  <2> SUFFICES ASSUME Inv, NEW d \in detSigs
               PROVE  LET mine == DetNonce(d)
                          all == IF d.other = NoOther THEN mine
                                 ELSE <<Add(mine[1], d.other[1]), Add(mine[2], d.other[2])>>
                      IN  PartialSigVerify_(d.s, d.my_id, mine, Mult(d.d_, G),
                                            [d.ctx EXCEPT !.aggNonce = all]) = "true"
    BY Zenon DEF DetSigsVerify, DetNonce
  <2>1. MadeAlone(d)
    BY DEF Inv, DetSigsMade
  <2>2. PartialSigVerify_(d.s, d.my_id, DetNonce(d), Mult(d.d_, G), d.ctx) = "true"
    BY <2>1, DetSigAccepted
  <2> DEFINE all == IF d.other = NoOther THEN DetNonce(d)
                    ELSE <<Add(DetNonce(d)[1], d.other[1]), Add(DetNonce(d)[2], d.other[2])>>
  <2>3. [d.ctx EXCEPT !.aggNonce = all] = d.ctx
    BY <2>1, DetAggregateIsSum
  <2> HIDE DEF all
  <2>4. PartialSigVerify_(d.s, d.my_id, DetNonce(d), Mult(d.d_, G),
                          [d.ctx EXCEPT !.aggNonce = all]) = "true"
    BY <2>2, <2>3
  <2> QED BY <2>4 DEF all
<1> QED BY <1>1, FrostInvariant, PTL

-----------------------------------------------------------------------------
(***************************************************************************)
(* Accepted partial signatures aggregate to a signature.                   *)
(***************************************************************************)

\* The sign by which the secret share enters is that of the tweaked key.
LEMMA SignOfCong ==
  ASSUME NEW v
  PROVE  /\ SignOf(v) \in Int /\ SignY(v.Q) \in Int
         /\ Cong(n, SignOf(v), SignY(v.Q))
<1>1. (n - 1) * 1 = n - 1 /\ -1 \in Int /\ n - 1 \in Int /\ 1 \in Int
  BY OrderPositive
<1>2. Cong(n, (n - 1) * 1, -1)
  BY <1>1, CongNegate
<1>3. CASE HasOddY(v.Q)
  BY <1>1, <1>2, <1>3 DEF SignOf, SignY
<1>4. CASE ~HasOddY(v.Q)
  BY <1>1, <1>4, CongSelf DEF SignOf, SignY
<1> QED BY <1>3, <1>4

\* What a partial signature partial_sig_verify_ accepts is modulo n: its signer's
\* nonces with the sign of R, and the signer's public share with its interpolating
\* value.
LEMMA AcceptedShare ==
  ASSUME FrostAssumption, NEW ctx, IsContext(ctx), SessionValues(ctx).err = "ok",
         NEW s \in Scalar, NEW nonce \in ExtEncoding \X ExtEncoding, NEW P \in Encoding,
         NEW my_id, PartialSigVerify_(s, my_id, nonce, P, ctx) = "true"
  PROVE  LET v == SessionValues(ctx)
             g == (SignOf(v) * v.gacc) % n
             a == DeriveInterpolatingValue(ctx.ids, my_id)
         IN  /\ nonce[1] \in Point /\ nonce[2] \in Point /\ P \in Finite
             /\ Mult(a, P) \in Int
             /\ Cong(n, s, SignY(v.R) * nonce[1] + (SignY(v.R) * v.b) * nonce[2]
                             + (v.e * g) * Mult(a, P))
<1> DEFINE v == SessionValues(ctx)
           g == (SignOf(v) * v.gacc) % n
           a == DeriveInterpolatingValue(ctx.ids, my_id)
           k_1 == nonce[1]
           k_2 == nonce[2]
           b == v.b
           e == v.e
           R == v.R
           rhs == VerifierSide(R, b, k_1, k_2, e, a, g, P)
           other == ctx.pub_shares # Unknown /\ \E j \in DOMAIN ctx.ids :
                      ctx.ids[j] = my_id /\ ctx.pub_shares[j] # P
<1>1. IsValues(v) /\ ParamsOf(ctx) = "ok"
  BY SessionValuesAre
<1>2. PartialSigVerify_(s, my_id, nonce, P, ctx)
        = IF v.err # "ok" \/ my_id \notin ToSet(ctx.ids) THEN "raises"
          ELSE IF s >= n \/ Bad \in {k_1, k_2, P} THEN "false"
          ELSE IF other THEN "false"
          ELSE IF Mult(s, G) = rhs THEN "true" ELSE "false"
  BY DEF PartialSigVerify_, VerifyShare, VerifierSide
<1> HIDE DEF rhs, other
<1>3. Bad \notin {k_1, k_2, P} /\ Mult(s, G) = rhs /\ my_id \in ToSet(ctx.ids)
  BY <1>2
<1>4. k_1 \in Point /\ k_2 \in Point /\ P \in Finite
  BY <1>3 DEF ExtEncoding, Encoding
<1>5. a \in Int
  BY <1>1, <1>3, SignerValue
<1>6. SignOf(v) \in Int
  BY SignOfCong
<1> HIDE DEF v, a
<1>7. /\ b \in Int /\ e \in Int /\ k_1 \in Int /\ k_2 \in Int /\ P \in Int /\ a \in Int
      /\ v.gacc \in Int
  BY <1>1, <1>4, <1>5 DEF IsValues, Scalar, Point, Finite
<1>8. g \in Int
  BY <1>6, <1>7, CongReduce
<1> HIDE DEF b, e, R, k_1, k_2, g
<1>9. Mult(s, G) = s /\ s \in Int
  <2>1. s * 1 = s /\ s % n = s /\ s \in Int
    BY OrderPositive DEF Scalar
  <2> QED BY <2>1 DEF Mult, G
<1>10. /\ Mult(a, P) \in Int /\ rhs \in Int
       /\ Cong(n, rhs, SignY(R) * k_1 + (SignY(R) * b) * k_2 + (e * g) * Mult(a, P))
  BY <1>7, <1>8, ShareEquation DEF rhs
<1> QED BY <1>3, <1>4, <1>9, <1>10 DEF R, e, g, b, k_1, k_2, v, a

\* The accepted partial signatures of all the signers, with the shares P of the
\* threshold key.
SharesOfKey(ctx, P) ==
  /\ DOMAIN P = DOMAIN ctx.ids /\ \A j \in DOMAIN ctx.ids : P[j] \in Encoding
  /\ DeriveThreshPubkey(ctx.ids, P) = ctx.thresh_pk
AggregateOf(ctx, nonces) ==
  /\ DOMAIN nonces = DOMAIN ctx.ids
  /\ \A j \in DOMAIN ctx.ids : nonces[j] \in ExtEncoding \X ExtEncoding
  /\ NonceAgg(nonces).err = "ok" /\ ctx.aggNonce = NonceAgg(nonces).R
AllAccepted(ctx, nonces, P, s) ==
  /\ DOMAIN s = DOMAIN ctx.ids /\ \A j \in DOMAIN ctx.ids : s[j] \in Scalar
  /\ \A j \in DOMAIN ctx.ids :
       PartialSigVerify_(s[j], ctx.ids[j], nonces[j], P[j], ctx) = "true"

\* They sum to the aggregate nonce with the sign of R and the untweaked key, whatever
\* subset signs.
LEMMA SumOfShares ==
  ASSUME FrostAssumption, NEW ctx, IsContext(ctx), SessionValues(ctx).err = "ok",
         NEW nonces, AggregateOf(ctx, nonces), NEW P, SharesOfKey(ctx, P),
         NEW s, AllAccepted(ctx, nonces, P, s)
  PROVE  LET v == SessionValues(ctx)
             g == (SignOf(v) * v.gacc) % n
         IN  /\ SumAll(s) \in Int
             /\ Cong(n, SumAll(s), SignY(v.R) * ctx.aggNonce[1]
                                + (SignY(v.R) * v.b) * ctx.aggNonce[2]
                                + (v.e * g) * ctx.thresh_pk)
<1> DEFINE v == SessionValues(ctx)
           g == (SignOf(v) * v.gacc) % n
           ids == ctx.ids
           m == Len(ids)
           terms == [j \in DOMAIN ids |-> Mult(DeriveInterpolatingValue(ids, ids[j]), P[j])]
           h1 == Half(nonces, 1)
           h2 == Half(nonces, 2)
           a == SignY(v.R)
           b == SignY(v.R) * v.b
           c == v.e * g
<1>1. ids \in Seq(Ids) /\ IsValues(v)
  <2>1. ParamsOf(ctx) = "ok" /\ IsValues(v)
    BY SessionValuesAre
  <2> QED BY <2>1, ParamsAre DEF IsContext, ParamsOf
<1>2. m \in Nat /\ DOMAIN ids = 1..m /\ DOMAIN s = 1..m /\ DOMAIN nonces = 1..m
      /\ DOMAIN h1 = 1..m /\ DOMAIN h2 = 1..m /\ DOMAIN terms = 1..m /\ DOMAIN P = 1..m
  BY <1>1 DEF AllAccepted, AggregateOf, SharesOfKey, Half
<1>3. \A j \in 1..m : /\ nonces[j][1] \in Point /\ nonces[j][2] \in Point /\ s[j] \in Scalar
                      /\ Mult(DeriveInterpolatingValue(ids, ids[j]), P[j]) \in Int
                      /\ Cong(n, s[j], a * nonces[j][1] + b * nonces[j][2]
                               + c * Mult(DeriveInterpolatingValue(ids, ids[j]), P[j]))
  <2> SUFFICES ASSUME NEW j \in 1..m
               PROVE  /\ nonces[j][1] \in Point /\ nonces[j][2] \in Point /\ s[j] \in Scalar
                      /\ Mult(DeriveInterpolatingValue(ids, ids[j]), P[j]) \in Int
                      /\ Cong(n, s[j], a * nonces[j][1] + b * nonces[j][2]
                               + c * Mult(DeriveInterpolatingValue(ids, ids[j]), P[j]))
    OBVIOUS
  <2>1. j \in DOMAIN ctx.ids
    BY <1>2
  <2>2. /\ s[j] \in Scalar /\ nonces[j] \in ExtEncoding \X ExtEncoding /\ P[j] \in Encoding
        /\ PartialSigVerify_(s[j], ids[j], nonces[j], P[j], ctx) = "true"
    BY <2>1 DEF AllAccepted, AggregateOf, SharesOfKey
  <2> DEFINE x == s[j]
             nonce == nonces[j]
             share == P[j]
             my_id == ids[j]
  <2>3. /\ x \in Scalar /\ nonce \in ExtEncoding \X ExtEncoding /\ share \in Encoding
        /\ PartialSigVerify_(x, my_id, nonce, share, ctx) = "true"
    BY <2>2
  <2> HIDE DEF x, nonce, share, my_id
  <2>4. /\ nonce[1] \in Point /\ nonce[2] \in Point
        /\ Mult(DeriveInterpolatingValue(ctx.ids, my_id), share) \in Int
        /\ Cong(n, x, a * nonce[1] + b * nonce[2]
                       + c * Mult(DeriveInterpolatingValue(ctx.ids, my_id), share))
    BY <2>3, AcceptedShare
  <2> QED BY <2>3, <2>4 DEF x, nonce, share, my_id
<1>4. ctx.thresh_pk = SumAll(terms)
  <2> DEFINE at == [i \in DOMAIN ids |-> Mult(Coefficient(ids, ids[i], -1), P[i])]
  <2>1. SumAll(at) = ctx.thresh_pk
    BY DEF SharesOfKey, DeriveThreshPubkey, DerivePubshareAt
  <2>2. \A j \in 1..m : ids[j] \in Ids
    BY <1>1, <1>2
  <2> HIDE DEF ids
  <2>3. \A j \in 1..m : Coefficient(ids, ids[j], -1) = DeriveInterpolatingValue(ids, ids[j])
    BY <1>1, <2>2, CoefficientsAgree
  <2>4. at = terms
    BY <1>2, <2>3
  <2> QED BY <2>1, <2>4
<1>5. ctx.aggNonce[1] = SumAll(h1) /\ ctx.aggNonce[2] = SumAll(h2)
  <2>1. /\ \A j \in 1..m : nonces[j] \in ExtEncoding \X ExtEncoding
        /\ NonceAgg(nonces).err = "ok" /\ ctx.aggNonce = NonceAgg(nonces).R
    BY <1>2 DEF AggregateOf
  <2> HIDE DEF m
  <2>2. NonceAgg(nonces).R = <<SumAll(Half(nonces, 1)), SumAll(Half(nonces, 2))>>
    BY <1>2, <2>1, NonceAggAre
  <2> QED BY <2>1, <2>2
<1>6. /\ v.e \in Int /\ v.b \in Int /\ v.gacc \in Int /\ SignOf(v) \in Int /\ SignY(v.R) \in Int
  <2>1. SignOf(v) \in Int
    BY SignOfCong
  <2> QED BY <1>1, <2>1 DEF IsValues, Scalar, SignY
<1>7. a \in Int /\ b \in Int /\ c \in Int
  <2>1. g \in Int
    BY <1>6, CongReduce
  <2> HIDE DEF g
  <2> QED BY <1>6, <2>1
<1>8. \A j \in 1..m : h1[j] = nonces[j][1] /\ h2[j] = nonces[j][2]
                      /\ terms[j] = Mult(DeriveInterpolatingValue(ids, ids[j]), P[j])
  BY <1>2 DEF Half
<1> HIDE DEF a, b, c, h1, h2, terms, m, ids
<1>9. \A j \in 1..m : s[j] \in Int /\ h1[j] \in Int /\ h2[j] \in Int /\ terms[j] \in Int
  BY <1>3, <1>8 DEF Point, Scalar
<1>10. \A j \in 1..m : Cong(n, s[j], a * h1[j] + b * h2[j] + c * terms[j])
  BY <1>3, <1>8
<1>11. Len(s) = m /\ Len(h1) = m /\ Len(h2) = m /\ Len(terms) = m
  BY <1>2, LenOfFunction
<1>12. Cong(n, SumAll(s), a * SumAll(h1) + b * SumAll(h2) + c * SumAll(terms))
  BY <1>2, <1>7, <1>9, <1>10, <1>11, SumLinear
<1>13. SumAll(s) \in Int
  <2>1. SumAll(s) \in Scalar
    BY <1>2, <1>9, <1>11, SumScalar
  <2> QED BY <2>1 DEF Scalar
<1> QED BY <1>4, <1>5, <1>12, <1>13 DEF a, b, c

\* Their aggregate is the nonce plus the challenge times the key.
LEMMA AggregateEquation ==
  ASSUME FrostAssumption, NEW ctx, IsContext(ctx), SessionValues(ctx).err = "ok",
         ~SessionValues(ctx).placeholder,
         NEW nonces, AggregateOf(ctx, nonces), NEW P, SharesOfKey(ctx, P),
         NEW s, AllAccepted(ctx, nonces, P, s)
  PROVE  LET v == SessionValues(ctx)
             agg == PartialSigAgg(s, ctx)
         IN  /\ agg.err = "ok" /\ agg.r = XOnly(v.R) /\ agg.s \in Scalar
             /\ Cong(n, agg.s, SignY(v.R) * (v.R - 0) + v.e * XOnly(v.Q))
<1> DEFINE v == SessionValues(ctx)
           g == (SignOf(v) * v.gacc) % n
           f == SignY(v.R)
           b == v.b
           e == v.e
           S == SignOf(v)
           gacc == v.gacc
           tacc == v.tacc
           A_1 == ctx.aggNonce[1]
           A_2 == ctx.aggNonce[2]
           Q_0 == ctx.thresh_pk
           Q == v.Q
           xQ == XOnly(v.Q)
           R == v.R
           sum == SumAll(s)
<1>1. /\ IsValues(v) /\ KeyOf(ctx).err = "ok" /\ ParamsOf(ctx) = "ok"
      /\ v.Q = KeyOf(ctx).Q /\ v.gacc = KeyOf(ctx).gacc /\ v.tacc = KeyOf(ctx).tacc
      /\ A_1 \in Point /\ A_2 \in Point
      /\ v.b = NonceCoeff(ctx.ids, A_1, A_2, XOnly(v.Q), ctx.msg)
      /\ R = Add(A_1, Mult(NonceCoeff(ctx.ids, A_1, A_2, XOnly(v.Q), ctx.msg), A_2))
  BY SessionValuesAre
<1>2. R = Add(A_1, Mult(b, A_2))
  BY <1>1
<1>3. Q_0 \in Finite /\ Cong(n, Q, gacc * Q_0 + tacc)
  <2>1. KeyOf(ctx) \in AffineKeys(ctx.thresh_pk)
    BY TweakedKeyIsAffine DEF IsContext, KeyOf
  <2>2. /\ ctx.thresh_pk \in Finite
        /\ Cong(n, KeyOf(ctx).Q, KeyOf(ctx).gacc * ctx.thresh_pk + KeyOf(ctx).tacc)
    BY <1>1, <2>1 DEF AffineKeys
  <2> QED BY <1>1, <2>2
<1>4. /\ sum \in Int
      /\ Cong(n, sum, f * A_1 + (f * b) * A_2 + (e * g) * Q_0)
  BY SumOfShares
<1>5. S \in Int /\ Cong(n, S, SignY(v.Q)) /\ SignY(v.Q) \in Int
  BY SignOfCong
<1>6. Q \in Finite /\ R \in Finite /\ xQ \in Int /\ Cong(n, xQ, SignY(v.Q) * Q)
  BY <1>1, XOnlyCong DEF IsValues
<1> DEFINE SY == SignY(v.Q)
<1>7. Len(s) = Len(ctx.ids)
  <2>1. DOMAIN s = 1..Len(ctx.ids) /\ Len(ctx.ids) \in Nat
    BY DEF AllAccepted, IsContext
  <2> QED BY <2>1, LenOfFunction
<1>8. PartialSigAgg(s, ctx) = Aggregate(s, v)
  BY <1>7 DEF PartialSigAgg
<1>9. /\ v.err = "ok" /\ b \in Int /\ e \in Int /\ gacc \in Int /\ tacc \in Int
      /\ A_1 \in Int /\ A_2 \in Int /\ Q_0 \in Int /\ Q \in Int /\ R \in Int /\ f \in Int
  BY <1>1, <1>3, <1>6 DEF IsValues, Scalar, Point, Finite, SignY
<1>10. g \in Int /\ Cong(n, g, S * gacc)
  BY <1>5, <1>9, CongReduce
<1> HIDE DEF g, f, b, e, S, gacc, tacc, A_1, A_2, Q_0, Q, xQ, R, sum, SY
<1>11. Cong(n, xQ, S * Q)
  <2>1. Cong(n, Q * S, Q * SY)
    BY <1>5, <1>9, CongScale DEF SY
  <2>2. Q * S = S * Q /\ Q * SY = SY * Q
    BY <1>5, <1>9 DEF SY
  <2>3. Cong(n, xQ, SY * Q)
    BY <1>6 DEF SY
  <2> QED BY <2>1, <2>2, <2>3 DEF Cong
<1>12. Cong(n, R, A_1 + 0 + b * A_2)
  <2> DEFINE y == b * A_2
             yn == Mult(b, A_2)
  <2>1. y \in Int /\ yn = y % n
    BY <1>9 DEF Mult
  <2>2. A_1 + 0 = A_1
    BY <1>9
  <2> HIDE DEF y, yn
  <2>3. yn \in Int /\ Cong(n, yn, y)
    BY <2>1, CongReduce
  <2>4. Cong(n, A_1 + yn, A_1 + y) /\ A_1 + yn \in Int
    BY <1>9, <2>1, <2>3, CongSelf, CongSum
  <2>5. R = (A_1 + yn) % n
    BY <1>2 DEF Add, yn
  <2>6. Cong(n, R, A_1 + y)
    BY <2>4, <2>5, CongReduce DEF Cong
  <2> QED BY <2>2, <2>6 DEF y
<1>13. Cong(n, sum + e * S * tacc, f * (R - 0) + e * xQ)
  <2>1. xQ \in Int /\ 0 \in Int
    BY <1>6
  <2> QED BY <1>3, <1>4, <1>5, <1>9, <1>10, <1>11, <1>12, <2>1, AggregateArithmetic, ZenonT(60)
<1> DEFINE tooBig == {i \in DOMAIN s : s[i] >= n}
           error(err, who) == [err |-> err, who |-> who, r |-> INF, s |-> 0]
<1>14. tooBig = {}
  <2>1. \A i \in DOMAIN s : s[i] \in Scalar
    BY DEF AllAccepted
  <2>2. \A x \in Scalar : ~(x >= n)
    BY OrderPositive DEF Scalar
  <2> QED BY <2>1, <2>2
<1>15. Aggregate(s, v) = IF v.err # "ok" THEN error(v.err, 0)
                         ELSE IF tooBig # {}
                         THEN error("psig", CHOOSE i \in tooBig : \A j \in tooBig : i <= j)
                         ELSE [err |-> "ok", who |-> 0, r |-> XOnly(R),
                               s |-> (sum + e * S * tacc) % n]
  BY DEF Aggregate, R, sum, e, S, tacc
<1> HIDE DEF tooBig, error
<1>16. Aggregate(s, v) = [err |-> "ok", who |-> 0, r |-> XOnly(R),
                          s |-> (sum + e * S * tacc) % n]
  BY <1>9, <1>14, <1>15
<1>17. sum + e * S * tacc \in Int
  BY <1>4, <1>5, <1>9
<1> DEFINE total == sum + e * S * tacc
           agg == PartialSigAgg(s, ctx)
<1>18. agg.err = "ok" /\ agg.r = XOnly(R) /\ agg.s = total % n
  BY <1>8, <1>16
<1> HIDE DEF total, agg
<1>19. total % n \in Scalar /\ Cong(n, total % n, total)
  BY <1>17, CongReduce DEF total
<1>20. Cong(n, agg.s, f * (R - 0) + e * xQ)
  BY <1>13, <1>18, <1>19 DEF Cong, total
<1> QED BY <1>18, <1>19, <1>20 DEF agg, f, R, e, xQ

\* It is a BIP340 signature of the tweaked key.
LEMMA AcceptedAggregates ==
  ASSUME FrostAssumption, NEW ctx, IsContext(ctx), SessionValues(ctx).err = "ok",
         ~SessionValues(ctx).placeholder,
         NEW nonces, AggregateOf(ctx, nonces), NEW P, SharesOfKey(ctx, P),
         NEW s, AllAccepted(ctx, nonces, P, s)
  PROVE  LET agg == PartialSigAgg(s, ctx) IN
         agg.err = "ok" /\ SchnorrVerifies(XOnly(SessionValues(ctx).Q), ctx.msg, agg.r, agg.s)
<1> DEFINE v == SessionValues(ctx)
           agg == PartialSigAgg(s, ctx)
           R == v.R
           Q == v.Q
           e == v.e
           xR == XOnly(R)
           xQ == XOnly(Q)
<1>1. agg.err = "ok" /\ agg.r = xR /\ agg.s \in Scalar
      /\ Cong(n, agg.s, SignY(R) * (R - 0) + e * xQ)
  BY AggregateEquation
<1>2. R \in Finite /\ Q \in Finite /\ e \in Scalar /\ e = Challenge[xR, xQ, ctx.msg] /\ e # 0
  BY SessionValuesAre DEF IsValues
<1> HIDE DEF v, agg, R, Q, e
<1>3. R \in Int /\ e \in Int /\ xQ \in Int /\ xR \in Int /\ Cong(n, xR, SignY(R) * R)
  <2>1. R \in Finite /\ Q \in Finite /\ e \in Scalar
    BY <1>2
  <2>2. R \in Int /\ e \in Int
    BY <2>1 DEF Finite, Point, Scalar
  <2>3. xQ \in Int
    BY <2>1, XOnlyCong
  <2>4. xR \in Int /\ Cong(n, xR, SignY(R) * R)
    BY <2>1, XOnlyCong
  <2> QED BY <2>2, <2>3, <2>4
<1> HIDE DEF xR, xQ
<1>4. Cong(n, agg.s, xR + e * xQ)
  <2>1. R - 0 = R /\ e * xQ \in Int
    BY <1>3
  <2> DEFINE f == SignY(R) * R
             k == e * xQ
  <2>2. f \in Int /\ k \in Int
    BY <1>3 DEF SignY
  <2>3. Cong(n, agg.s, f + k) /\ Cong(n, xR, f)
    BY <1>1, <1>3, <2>1
  <2> HIDE DEF f, k
  <2>4. Cong(n, xR + k, f + k)
    BY <1>3, <2>2, <2>3, CongSelf, CongSum
  <2> QED BY <2>3, <2>4 DEF Cong, k
<1>5. SchnorrVerifies(xQ, ctx.msg, xR, agg.s)
  <2> DEFINE t == agg.s
             msg == ctx.msg
  <2>1. t \in Scalar /\ Challenge[XOnly(R), XOnly(Q), msg] \in Scalar \ {0}
        /\ Cong(n, t, XOnly(R) + Challenge[XOnly(R), XOnly(Q), msg] * XOnly(Q))
    BY <1>1, <1>2, <1>4 DEF xR, xQ
  <2> HIDE DEF t, msg
  <2>2. SchnorrVerifies(XOnly(Q), msg, XOnly(R), t)
    BY <1>2, <2>1, SchnorrEquation
  <2> QED BY <2>2 DEF t, msg, xR, xQ
<1> QED BY <1>1, <1>5 DEF agg, v, Q, xQ

\* The public shares a session knows are shares of its threshold key.
LEMMA KnownShares ==
  ASSUME FrostAssumption, NEW ctx, IsContext(ctx), ParamsOf(ctx) = "ok",
         ctx.pub_shares # Unknown
  PROVE  /\ DOMAIN ctx.pub_shares = DOMAIN ctx.ids
         /\ \A j \in DOMAIN ctx.ids : ctx.pub_shares[j] \in Finite
         /\ DeriveThreshPubkey(ctx.ids, ctx.pub_shares) = ctx.thresh_pk
<1> DEFINE total == ctx.total
           t == ctx.t
           ids == ctx.ids
           shares == ctx.pub_shares
           thresh_pk == ctx.thresh_pk
<1>1. /\ total \in Int /\ t \in Int /\ ids \in Seq(Int)
      /\ shares = Unknown \/ shares \in Seq(Encoding)
      /\ ValidateSessionParams(total, t, ids, shares, thresh_pk) = "ok" /\ shares # Unknown
  BY DEF IsContext, ParamsOf
<1> HIDE DEF total, t, ids, shares, thresh_pk
<1>2. shares # Unknown =>
        /\ DOMAIN shares = DOMAIN ids
        /\ \A i \in DOMAIN ids : shares[i] \in Finite
        /\ DeriveThreshPubkey(ids, shares) = thresh_pk /\ thresh_pk # INF
  BY <1>1, ParamsAre, Zenon
<1> QED BY <1>1, <1>2 DEF ids, shares, thresh_pk

\* Partial signatures that are all accepted with public shares of the threshold key,
\* the session's or, where it has none, the dealt ones, aggregate to a valid BIP340
\* signature of the tweaked threshold key: for every group, every subset of signers
\* and every value of the hashes.  That the dealt shares are the key's whichever of
\* them sign is the interpolation of the dealer's polynomial, and assumed.
THEOREM AbortIsIdentifiable ==
  ASSUME FrostAssumption, DealtSharesAgree
  PROVE  Spec => []IdentifiableAbort
<1>1. Inv => IdentifiableAbort
  <2> SUFFICES ASSUME Inv, NEW i \in DOMAIN sessions, Regular(sessions[i]),
                      sessions[i].pub_shares # Unknown \/ sessions[i].thresh_pk = DealtKey,
                      NEW s \in [DOMAIN sessions[i].ids -> Scalar],
                      \A j \in DOMAIN sessions[i].ids :
                        PartialSigVerify_(s[j], sessions[i].ids[j], pubNonce[sessions[i].slots[j]],
                                          ShareOf(sessions[i], j), sessions[i]) = "true"
               PROVE  LET ctx == sessions[i]
                          agg == PartialSigAgg(s, ctx)
                      IN  /\ agg.err = "ok"
                          /\ SchnorrVerifies(XOnly(SessionValues(ctx).Q), ctx.msg, agg.r, agg.s)
    BY DEF IdentifiableAbort
  <2> DEFINE ctx == sessions[i]
             nonces == NoncesOf(ctx)
             P == [j \in DOMAIN ctx.ids |-> ShareOf(ctx, j)]
  <2>1. ctx \in SessionSet /\ IsContext(ctx) /\ ctx.slots \in Seq(Slot)
    BY SessionOfState DEF Inv
  <2>2. ctx.slots # << >> /\ SessionValues(ctx).err = "ok" /\ ~SessionValues(ctx).placeholder
    BY DEF Regular
  <2>3. /\ DOMAIN ctx.slots = DOMAIN ctx.ids
        /\ NonceAgg(nonces).err = "ok" /\ ctx.aggNonce = NonceAgg(nonces).R
    BY <2>2 DEF Inv, SessionsMatch, Matched
  <2>4. AggregateOf(ctx, nonces)
    <3>1. \A j \in DOMAIN ctx.ids : nonces[j] = pubNonce[ctx.slots[j]] /\ ctx.slots[j] \in Slot
      BY <2>1, <2>3 DEF NoncesOf
    <3>2. \A j \in DOMAIN ctx.ids : nonces[j] \in ExtEncoding \X ExtEncoding
      BY <3>1 DEF Inv, StateTypes
    <3> QED BY <2>3, <3>2 DEF AggregateOf, NoncesOf
  <2>5. AllAccepted(ctx, nonces, P, s)
    <3>1. \A j \in DOMAIN ctx.ids :
            PartialSigVerify_(s[j], ctx.ids[j], nonces[j], P[j], ctx) = "true"
      BY <2>3 DEF NoncesOf
    <3> QED BY <3>1 DEF AllAccepted
  <2>6. SharesOfKey(ctx, P)
    <3>1. ParamsOf(ctx) = "ok"
      BY <2>1, <2>2, SessionValuesAre
    <3>2. CASE ctx.pub_shares # Unknown
      <4>1. /\ DOMAIN ctx.pub_shares = DOMAIN ctx.ids
            /\ \A j \in DOMAIN ctx.ids : ctx.pub_shares[j] \in Finite
            /\ DeriveThreshPubkey(ctx.ids, ctx.pub_shares) = ctx.thresh_pk
        <5> HIDE DEF ctx
        <5> QED BY <2>1, <3>1, <3>2, KnownShares
      <4>2. P = ctx.pub_shares
        <5>1. ctx.pub_shares \in Seq(Encoding)
          BY <2>1, <3>2 DEF IsContext
        <5>2. ctx.pub_shares = [j \in DOMAIN ctx.pub_shares |-> ctx.pub_shares[j]]
          BY <5>1
        <5> QED BY <3>2, <4>1, <5>2 DEF ShareOf
      <4> HIDE DEF P
      <4> QED BY <4>1, <4>2 DEF SharesOfKey, Encoding
    <3>3. CASE ctx.pub_shares = Unknown
      <4>1. P = [j \in DOMAIN ctx.ids |-> Mult(DealtShare[ctx.ids[j]], G)]
        BY <3>3 DEF ShareOf
      <4>2. PICK p \in Plans, a \in ExtEncoding \X ExtEncoding, sl \in Seq(Slot) :
                   ctx = Session(p, a, sl)
        BY <2>1 DEF SessionSet
      <4>3. /\ ctx.total = p.total /\ ctx.t = p.t /\ ctx.ids = p.ids
            /\ ctx.pub_shares = p.pub_shares /\ ctx.thresh_pk = p.thresh_pk
        BY <4>2, SessionFields
      <4>4. ctx.thresh_pk = DealtKey
        BY <3>3
      <4> HIDE DEF P
      <4>5. ToSet(ctx.ids) \subseteq Participants /\ DeriveThreshPubkey(ctx.ids, P) = DealtKey
        <5> HIDE DEF ctx
        <5> QED BY <3>1, <3>3, <4>1, <4>3, <4>4 DEF DealtSharesAgree, ParamsOf
      <4>6. \A j \in DOMAIN ctx.ids : P[j] \in Encoding
        <5> SUFFICES ASSUME NEW j \in DOMAIN ctx.ids PROVE P[j] \in Encoding
          OBVIOUS
        <5>1. ctx.ids[j] \in Participants
          BY <4>5 DEF ToSet
        <5> DEFINE d == DealtShare[ctx.ids[j]]
        <5>2. d \in Finite
          BY <5>1 DEF FrostAssumption
        <5>3. P[j] = Mult(d, G)
          BY <4>1
        <5> HIDE DEF d
        <5>4. \A x \in 1..(n - 1) : x * 1 = x /\ x % n = x
          BY OrderPositive
        <5>5. d \in 1..(n - 1)
          BY <5>2 DEF Finite, Point, INF
        <5>6. Mult(d, G) = d
          BY <5>4, <5>5 DEF Mult, G
        <5> QED BY <5>2, <5>3, <5>6 DEF Encoding
      <4> QED BY <4>1, <4>4, <4>5, <4>6 DEF SharesOfKey
    <3> QED BY <3>2, <3>3
  <2> HIDE DEF ctx, nonces, P
  <2>7. LET agg == PartialSigAgg(s, ctx) IN
        agg.err = "ok" /\ SchnorrVerifies(XOnly(SessionValues(ctx).Q), ctx.msg, agg.r, agg.s)
    BY <2>1, <2>2, <2>4, <2>5, <2>6, AcceptedAggregates
  <2> QED BY <2>7 DEF ctx
<1> QED BY <1>1, FrostInvariant, PTL

-----------------------------------------------------------------------------
(***************************************************************************)
(* The order of the signers does not matter.                               *)
(***************************************************************************)

\* Two factors may be applied in either order.
LEMMA FactorsCommute ==
  ASSUME NEW a \in Int, NEW c \in Int, NEW y \in Int
  PROVE  (((a * c) % n) * y) % n = (((a * y) % n) * c) % n
<1> DEFINE ac == a * c
           ay == a * y
           p == ac % n
           q == ay % n
<1>1. /\ ac \in Int /\ ay \in Int
  OBVIOUS
<1>2. y * ac = c * ay
  OBVIOUS
<1> HIDE DEF ac, ay
<1>3. p \in Int /\ q \in Int /\ Cong(n, p, ac) /\ Cong(n, q, ay)
  BY <1>1, CongReduce
<1> HIDE DEF p, q
<1>4. Cong(n, y * p, y * ac) /\ Cong(n, c * q, c * ay)
  BY <1>1, <1>3, CongScale
<1>5. p * y = y * p /\ q * c = c * q
  BY <1>3
<1>6. (p * y) % n = (q * c) % n
  BY <1>2, <1>4, <1>5 DEF Cong
<1> QED BY <1>6 DEF p, q, ac, ay

\* A factor put where there was none multiplies the product.
LEMMA ReplacedFactor ==
  ASSUME NEW m \in Nat, NEW u, NEW w, Len(u) = m, Len(w) = m,
         \A i \in 1..m : u[i] \in Int /\ w[i] \in Int,
         NEW k \in 1..m, u[k] = 1, \A i \in 1..m : i # k => u[i] = w[i]
  PROVE  Product(w) = (Product(u) * w[k]) % n
<1> DEFINE U == Products(u)
           W == Products(w)
           c == w[k]
           good(j) == W[j] = IF j < k THEN U[j] ELSE (U[j] * c) % n
           X == {j \in 0..m : good(j)}
           h == [j \in 0..m |-> j]
<1>1. /\ U[0] = 1 /\ W[0] = 1
      /\ \A j \in 1..m : U[j] = (U[j - 1] * u[j]) % n /\ W[j] = (W[j - 1] * w[j]) % n
      /\ \A j \in 0..m : U[j] \in Scalar
  BY ProductsStep
<1>2. c \in Int /\ \A j \in 0..m : U[j] \in Int /\ U[j] % n = U[j]
  <2>1. \A x \in Scalar : x \in Int /\ x % n = x
    BY OrderPositive DEF Scalar
  <2> QED BY <1>1, <2>1
<1>3. Product(u) = U[m] /\ Product(w) = W[m]
  BY DEF Product
<1> HIDE DEF U, W
<1>4. h[0] \in X
  <2>1. good(0)
    BY <1>1
  <2> QED BY <2>1
<1>5. ASSUME NEW j \in 1..m, h[j - 1] \in X PROVE h[j] \in X
  <2>1. good(j - 1) /\ j - 1 \in 0..m /\ j \in 0..m
    BY <1>5
  <2>2. CASE j < k
    <3>1. W[j - 1] = U[j - 1] /\ u[j] = w[j]
      BY <2>1, <2>2
    <3>2. good(j)
      BY <1>1, <2>2, <3>1
    <3> QED BY <2>1, <3>2
  <2>3. CASE j = k
    <3>1. W[j - 1] = U[j - 1] /\ w[j] = c /\ u[j] = 1
      BY <2>1, <2>3
    <3>2. W[j] = (U[j - 1] * c) % n
      BY <1>1, <3>1
    <3>3. U[j] = U[j - 1]
      <4>1. U[j - 1] * 1 = U[j - 1] /\ U[j - 1] % n = U[j - 1]
        BY <1>2, <2>1
      <4> QED BY <1>1, <3>1, <4>1
    <3>4. good(j)
      BY <2>3, <3>2, <3>3
    <3> QED BY <2>1, <3>4
  <2>4. CASE j > k
    <3> DEFINE a == U[j - 1]
               y == u[j]
    <3>1. W[j - 1] = (a * c) % n /\ y = w[j] /\ y \in Int /\ a \in Int
      BY <1>2, <2>1, <2>4
    <3>2. W[j] = (((a * c) % n) * y) % n /\ U[j] = (a * y) % n
      BY <1>1, <3>1
    <3> HIDE DEF a, y
    <3>3. (((a * c) % n) * y) % n = (((a * y) % n) * c) % n
      BY <1>2, <3>1, FactorsCommute
    <3>4. W[j] = (U[j] * c) % n
      BY <3>2, <3>3
    <3>5. good(j)
      BY <2>4, <3>4
    <3> QED BY <2>1, <3>5
  <2> QED BY <2>2, <2>3, <2>4
<1>6. \A j \in 0..m : h[j] \in X
  <2> HIDE DEF h, X
  <2> QED BY <1>4, <1>5, LoopInvariant
<1>7. good(m)
  BY <1>6
<1> QED BY <1>3, <1>7

\* The factors of the first j signers, each put in the place of its identifier.
SpreadOut(g, ids, j) ==
  [k \in 1..(n - 1) |-> IF \E i \in 1..j : ids[i] = k - 1 THEN g[k - 1] ELSE 1]

\* A product over distinct signers is the product of their factors in the order of
\* the identifiers.
LEMMA ProductSpreadOut ==
  ASSUME NEW ids \in Seq(Ids), IsInjective(ids), NEW g \in [Ids -> Int]
  PROVE  Product([i \in DOMAIN ids |-> g[ids[i]]]) = Product(SpreadOut(g, ids, Len(ids)))
<1> DEFINE m == Len(ids)
           s == [i \in DOMAIN ids |-> g[ids[i]]]
           S == Products(s)
           good(j) == S[j] = Product(SpreadOut(g, ids, j))
           X == {j \in 0..m : good(j)}
           h == [j \in 0..m |-> j]
<1>1. m \in Nat /\ DOMAIN ids = 1..m /\ n - 1 \in Nat
      /\ \A i \in 1..m : ids[i] \in Ids /\ ids[i] + 1 \in 1..(n - 1)
  BY OrderPositive, SMTT(30) DEF Ids
<1>2. DOMAIN s = 1..m /\ \A i \in 1..m : s[i] = g[ids[i]] /\ s[i] \in Int
  BY <1>1
<1>3. \A i, j \in 1..m : ids[i] = ids[j] => i = j
  BY <1>1 DEF IsInjective
<1> HIDE DEF m, s
<1>4. Len(s) = m
  BY <1>1, <1>2, LenOfFunction
<1>5. S[0] = 1 /\ \A j \in 1..m : S[j] = (S[j - 1] * s[j]) % n
  BY <1>1, <1>2, <1>4, ProductsStep
<1>6. Product(s) = S[m]
  BY <1>4 DEF Product
<1> HIDE DEF S
<1>7. \A j \in 0..m : /\ DOMAIN SpreadOut(g, ids, j) = 1..(n - 1)
                      /\ \A k \in 1..(n - 1) : SpreadOut(g, ids, j)[k] \in Int
  <2>1. \A k \in 1..(n - 1) : k - 1 \in Ids
    BY OrderPositive DEF Ids
  <2> QED BY <2>1 DEF SpreadOut
<1>8. \A j \in 0..m : Len(SpreadOut(g, ids, j)) = n - 1
  BY <1>1, <1>7, LenOfFunction
<1>9. h[0] \in X
  <2> DEFINE C == SpreadOut(g, ids, 0)
             Y == {1}
             F == Products(C)
  <2>1. \A k \in 1..(n - 1) : C[k] = 1
    BY DEF SpreadOut
  <2>2. 0 \in 0..m
    BY <1>1
  <2>3. Len(C) = n - 1 /\ \A k \in 1..(n - 1) : C[k] \in Int
    BY <1>7, <1>8, <2>2
  <2>4. F[0] = 1 /\ \A k \in 1..(n - 1) : F[k] = (F[k - 1] * C[k]) % n
    <3> HIDE DEF C
    <3> QED BY <1>1, <2>3, ProductsStep
  <2> HIDE DEF C, F
  <2>5. ASSUME NEW k \in 1..(n - 1), F[k - 1] \in Y PROVE F[k] \in Y
    <3>1. F[k] = (1 * 1) % n
      BY <2>1, <2>4, <2>5
    <3>2. (1 * 1) % n = 1
      BY OrderPositive
    <3> QED BY <3>1, <3>2
  <2>6. \A k \in 0..(n - 1) : F[k] \in Y
    <3> HIDE DEF Y
    <3>1. F[0] \in Y
      BY <2>4 DEF Y
    <3> QED BY <1>1, <2>5, <3>1, LoopInvariant
  <2>7. F[n - 1] = 1
    <3>1. n - 1 \in 0..(n - 1)
      BY <1>1
    <3> QED BY <2>6, <3>1
  <2>8. Product(C) = 1
    BY <2>3, <2>7 DEF Product, F
  <2>9. good(0)
    BY <1>5, <2>8 DEF C
  <2> HIDE DEF good
  <2> QED BY <2>2, <2>9
<1>10. ASSUME NEW j \in 1..m, h[j - 1] \in X PROVE h[j] \in X
  <2> DEFINE u == SpreadOut(g, ids, j - 1)
             w == SpreadOut(g, ids, j)
             k == ids[j] + 1
  <2>1. good(j - 1) /\ j - 1 \in 0..m /\ j \in 0..m
    BY <1>1, <1>10
  <2>2. k \in 1..(n - 1) /\ k - 1 = ids[j] /\ ids[j] \in Ids
    <3>1. ids[j] \in Ids /\ k \in 1..(n - 1)
      BY <1>1
    <3> QED BY <3>1 DEF Ids
  <2>3. u[k] = 1
    <3>1. \A i \in 1..(j - 1) : ids[i] # ids[j]
      <4>1. \A i \in 1..(j - 1) : i \in 1..m /\ i # j
        BY <1>1
      <4> QED BY <1>3, <4>1
    <3> HIDE DEF k
    <3> QED BY <2>2, <3>1 DEF SpreadOut
  <2>4. w[k] = g[ids[j]]
    <3>1. j \in 1..j
      OBVIOUS
    <3> HIDE DEF k
    <3> QED BY <2>2, <3>1 DEF SpreadOut
  <2>5. ASSUME NEW i \in 1..(n - 1), i # k PROVE u[i] = w[i]
    <3>1. ids[j] # i - 1
      BY <2>2, <2>5
    <3>2. (\E l \in 1..(j - 1) : ids[l] = i - 1) <=> (\E l \in 1..j : ids[l] = i - 1)
      <4>1. \A l \in 1..j : l \in 1..(j - 1) \/ l = j
        OBVIOUS
      <4>2. \A l \in 1..(j - 1) : l \in 1..j
        OBVIOUS
      <4> QED BY <3>1, <4>1, <4>2
    <3> QED BY <3>2 DEF SpreadOut
  <2>6. /\ Len(u) = n - 1 /\ Len(w) = n - 1
        /\ \A i \in 1..(n - 1) : u[i] \in Int /\ w[i] \in Int
    BY <1>7, <1>8, <2>1
  <2> DEFINE M == n - 1
  <2>7. S[j - 1] = Product(u)
    BY <2>1
  <2> HIDE DEF u, w, k, M
  <2>8. Product(w) = (Product(u) * w[k]) % n
    <3>1. /\ M \in Nat /\ Len(u) = M /\ Len(w) = M /\ k \in 1..M
          /\ \A i \in 1..M : u[i] \in Int /\ w[i] \in Int
          /\ \A i \in 1..M : i # k => u[i] = w[i]
      BY <1>1, <2>2, <2>5, <2>6 DEF M
    <3> QED BY <2>3, <3>1, ReplacedFactor
  <2>9. S[j] = Product(w)
    BY <1>2, <1>5, <2>4, <2>7, <2>8
  <2>10. good(j)
    BY <2>9 DEF w
  <2> HIDE DEF good
  <2> QED BY <2>1, <2>10
<1>11. \A j \in 0..m : h[j] \in X
  <2> HIDE DEF h, X
  <2> QED BY <1>1, <1>9, <1>10, LoopInvariant
<1>12. good(m)
  <2>1. m \in 0..m
    BY <1>1
  <2> HIDE DEF good
  <2> QED BY <1>11, <2>1
<1> QED BY <1>6, <1>12 DEF s, m

\* So it depends on the set of the signers alone.
LEMMA ProductOfSet ==
  ASSUME NEW ids \in Seq(Ids), NEW jds \in Seq(Ids), IsInjective(ids), IsInjective(jds),
         ToSet(ids) = ToSet(jds), NEW g \in [Ids -> Int]
  PROVE  Product([i \in DOMAIN ids |-> g[ids[i]]]) = Product([i \in DOMAIN jds |-> g[jds[i]]])
<1>1. DOMAIN ids = 1..Len(ids) /\ DOMAIN jds = 1..Len(jds)
  OBVIOUS
<1>2. \A x : (\E i \in 1..Len(ids) : ids[i] = x) <=> (\E i \in 1..Len(jds) : jds[i] = x)
  <2>1. \A x : x \in ToSet(ids) <=> \E i \in 1..Len(ids) : ids[i] = x
    BY <1>1 DEF ToSet
  <2>2. \A x : x \in ToSet(jds) <=> \E i \in 1..Len(jds) : jds[i] = x
    BY <1>1 DEF ToSet
  <2> QED BY <2>1, <2>2
<1>3. SpreadOut(g, ids, Len(ids)) = SpreadOut(g, jds, Len(jds))
  BY <1>2 DEF SpreadOut
<1> QED BY <1>3, ProductSpreadOut

\* And so do the interpolating values.
LEMMA InterpolatingValueOfSet ==
  ASSUME FrostAssumption, NEW ids \in Seq(Ids), NEW jds \in Seq(Ids), IsInjective(ids),
         IsInjective(jds), ToSet(ids) = ToSet(jds), NEW my_id \in Ids
  PROVE  DeriveInterpolatingValue(ids, my_id) = DeriveInterpolatingValue(jds, my_id)
<1> DEFINE g == [id \in Ids |-> IF id = my_id THEN 1 ELSE id + 1]
           h == [id \in Ids |-> IF id = my_id THEN 1 ELSE id - my_id]
<1>1. g \in [Ids -> Int] /\ h \in [Ids -> Int]
  BY IdsAreIntegers
<1>2. \A s \in {ids, jds} : /\ [i \in DOMAIN s |-> g[s[i]]] = NumFactors(s, my_id)
                            /\ [i \in DOMAIN s |-> h[s[i]]] = DenoFactors(s, my_id)
  <2> SUFFICES ASSUME NEW s \in {ids, jds}
               PROVE  /\ [i \in DOMAIN s |-> g[s[i]]] = NumFactors(s, my_id)
                      /\ [i \in DOMAIN s |-> h[s[i]]] = DenoFactors(s, my_id)
    OBVIOUS
  <2>1. \A i \in DOMAIN s : s[i] \in Ids
    OBVIOUS
  <2> QED BY <2>1 DEF NumFactors, DenoFactors
<1> HIDE DEF g, h
<1>3. /\ Product(NumFactors(ids, my_id)) = Product(NumFactors(jds, my_id))
      /\ Product(DenoFactors(ids, my_id)) = Product(DenoFactors(jds, my_id))
  <2>1. /\ Product([i \in DOMAIN ids |-> g[ids[i]]]) = Product([i \in DOMAIN jds |-> g[jds[i]]])
        /\ Product([i \in DOMAIN ids |-> h[ids[i]]]) = Product([i \in DOMAIN jds |-> h[jds[i]]])
    BY <1>1, ProductOfSet
  <2>2. /\ [i \in DOMAIN ids |-> g[ids[i]]] = NumFactors(ids, my_id)
        /\ [i \in DOMAIN jds |-> g[jds[i]]] = NumFactors(jds, my_id)
        /\ [i \in DOMAIN ids |-> h[ids[i]]] = DenoFactors(ids, my_id)
        /\ [i \in DOMAIN jds |-> h[jds[i]]] = DenoFactors(jds, my_id)
    BY <1>2
  <2> QED BY <2>1, <2>2, Zenon
<1> QED BY <1>3 DEF DeriveInterpolatingValue, NumFactors, DenoFactors

\* The values of a session depend on its signers as a set.
LEMMA SessionOfSet ==
  ASSUME NEW ctx, NEW other, ParamsOf(ctx) = ParamsOf(other), ToSet(ctx.ids) = ToSet(other.ids),
         ctx.thresh_pk = other.thresh_pk, ctx.tweaks = other.tweaks, ctx.msg = other.msg,
         ctx.aggNonce = other.aggNonce
  PROVE  SessionValues(ctx) = SessionValues(other)
<1> DEFINE Values(params, key, S, agg, msg) ==
             LET x_Q == XOnly(key.Q)
                 R_1 == agg[1]
                 R_2 == agg[2]
                 b   == NonceCoeffHash[S, R_1, R_2, x_Q, msg]
                 R0  == Add(R_1, Mult(b, R_2))
                 R   == IF R0 = INF THEN G ELSE R0
                 e   == Challenge[XOnly(R), x_Q, msg]
             IN  IF params # "ok" THEN SessionError(params)
                 ELSE IF key.err # "ok" THEN SessionError(key.err)
                 ELSE IF Bad \in {R_1, R_2} THEN SessionError("aggnonce")
                 ELSE IF e = 0 THEN SessionError("zero challenge")
                 ELSE [err |-> "ok", Q |-> key.Q, gacc |-> key.gacc, tacc |-> key.tacc,
                       b |-> b, R |-> R, e |-> e, placeholder |-> R0 = INF]
<1>1. /\ SessionValues(ctx) = Values(ParamsOf(ctx), KeyOf(ctx), ToSet(ctx.ids), ctx.aggNonce, ctx.msg)
      /\ SessionValues(other)
           = Values(ParamsOf(other), KeyOf(other), ToSet(other.ids), other.aggNonce, other.msg)
  BY Zenon DEF SessionValues, SessionOf, ParamsOf, KeyOf, NonceCoeff
<1>2. KeyOf(ctx) = KeyOf(other)
  BY DEF KeyOf
<1> HIDE DEF Values
<1> QED BY <1>1, <1>2

\* A signer of a session has the same interpolating value however the signers of it
\* are listed.
LEMMA SameSignersSameValue ==
  ASSUME FrostAssumption, NEW ctx, IsContext(ctx), ParamsOf(ctx) = "ok",
         NEW other, IsContext(other), ParamsOf(other) = "ok",
         ToSet(ctx.ids) = ToSet(other.ids), NEW my_id \in ToSet(ctx.ids)
  PROVE  DeriveInterpolatingValue(ctx.ids, my_id) = DeriveInterpolatingValue(other.ids, my_id)
<1> DEFINE ids == ctx.ids
           jds == other.ids
<1>1. ids \in Seq(Ids) /\ jds \in Seq(Ids) /\ my_id \in Ids
  BY SignerValue
<1>2. IsInjective(ids) /\ IsInjective(jds)
  BY ParamsAre DEF IsContext, ParamsOf
<1>3. ToSet(ids) = ToSet(jds)
  OBVIOUS
<1> HIDE DEF ids, jds
<1>4. DeriveInterpolatingValue(ids, my_id) = DeriveInterpolatingValue(jds, my_id)
  BY <1>1, <1>2, <1>3, InterpolatingValueOfSet
<1> QED BY <1>4 DEF ids, jds

\* One deterministic nonce signs one thing: what is signed twice with it, under the
\* same key and tweaks, is the same partial signature, for every hash.
THEOREM DetNoncesBindSessions ==
  ASSUME FrostAssumption
  PROVE  Spec => []DetNonceBindsSession
<1>1. Inv => DetNonceBindsSession
  <2> SUFFICES ASSUME Inv, NEW d \in detSigs, NEW e \in detSigs, d.input = e.input,
                      d.plan.thresh_pk = e.plan.thresh_pk, d.plan.tweaks = e.plan.tweaks
               PROVE  d.s = e.s
    BY DEF DetNonceBindsSession
  <2>1. MadeAlone(d) /\ MadeAlone(e) /\ d.pair = e.pair
    BY DEF Inv, DetSigsMade
  <2>2. /\ d.d_ = e.d_ /\ d.my_id = e.my_id /\ ToSet(d.plan.ids) = ToSet(e.plan.ids)
        /\ d.other = e.other /\ d.plan.msg = e.plan.msg
    <3> DEFINE x == XOnly(ThreshPubkeyAndTweak(d.plan.thresh_pk, d.plan.tweaks).Q)
               y == XOnly(ThreshPubkeyAndTweak(e.plan.thresh_pk, e.plan.tweaks).Q)
    <3>1. /\ d.input = DetInput(d.d_, d.my_id, d.plan.ids, d.other, x, d.plan.msg)
          /\ e.input = DetInput(e.d_, e.my_id, e.plan.ids, e.other, y, e.plan.msg)
      BY <2>1 DEF MadeAlone
    <3> HIDE DEF x, y
    <3>2. <<d.d_, d.my_id, ToSet(d.plan.ids), d.other, x, d.plan.msg>>
            = <<e.d_, e.my_id, ToSet(e.plan.ids), e.other, y, e.plan.msg>>
      BY <3>1 DEF DetInput
    <3> QED BY <3>2
  <2> DEFINE agg == DeterministicAgg(DetNonce(d), d.other).R
             c == d.ctx
             f == e.ctx
  <2>3. c = Session(d.plan, agg, << >>) /\ f = Session(e.plan, agg, << >>)
    <3>1. DetNonce(e) = DetNonce(d)
      BY <2>1 DEF DetNonce
    <3> QED BY <2>1, <2>2, <3>1 DEF MadeAlone
  <2>4. /\ IsContext(c) /\ IsContext(f) /\ SessionValues(c).err = "ok" /\ SessionValues(f).err = "ok"
        /\ d.my_id \in ToSet(c.ids)
    <3>1. SignerError(c, d.d_, d.my_id) = "ok"
      BY <2>1 DEF MadeAlone
    <3>2. d.my_id \in ToSet(c.ids)
      <4> DEFINE my_id == d.my_id
                 d_ == d.d_
      <4>1. SignerError(c, d_, my_id) = "ok"
        BY <3>1
      <4> HIDE DEF my_id, d_, c
      <4>2. my_id \in ToSet(c.ids)
        BY <4>1 DEF SignerError
      <4> QED BY <4>2 DEF my_id
    <3> QED BY <2>1, <3>2, DetSigAccepted DEF MadeAlone
  <2>5. /\ c.ids = d.plan.ids /\ c.thresh_pk = d.plan.thresh_pk /\ c.tweaks = d.plan.tweaks
        /\ c.msg = d.plan.msg /\ c.aggNonce = agg
        /\ f.ids = e.plan.ids /\ f.thresh_pk = e.plan.thresh_pk /\ f.tweaks = e.plan.tweaks
        /\ f.msg = e.plan.msg /\ f.aggNonce = agg
    <3> HIDE DEF agg
    <3> QED BY <2>3, SessionFields
  <2>6. /\ d.s = PartialSig(SessionValues(c), c.ids, d.my_id, d.pair[1], d.pair[2], d.d_)
        /\ e.s = PartialSig(SessionValues(f), f.ids, d.my_id, d.pair[1], d.pair[2], d.d_)
    BY <2>1, <2>2, <2>5 DEF MadeAlone
  <2> HIDE DEF c, f, agg
  <2>7. ParamsOf(c) = "ok" /\ ParamsOf(f) = "ok"
    BY <2>4, SessionValuesAre
  <2>8. SessionValues(c) = SessionValues(f)
    BY <2>2, <2>5, <2>7, SessionOfSet
  <2>9. DeriveInterpolatingValue(c.ids, d.my_id) = DeriveInterpolatingValue(f.ids, d.my_id)
    BY <2>2, <2>4, <2>5, <2>7, SameSignersSameValue
  <2> QED BY <2>6, <2>8, <2>9, Zenon DEF PartialSig
<1> QED BY <1>1, FrostInvariant, PTL

\* The first of a sequence moved to its end.
Turn(s) == Tail(s) \o <<Head(s)>>

LEMMA ConcatParts ==
  ASSUME NEW S, NEW u \in Seq(S), NEW w \in Seq(S)
  PROVE  /\ u \o w \in Seq(S) /\ Len(u \o w) = Len(u) + Len(w)
         /\ \A i \in 1..(Len(u) + Len(w)) :
              (u \o w)[i] = IF i <= Len(u) THEN u[i] ELSE w[i - Len(u)]
OBVIOUS

LEMMA TurnOf ==
  ASSUME NEW S, NEW s \in Seq(S), NEW m \in Nat, Len(s) = m, m >= 1
  PROVE  /\ Turn(s) \in Seq(S) /\ Len(Turn(s)) = m /\ DOMAIN Turn(s) = 1..m
         /\ \A i \in 1..(m - 1) : Turn(s)[i] = s[i + 1]
         /\ Turn(s)[m] = s[1]
<1> DEFINE u == Tail(s)
           w == <<Head(s)>>
<1>1. s # << >> /\ u \in Seq(S) /\ Len(u) = m - 1 /\ Head(s) = s[1] /\ s[1] \in S
      /\ \A i \in 1..(m - 1) : u[i] = s[i + 1]
  OBVIOUS
<1>2. w \in Seq(S) /\ Len(w) = 1 /\ w[1] = s[1]
  BY <1>1
<1> HIDE DEF u, w
<1>3. u \o w \in Seq(S) /\ Len(u \o w) = m
      /\ \A i \in 1..m : (u \o w)[i] = IF i <= m - 1 THEN u[i] ELSE w[i - (m - 1)]
  <2>1. /\ u \o w \in Seq(S) /\ Len(u \o w) = Len(u) + Len(w)
        /\ \A i \in 1..(Len(u) + Len(w)) :
             (u \o w)[i] = IF i <= Len(u) THEN u[i] ELSE w[i - Len(u)]
    BY <1>1, <1>2, ConcatParts
  <2>2. Len(u) = m - 1 /\ Len(u) + Len(w) = m
    BY <1>1, <1>2
  <2> QED BY <2>1, <2>2
<1>4. \A i \in 1..(m - 1) : (u \o w)[i] = u[i]
  <2>1. \A i \in 1..(m - 1) : i \in 1..m /\ i <= m - 1
    OBVIOUS
  <2> QED BY <1>3, <2>1
<1>5. (u \o w)[m] = w[1]
  <2>1. m \in 1..m /\ ~(m <= m - 1) /\ m - (m - 1) = 1
    OBVIOUS
  <2> QED BY <1>3, <2>1
<1> QED BY <1>1, <1>2, <1>3, <1>4, <1>5 DEF Turn, u, w

\* It holds the same elements, once each if they were so.
LEMMA TurnSet ==
  ASSUME NEW S, NEW s \in Seq(S), Len(s) >= 1
  PROVE  ToSet(Turn(s)) = ToSet(s) /\ (IsInjective(s) => IsInjective(Turn(s)))
<1> DEFINE m == Len(s)
           t == Turn(s)
<1>1. m \in Nat /\ m >= 1 /\ DOMAIN s = 1..m
  OBVIOUS
<1>2. DOMAIN t = 1..m /\ (\A i \in 1..(m - 1) : t[i] = s[i + 1]) /\ t[m] = s[1]
  BY <1>1, TurnOf
<1> HIDE DEF m, t
<1>3. \A i \in 1..m : \E j \in 1..m : t[i] = s[j]
  <2> SUFFICES ASSUME NEW i \in 1..m PROVE \E j \in 1..m : t[i] = s[j]
    OBVIOUS
  <2>1. CASE i = m
    BY <1>1, <1>2, <2>1
  <2>2. CASE i # m
    <3>1. i \in 1..(m - 1) /\ i + 1 \in 1..m
      BY <1>1, <2>2
    <3> QED BY <1>2, <3>1
  <2> QED BY <2>1, <2>2
<1>4. \A j \in 1..m : \E i \in 1..m : t[i] = s[j]
  <2> SUFFICES ASSUME NEW j \in 1..m PROVE \E i \in 1..m : t[i] = s[j]
    OBVIOUS
  <2>1. CASE j = 1
    BY <1>1, <1>2, <2>1
  <2>2. CASE j # 1
    <3>1. j - 1 \in 1..(m - 1) /\ j - 1 \in 1..m /\ (j - 1) + 1 = j
      BY <1>1, <2>2
    <3>2. t[j - 1] = s[(j - 1) + 1]
      BY <1>2, <3>1
    <3> QED BY <3>1, <3>2
  <2> QED BY <2>1, <2>2
<1>5. ToSet(t) = ToSet(s)
  <2>1. \A x : x \in ToSet(t) <=> \E i \in 1..m : t[i] = x
    BY <1>2 DEF ToSet
  <2>2. \A x : x \in ToSet(s) <=> \E i \in 1..m : s[i] = x
    BY <1>1 DEF ToSet
  <2>3. \A x : x \in ToSet(t) <=> x \in ToSet(s)
    BY <1>3, <1>4, <2>1, <2>2
  <2> QED BY <2>3
<1>6. ASSUME IsInjective(s) PROVE IsInjective(t)
  <2>1. \A i, j \in 1..m : s[i] = s[j] => i = j
    BY <1>1, <1>6 DEF IsInjective
  <2>2. ASSUME NEW i \in 1..m, NEW j \in 1..m, t[i] = t[j] PROVE i = j
    <3>1. i \in 1..(m - 1) \/ i = m
      BY <1>1
    <3>2. j \in 1..(m - 1) \/ j = m
      BY <1>1
    <3>3. \A k \in 1..(m - 1) : t[k] = s[k + 1] /\ k + 1 \in 1..m /\ k + 1 # 1
      BY <1>1, <1>2
    <3>4. CASE i = m /\ j = m
      BY <3>4
    <3>5. CASE i = m /\ j \in 1..(m - 1)
      BY <1>1, <1>2, <2>1, <2>2, <3>3, <3>5
    <3>6. CASE i \in 1..(m - 1) /\ j = m
      BY <1>1, <1>2, <2>1, <2>2, <3>3, <3>6
    <3>7. CASE i \in 1..(m - 1) /\ j \in 1..(m - 1)
      <4>1. s[i + 1] = s[j + 1] /\ i + 1 \in 1..m /\ j + 1 \in 1..m
        BY <2>2, <3>3, <3>7
      <4>2. i + 1 = j + 1
        BY <2>1, <4>1
      <4> QED BY <3>7, <4>2
    <3> QED BY <3>1, <3>2, <3>4, <3>5, <3>6, <3>7
  <2> QED BY <1>2, <2>2 DEF IsInjective
<1> QED BY <1>5, <1>6 DEF t

\* And a sum does not change.
LEMMA TurnSum ==
  ASSUME NEW s \in Seq(Int), Len(s) >= 1
  PROVE  SumAll(Turn(s)) = SumAll(s)
<1> DEFINE m == Len(s)
           t == Turn(s)
           S == PartialSums(s)
           T == PartialSums(t)
           good(j) == (T[j] + s[1]) % n = S[j + 1]
           X == {j \in 0..(m - 1) : good(j)}
           h == [j \in 0..(m - 1) |-> j]
<1>1. m \in Nat /\ m >= 1 /\ m - 1 \in Nat /\ \A i \in 1..m : s[i] \in Int
  OBVIOUS
<1>2. /\ Len(t) = m /\ (\A i \in 1..(m - 1) : t[i] = s[i + 1]) /\ t[m] = s[1]
      /\ \A i \in 1..m : t[i] \in Int
  <2>1. t \in Seq(Int) /\ Len(t) = m /\ (\A i \in 1..(m - 1) : t[i] = s[i + 1]) /\ t[m] = s[1]
    BY <1>1, TurnOf
  <2> HIDE DEF t
  <2> QED BY <2>1
<1> HIDE DEF m, t
<1>3. /\ S[0] = 0 /\ \A i \in 1..m : S[i] = (S[i - 1] + s[i]) % n
      /\ T[0] = 0 /\ \A i \in 1..m : T[i] = (T[i - 1] + t[i]) % n
  BY <1>1, <1>2, PartialSumsStep DEF m
<1>4. \A i \in 0..m : T[i] \in Int /\ S[i] \in Int
  <2>1. S \in [0..m -> Scalar] /\ T \in [0..m -> Scalar]
    BY <1>1, <1>2, PartialSumsStep DEF m
  <2> HIDE DEF S, T
  <2> QED BY <2>1 DEF Scalar
<1>5. SumAll(s) = S[m] /\ SumAll(t) = T[m]
  BY <1>2 DEF SumAll, m
<1> HIDE DEF S, T
<1>6. h[0] \in X
  <2>1. 0 \in 0..(m - 1) /\ 1 \in 1..m /\ 0 + 1 = 1 /\ 1 - 1 = 0
    BY <1>1
  <2>2. S[1] = (S[0] + s[1]) % n
    BY <1>3, <2>1
  <2>3. good(0)
    BY <1>3, <2>1, <2>2
  <2> HIDE DEF good
  <2> QED BY <2>1, <2>3
<1>7. ASSUME NEW j \in 1..(m - 1), h[j - 1] \in X PROVE h[j] \in X
  <2>1. j - 1 \in 0..(m - 1) /\ j \in 0..(m - 1) /\ (j - 1) + 1 = j /\ (j + 1) - 1 = j
        /\ j + 1 \in 1..m /\ j \in 1..m /\ 1 \in 1..m /\ j - 1 \in 0..m
    BY <1>1
  <2>2. good(j - 1)
    BY <1>7, <2>1
  <2> DEFINE a == T[j - 1]
             x == s[1]
             y == s[j + 1]
             b == T[j]
             c == S[j]
             d == S[j + 1]
  <2>3. a \in Int /\ x \in Int /\ y \in Int
    BY <1>1, <1>4, <2>1
  <2>4. (a + x) % n = c
    BY <2>1, <2>2
  <2>5. b = (a + y) % n /\ d = (c + y) % n
    BY <1>2, <1>3, <2>1
  <2> HIDE DEF a, x, y, b, c, d
  <2>6. (b + x) % n = d
    <3> DEFINE p == a + y
               q == a + x
    <3>1. p \in Int /\ q \in Int /\ p + x = q + y
      BY <2>3
    <3>2. b = p % n /\ c = q % n
      BY <2>4, <2>5
    <3> HIDE DEF p, q
    <3>3. ((p % n) + x) % n = (p + x) % n /\ ((q % n) + y) % n = (q + y) % n
      BY <2>3, <3>1, OrderPositive, ModAdd
    <3> QED BY <2>5, <3>1, <3>2, <3>3
  <2>7. good(j)
    BY <2>6 DEF b, x, d
  <2> HIDE DEF good
  <2> QED BY <2>1, <2>7
<1>8. \A j \in 0..(m - 1) : h[j] \in X
  <2> HIDE DEF h, X
  <2> QED BY <1>1, <1>6, <1>7, LoopInvariant
<1>9. good(m - 1) /\ (m - 1) + 1 = m /\ m \in 1..m
  <2>1. m - 1 \in 0..(m - 1) /\ (m - 1) + 1 = m /\ m \in 1..m
    BY <1>1
  <2> HIDE DEF good
  <2> QED BY <1>8, <2>1
<1>10. T[m] = S[m]
  BY <1>2, <1>3, <1>9
<1> QED BY <1>5, <1>10 DEF t

\* Public shares listed with their signers in another order are shares of the same
\* threshold key.
LEMMA TurnThreshPubkey ==
  ASSUME FrostAssumption, NEW ids \in Seq(Ids), IsInjective(ids), Len(ids) >= 1,
         NEW shares \in Seq(Int), Len(shares) = Len(ids)
  PROVE  DeriveThreshPubkey(Turn(ids), Turn(shares)) = DeriveThreshPubkey(ids, shares)
<1> DEFINE m == Len(ids)
           jds == Turn(ids)
           turned == Turn(shares)
           s == [i \in DOMAIN ids |-> Mult(Coefficient(ids, ids[i], -1), shares[i])]
           t == [i \in DOMAIN jds |-> Mult(Coefficient(jds, jds[i], -1), turned[i])]
<1>1. m \in Nat /\ m >= 1 /\ DOMAIN ids = 1..m /\ (\A i \in 1..m : ids[i] \in Ids)
      /\ \A i \in 1..m : shares[i] \in Int
  OBVIOUS
<1>2. /\ jds \in Seq(Ids) /\ DOMAIN jds = 1..m
      /\ (\A i \in 1..(m - 1) : jds[i] = ids[i + 1]) /\ jds[m] = ids[1]
  BY <1>1, TurnOf
<1>3. (\A i \in 1..(m - 1) : turned[i] = shares[i + 1]) /\ turned[m] = shares[1]
  BY <1>1, TurnOf
<1>4. ToSet(jds) = ToSet(ids) /\ IsInjective(jds)
  BY TurnSet
<1>5. DOMAIN s = 1..m /\ DOMAIN t = 1..m
  BY <1>1, <1>2
<1>6. /\ \A i \in 1..m : s[i] = Mult(Coefficient(ids, ids[i], -1), shares[i])
      /\ \A i \in 1..m : t[i] = Mult(Coefficient(jds, jds[i], -1), turned[i])
  BY <1>1, <1>2
<1>7. DeriveThreshPubkey(ids, shares) = SumAll(s) /\ DeriveThreshPubkey(jds, turned) = SumAll(t)
  BY DEF DeriveThreshPubkey, DerivePubshareAt
<1> HIDE DEF m, jds, turned, s, t
<1>8. \A x \in Ids : Coefficient(jds, x, -1) = Coefficient(ids, x, -1)
                     /\ Coefficient(ids, x, -1) \in Int
  <2> SUFFICES ASSUME NEW x \in Ids
               PROVE  Coefficient(jds, x, -1) = Coefficient(ids, x, -1)
                      /\ Coefficient(ids, x, -1) \in Int
    OBVIOUS
  <2>1. DeriveInterpolatingValue(ids, x) = DeriveInterpolatingValue(jds, x)
    BY <1>2, <1>4, InterpolatingValueOfSet
  <2>2. Coefficient(ids, x, -1) = DeriveInterpolatingValue(ids, x)
    BY CoefficientsAgree
  <2>3. Coefficient(jds, x, -1) = DeriveInterpolatingValue(jds, x)
    BY <1>2, CoefficientsAgree
  <2>4. DeriveInterpolatingValue(ids, x) \in Int
    BY InterpolatingValueGood DEF Scalar
  <2> QED BY <2>1, <2>2, <2>3, <2>4
<1>9. \A i \in 1..m : s[i] \in Int
  <2> SUFFICES ASSUME NEW i \in 1..m PROVE s[i] \in Int
    OBVIOUS
  <2> DEFINE a == Coefficient(ids, ids[i], -1)
             P == shares[i]
  <2>1. a \in Int /\ P \in Int /\ s[i] = Mult(a, P)
    BY <1>1, <1>6, <1>8
  <2> HIDE DEF a, P
  <2>2. Mult(a, P) \in Point
    BY <2>1, GroupClosed
  <2> QED BY <2>1, <2>2 DEF Point
<1>10. s \in Seq(Int) /\ Len(s) = m
  <2>1. Len(s) = m
    BY <1>1, <1>5, LenOfFunction
  <2>2. s = [i \in 1..m |-> s[i]]
    BY <1>5, <1>7 DEF s
  <2>3. s \in [1..m -> Int]
    BY <1>9, <2>2
  <2> QED BY <1>1, <2>1, <2>3
<1>11. \A i \in 1..(m - 1) : t[i] = s[i + 1]
  <2> SUFFICES ASSUME NEW i \in 1..(m - 1) PROVE t[i] = s[i + 1]
    OBVIOUS
  <2>1. i \in 1..m /\ i + 1 \in 1..m
    BY <1>1
  <2>2. jds[i] = ids[i + 1] /\ turned[i] = shares[i + 1] /\ ids[i + 1] \in Ids
    BY <1>1, <1>2, <1>3, <2>1
  <2> QED BY <1>6, <1>8, <2>1, <2>2
<1>12. t[m] = s[1]
  <2>1. m \in 1..m /\ 1 \in 1..m
    BY <1>1
  <2>2. ids[1] \in Ids
    BY <1>1, <2>1
  <2> QED BY <1>2, <1>3, <1>6, <1>8, <2>1, <2>2
<1>13. t = Turn(s)
  <2> DEFINE w == Turn(s)
  <2>1. /\ w \in Seq(Int) /\ DOMAIN w = 1..m /\ (\A i \in 1..(m - 1) : w[i] = s[i + 1])
        /\ w[m] = s[1]
    BY <1>1, <1>10, TurnOf
  <2> HIDE DEF w
  <2>2. \A i \in 1..m : t[i] = w[i]
    <3>1. \A i \in 1..m : i \in 1..(m - 1) \/ i = m
      BY <1>1
    <3> QED BY <1>11, <1>12, <2>1, <3>1
  <2>3. t = [i \in 1..m |-> t[i]]
    BY <1>5 DEF t
  <2>4. w = [i \in 1..m |-> w[i]]
    BY <2>1
  <2>5. t = w
    BY <2>2, <2>3, <2>4
  <2> QED BY <2>5 DEF w
<1>14. SumAll(t) = SumAll(s)
  BY <1>1, <1>10, <1>13, TurnSum
<1> QED BY <1>7, <1>14 DEF jds, turned

\* The parameters of a session pass in either order.
LEMMA TurnParams ==
  ASSUME FrostAssumption, NEW total \in Int, NEW t \in Int, NEW ids \in Seq(Int),
         NEW shares, shares = Unknown \/ shares \in Seq(Encoding), NEW thresh_pk,
         ValidateSessionParams(total, t, ids, shares, thresh_pk) = "ok"
  PROVE  ValidateSessionParams(total, t, Turn(ids),
                               IF shares = Unknown THEN Unknown ELSE Turn(shares), thresh_pk) = "ok"
<1> DEFINE m == Len(ids)
           jds == Turn(ids)
           turned == IF shares = Unknown THEN Unknown ELSE Turn(shares)
<1>1. /\ t \in 1..total /\ ~(total > MaxParticipants) /\ m \in t..total
      /\ ~(shares # Unknown /\ Len(shares) # m)
      /\ \A i \in DOMAIN ids : ParseShare(total, ids, shares, i) = "ok"
      /\ IsInjective(ids)
      /\ shares # Unknown => /\ DeriveThreshPubkey(ids, shares) # INF
                             /\ DeriveThreshPubkey(ids, shares) = thresh_pk
  <2>1. PassesChecks(total, t, ids, shares, thresh_pk)
    BY ParamsPass, Zenon
  <2> QED BY <2>1, Zenon DEF PassesChecks
<1>2. m \in Nat /\ DOMAIN ids = 1..m
  OBVIOUS
<1>3. /\ ids \in Seq(Ids) /\ m >= 1
      /\ shares # Unknown => DOMAIN shares = 1..m /\ \A i \in 1..m : shares[i] \in Finite
  <2>1. ids \in Seq(Ids) /\ m >= 1
    BY ParamsAre
  <2>2. ASSUME shares # Unknown
        PROVE  DOMAIN shares = 1..m /\ \A i \in 1..m : shares[i] \in Finite
    <3>1. shares \in Seq(Encoding) /\ Len(shares) = m
      BY <1>1, <2>2
    <3>2. DOMAIN shares = 1..m /\ \A i \in 1..m : shares[i] \in Encoding
      BY <3>1
    <3>3. ASSUME NEW i \in 1..m PROVE shares[i] # Bad
      <4>1. ParseShare(total, ids, shares, i) = "ok"
        BY <1>1, <1>2
      <4> QED BY <2>2, <4>1 DEF ParseShare
    <3> QED BY <3>2, <3>3 DEF Encoding
  <2> QED BY <2>1, <2>2
<1>4. /\ jds \in Seq(Int) /\ Len(jds) = m /\ DOMAIN jds = 1..m
      /\ (\A i \in 1..(m - 1) : jds[i] = ids[i + 1]) /\ jds[m] = ids[1]
  BY <1>2, <1>3, TurnOf
<1>5. IsInjective(jds)
  BY <1>1, <1>3, TurnSet
<1>6. ASSUME shares # Unknown
      PROVE  /\ shares \in Seq(Encoding) /\ Len(shares) = m
             /\ Len(turned) = m /\ \A i \in 1..(m - 1) : turned[i] = shares[i + 1]
             /\ turned[m] = shares[1]
  <2>1. shares \in Seq(Encoding) /\ Len(shares) = m /\ turned = Turn(shares)
    BY <1>1, <1>6
  <2> HIDE DEF turned, m
  <2> QED BY <1>2, <1>3, <2>1, TurnOf
<1>7. ASSUME shares # Unknown
      PROVE  DeriveThreshPubkey(jds, turned) = DeriveThreshPubkey(ids, shares)
  <2>1. shares \in Seq(Int)
    <3>1. \A i \in 1..m : shares[i] \in Int
      BY <1>2, <1>3, <1>7 DEF Finite, Point
    <3>2. shares = [i \in 1..m |-> shares[i]]
      <4>1. shares \in Seq(Encoding) /\ DOMAIN shares = 1..m
        BY <1>2, <1>3, <1>6, <1>7
      <4> QED BY <4>1
    <3> HIDE DEF m
    <3>3. shares \in [1..m -> Int]
      BY <3>1, <3>2
    <3> QED BY <1>2, <3>3
  <2>2. turned = Turn(shares)
    BY <1>7
  <2> HIDE DEF turned
  <2> QED BY <1>1, <1>3, <1>6, <1>7, <2>1, <2>2, TurnThreshPubkey
<1>8. shares = Unknown => turned = Unknown
  OBVIOUS
<1> HIDE DEF jds, turned, m
<1>9. \A i \in 1..m : \E j \in 1..m :
        jds[i] = ids[j] /\ (shares # Unknown => turned[i] = shares[j])
  <2> SUFFICES ASSUME NEW i \in 1..m
               PROVE  \E j \in 1..m :
                        jds[i] = ids[j] /\ (shares # Unknown => turned[i] = shares[j])
    OBVIOUS
  <2>1. CASE i = m
    <3>1. 1 \in 1..m
      BY <1>2, <1>3
    <3> QED BY <1>4, <1>6, <2>1, <3>1
  <2>2. CASE i # m
    <3>1. i \in 1..(m - 1) /\ i + 1 \in 1..m
      BY <1>2, <2>2
    <3> QED BY <1>4, <1>6, <3>1
  <2> QED BY <2>1, <2>2
<1>10. \A i \in DOMAIN jds : ParseShare(total, jds, turned, i) = "ok"
  <2> SUFFICES ASSUME NEW i \in 1..m PROVE ParseShare(total, jds, turned, i) = "ok"
    BY <1>4
  <2>1. PICK j \in 1..m : jds[i] = ids[j] /\ (shares # Unknown => turned[i] = shares[j])
    BY <1>9
  <2>2. ParseShare(total, ids, shares, j) = "ok"
    BY <1>1, <1>2
  <2>3. ids[j] \in 0..(total - 1) /\ ~(shares # Unknown /\ shares[j] = Bad)
    BY <2>2 DEF ParseShare
  <2>4. ~(turned # Unknown /\ turned[i] = Bad)
    BY <1>8, <2>1, <2>3
  <2>5. jds[i] \in 0..(total - 1)
    BY <2>1, <2>3
  <2> QED BY <2>4, <2>5 DEF ParseShare
<1>11. /\ t \in 1..total /\ ~(total > MaxParticipants) /\ Len(jds) \in t..total
       /\ ~(turned # Unknown /\ Len(turned) # Len(jds))
       /\ turned # Unknown => /\ DeriveThreshPubkey(jds, turned) # INF
                              /\ DeriveThreshPubkey(jds, turned) = thresh_pk
  <2>1. turned # Unknown => shares # Unknown
    BY <1>8
  <2>2. turned # Unknown => Len(turned) = Len(jds)
    BY <1>4, <1>6, <2>1
  <2>3. turned # Unknown => /\ DeriveThreshPubkey(jds, turned) # INF
                            /\ DeriveThreshPubkey(jds, turned) = thresh_pk
    BY <1>1, <1>7, <2>1, Zenon
  <2>4. t \in 1..total /\ ~(total > MaxParticipants) /\ Len(jds) \in t..total
    BY <1>1, <1>4
  <2> QED BY <2>2, <2>3, <2>4
<1>12. PassesChecks(total, t, jds, turned, thresh_pk)
  BY <1>5, <1>10, <1>11, Zenon DEF PassesChecks
<1>13. ValidateSessionParams(total, t, jds, turned, thresh_pk) = "ok"
  BY <1>4, <1>12, ParamsPass
<1> QED BY <1>13 DEF jds, turned

\* A session with its signers and their public shares listed in another order.
TurnedShares(ctx) == IF ctx.pub_shares = Unknown THEN Unknown ELSE Turn(ctx.pub_shares)

LEMMA TurnedFields ==
  ASSUME NEW ctx \in SessionSet, NEW ids, NEW shares
  PROVE  LET turned == [ctx EXCEPT !.ids = ids, !.pub_shares = shares] IN
         /\ turned.ids = ids /\ turned.pub_shares = shares
         /\ turned.total = ctx.total /\ turned.t = ctx.t /\ turned.thresh_pk = ctx.thresh_pk
         /\ turned.tweaks = ctx.tweaks /\ turned.msg = ctx.msg /\ turned.aggNonce = ctx.aggNonce
<1>1. PICK p \in Plans, a \in ExtEncoding \X ExtEncoding, sl \in Seq(Slot) :
             ctx = Session(p, a, sl)
  BY DEF SessionSet
<1> QED BY <1>1 DEF Session

\* Listing the first signer of a session last changes neither its values nor what any
\* signer signs, for every group, every set of signers and every hash: the checks of
\* the parameters pass as they did, whose sum over the public shares is what turns.
\* What passes the checks has the same values in any order at all, by SessionOfSet
\* and SameSignersSameValue.
THEOREM SignersInAnyOrder ==
  ASSUME FrostAssumption
  PROVE  Spec => []OrderFree
<1>1. Inv => OrderFree
  <2> SUFFICES ASSUME Inv, NEW i \in DOMAIN sessions, SessionValues(sessions[i]).err = "ok"
               PROVE  LET ctx == sessions[i]
                          turned == [ctx EXCEPT !.ids = Turn(ctx.ids), !.pub_shares = TurnedShares(ctx)]
                      IN  /\ SessionValues(turned) = SessionValues(ctx)
                          /\ \A id \in ToSet(ctx.ids) :
                               DeriveInterpolatingValue(turned.ids, id)
                                 = DeriveInterpolatingValue(ctx.ids, id)
    BY DEF OrderFree, Turn, TurnedShares
  <2> DEFINE ctx == sessions[i]
             turned == [ctx EXCEPT !.ids = Turn(ctx.ids), !.pub_shares = TurnedShares(ctx)]
             ids == ctx.ids
             shares == ctx.pub_shares
             total == ctx.total
             t == ctx.t
             thresh_pk == ctx.thresh_pk
  <2>1. ctx \in SessionSet /\ IsContext(ctx) /\ SessionValues(ctx).err = "ok"
    BY SessionOfState DEF Inv
  <2> HIDE DEF ctx
  <2>2. /\ turned.ids = Turn(ids) /\ turned.pub_shares = TurnedShares(ctx)
        /\ turned.total = total /\ turned.t = t /\ turned.thresh_pk = thresh_pk
        /\ turned.tweaks = ctx.tweaks /\ turned.msg = ctx.msg /\ turned.aggNonce = ctx.aggNonce
    BY <2>1, TurnedFields
  <2>3. ParamsOf(ctx) = "ok"
    BY <2>1, SessionValuesAre
  <2>4. TurnedShares(ctx) = IF shares = Unknown THEN Unknown ELSE Turn(shares)
    BY DEF TurnedShares
  <2>5. /\ total \in Int /\ t \in Int /\ ids \in Seq(Int)
        /\ shares = Unknown \/ shares \in Seq(Encoding)
        /\ ValidateSessionParams(total, t, ids, shares, thresh_pk) = "ok"
    BY <2>1, <2>3 DEF IsContext, ParamsOf
  <2> HIDE DEF turned, ids, shares, total, t, thresh_pk
  <2>6. ids \in Seq(Ids) /\ IsInjective(ids) /\ Len(ids) >= 1
    BY <2>5, ParamsAre
  <2>7. ParamsOf(turned) = "ok"
    <3>1. ValidateSessionParams(total, t, Turn(ids),
                                IF shares = Unknown THEN Unknown ELSE Turn(shares), thresh_pk) = "ok"
      BY <2>5, TurnParams
    <3> QED BY <2>2, <2>4, <3>1 DEF ParamsOf
  <2>8. ToSet(Turn(ids)) = ToSet(ids) /\ IsInjective(Turn(ids)) /\ Turn(ids) \in Seq(Ids)
    <3>1. Turn(ids) \in Seq(Ids)
      <4>1. Len(ids) \in Nat
        BY <2>6
      <4> QED BY <2>6, <4>1, TurnOf
    <3> QED BY <2>6, <3>1, TurnSet
  <2>9. SessionValues(turned) = SessionValues(ctx)
    BY <2>2, <2>3, <2>7, <2>8, SessionOfSet DEF ids, thresh_pk
  <2>10. \A id \in ToSet(ids) :
           DeriveInterpolatingValue(Turn(ids), id) = DeriveInterpolatingValue(ids, id)
    <3> SUFFICES ASSUME NEW id \in ToSet(ids)
                 PROVE  DeriveInterpolatingValue(Turn(ids), id) = DeriveInterpolatingValue(ids, id)
      OBVIOUS
    <3>1. id \in Ids
      BY <2>6 DEF ToSet
    <3> QED BY <2>6, <2>8, <3>1, InterpolatingValueOfSet
  <2>11. /\ SessionValues(turned) = SessionValues(ctx)
         /\ \A id \in ToSet(ctx.ids) :
              DeriveInterpolatingValue(turned.ids, id) = DeriveInterpolatingValue(ctx.ids, id)
    BY <2>2, <2>9, <2>10 DEF ids
  <2> QED BY <2>11 DEF turned, ctx
<1> QED BY <1>1, FrostInvariant, PTL

=============================================================================
