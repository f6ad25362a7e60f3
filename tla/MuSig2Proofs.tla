---------------------------- MODULE MuSig2Proofs ----------------------------
(***************************************************************************)
(* Theorems about MuSig2 for every group order, every set of keys, plans   *)
(* and nonces, and every value of the three hashes: the types, one answer  *)
(* for each nonce, what an honest signer answers is accepted, accepted     *)
(* shares aggregate to a signature, adaptors complete, who can be blamed,  *)
(* and the refinement of OneTimeNonce.                                     *)
(***************************************************************************)
EXTENDS MuSig2

-----------------------------------------------------------------------------
(***************************************************************************)
(* What the functions of the module return.                                *)
(***************************************************************************)
KeyResult == [err : Outcomes, who : Nat, Q : Point, gacc : Scalar, tacc : Scalar]
GoodKeys  == {k \in KeyResult : k.err = "ok" => k.Q \in Finite}

\* The index an error blames is one of the sequence, and the octets there do
\* not parse.
LEMMA FirstBadIsBad ==
  ASSUME NEW s, NEW m \in Nat, DOMAIN s = 1..m, ~AllParse(s)
  PROVE  FirstBad(s) \in 1..m /\ s[FirstBad(s)] = Bad
<1> DEFINE T == {i \in 1..m : s[i] = Bad}
<1>1. T \in SUBSET Nat /\ T # {}
  BY DEF AllParse
<1>2. PICK i \in T : \A j \in T : ~ (j < i)
  BY <1>1, LeastElement
<1>3. i \in DOMAIN s /\ s[i] = Bad /\ \A j \in 1..(i - 1) : s[j] # Bad
  BY <1>2
<1> QED BY <1>3 DEF FirstBad

\* The coefficient of a key of the list is a scalar.
LEMMA KeyAggCoeffScalar ==
  ASSUME NEW pks \in KeyLists, NEW pk \in Finite
  PROVE  KeyAggCoeff(pks, pk) \in Scalar
<1>1. KeyCoeffHash[pks, pk] \in Scalar
  BY MuSig2Assumption
<1>2. 1 \in Scalar
  BY OrderPositive DEF Scalar
<1> QED BY <1>1, <1>2 DEF KeyAggCoeff

LEMMA ErrorGood ==
  ASSUME NEW err \in Outcomes \ {"ok"}, NEW who \in Nat
  PROVE  KeyAggError(err, who) \in GoodKeys
<1>1. 1 \in Scalar /\ 0 \in Scalar /\ 0 \in Point
  BY OrderPositive DEF Scalar, Point
<1> QED BY <1>1 DEF KeyAggError, GoodKeys, KeyResult, INF

LEMMA KeysGood ==
  ASSUME NEW Q \in Finite, NEW gacc \in Scalar, NEW tacc \in Scalar
  PROVE  [err |-> "ok", who |-> 0, Q |-> Q, gacc |-> gacc, tacc |-> tacc] \in GoodKeys
<1>1. "ok" \in Outcomes
  BY DEF Outcomes
<1>2. Q \in Point
  BY DEF Finite
<1> QED BY <1>1, <1>2 DEF GoodKeys, KeyResult

LEMMA KeyAggGood ==
  ASSUME NEW pks \in KeyLists
  PROVE  KeyAgg(pks) \in GoodKeys
<1>1. pks \in Seq(Encoding)
  BY MuSig2Assumption DEF KeyLists
<1> DEFINE m == Len(pks)
           terms == [i \in DOMAIN pks |-> Mult(KeyAggCoeff(pks, pks[i]), pks[i])]
<1>2. m \in Nat /\ DOMAIN pks = 1..m /\ DOMAIN terms = 1..m
  BY <1>1
<1>3. 1 \in Scalar /\ 0 \in Scalar /\ 0 \in Point /\ Scalar = Point
  BY OrderPositive DEF Scalar, Point
<1>4. CASE AllParse(pks)
  <2>1. \A i \in 1..m : pks[i] \in Finite
    BY <1>1, <1>2, <1>4 DEF AllParse, Encoding
  <2>2. \A i \in 1..m : terms[i] \in Int
    <3> SUFFICES ASSUME NEW i \in 1..m PROVE terms[i] \in Int
      OBVIOUS
    <3>1. pks[i] \in Int /\ KeyAggCoeff(pks, pks[i]) \in Int
      BY <2>1, KeyAggCoeffScalar DEF Scalar, Finite, Point
    <3>2. Mult(KeyAggCoeff(pks, pks[i]), pks[i]) \in Point
      BY <3>1, GroupClosed
    <3> QED BY <1>2, <3>2 DEF Point
  <2>3. SumAll(terms) \in Scalar
    <3> HIDE DEF terms, m
    <3>1. Len(terms) = m
      BY <1>2, LenOfFunction
    <3> QED BY <1>2, <2>2, <3>1, SumScalar
  <2> HIDE DEF terms
  <2>4. KeyAgg(pks) = IF SumAll(terms) = INF THEN KeyAggError("infinite key", 0)
                      ELSE [err |-> "ok", who |-> 0, Q |-> SumAll(terms), gacc |-> 1, tacc |-> 0]
    BY <1>4 DEF KeyAgg, terms
  <2>5. CASE SumAll(terms) = INF
    BY <2>4, <2>5, ErrorGood DEF Outcomes
  <2>6. CASE SumAll(terms) # INF
    <3>1. SumAll(terms) \in Finite
      BY <1>3, <2>3, <2>6 DEF Finite
    <3> QED BY <1>3, <2>4, <2>6, <3>1, KeysGood
  <2> QED BY <2>5, <2>6
<1>5. CASE ~AllParse(pks)
  <2>1. KeyAgg(pks) = KeyAggError("pubkey", FirstBad(pks))
    BY <1>5 DEF KeyAgg
  <2>2. FirstBad(pks) \in Nat
    BY <1>2, <1>5, FirstBadIsBad
  <2> QED BY <2>1, <2>2, ErrorGood DEF Outcomes
<1> QED BY <1>4, <1>5

LEMMA ApplyTweakGood ==
  ASSUME NEW k \in GoodKeys, k.err = "ok", NEW tweak \in Tweak
  PROVE  ApplyTweak(k, tweak) \in GoodKeys
<1>1. k.Q \in Finite /\ k.Q \in Int /\ k.gacc \in Int /\ k.tacc \in Int /\ tweak.t \in Int
  BY DEF GoodKeys, KeyResult, Finite, Point, Scalar, Tweak
<1>2. 1 \in Scalar /\ 0 \in Scalar /\ 0 \in Point /\ n \in Int /\ 1 \in Int
  BY OrderPositive DEF Scalar, Point
<1> DEFINE flip == tweak.is_xonly /\ HasOddY(k.Q)
           g == IF flip THEN n - 1 ELSE 1
           P == IF flip THEN Negate(k.Q) ELSE k.Q
           Q == Add(P, Mult(tweak.t, G))
<1>3. P \in Int /\ g \in Int
  <2>1. Negate(k.Q) \in Point
    BY <1>1, GroupClosed
  <2> QED BY <1>1, <1>2, <2>1 DEF Point
<1>4. Mult(tweak.t, G) \in Int
  <2>1. Mult(tweak.t, 1) \in Point
    BY <1>1, <1>2, GroupClosed
  <2> QED BY <2>1 DEF Point, G
<1> HIDE DEF P, g, flip
<1>5. Q \in Point
  BY <1>3, <1>4, GroupClosed
<1>6. \A x \in Int : x % n \in Scalar
  BY OrderPositive, ModRange DEF Scalar
<1>7. g * k.gacc \in Int /\ tweak.t + g * k.tacc \in Int
  BY <1>1, <1>3
<1> HIDE DEF Q
<1>8. ApplyTweak(k, tweak)
        = IF tweak.t >= n THEN KeyAggError("tweak range", 0)
          ELSE IF Q = INF THEN KeyAggError("infinite key", 0)
          ELSE [err |-> "ok", who |-> 0, Q |-> Q,
                gacc |-> (g * k.gacc) % n, tacc |-> (tweak.t + g * k.tacc) % n]
  BY DEF ApplyTweak, Q, P, g, flip
<1>9. (g * k.gacc) % n \in Scalar /\ (tweak.t + g * k.tacc) % n \in Scalar
  BY <1>6, <1>7
<1>10. CASE tweak.t >= n \/ Q = INF
  BY <1>8, <1>10, ErrorGood DEF Outcomes
<1>11. CASE ~ (tweak.t >= n) /\ Q # INF
  <2>1. Q \in Finite
    BY <1>5, <1>11 DEF Finite
  <2> QED BY <1>8, <1>9, <1>11, <2>1, KeysGood
<1> QED BY <1>10, <1>11

\* The loop over the tweaks: each key is made of the one before it, the first
\* error stays to the end.
LEMMA TweakedKeysStep ==
  ASSUME NEW pks \in KeyLists, NEW tweaks \in Seq(Tweak)
  PROVE  LET h == TweakedKeys(pks, tweaks) IN
         /\ h[0] = KeyAgg(pks)
         /\ \A i \in 1..Len(tweaks) :
              h[i] = IF h[i - 1].err # "ok" THEN h[i - 1] ELSE ApplyTweak(h[i - 1], tweaks[i])
         /\ \A i \in 0..Len(tweaks) : h[i] \in GoodKeys
<1> DEFINE m == Len(tweaks)
           step(k, i) == IF k.err # "ok" THEN k ELSE ApplyTweak(k, tweaks[i])
           F == [p \in GoodKeys \X (1..m) |-> step(p[1], p[2])]
           x0 == KeyAgg(pks)
<1>1. m \in Nat /\ \A i \in 1..m : tweaks[i] \in Tweak
  OBVIOUS
<1>2. \A k \in GoodKeys, i \in 1..m : step(k, i) \in GoodKeys
  BY <1>1, ApplyTweakGood
<1>3. x0 \in GoodKeys
  BY KeyAggGood
<1> HIDE DEF step, m, x0
<1>4. F \in [GoodKeys \X (1..m) -> GoodKeys] /\ \A k \in GoodKeys, i \in 1..m : F[<<k, i>>] = step(k, i)
  BY <1>2
<1> HIDE DEF F
<1>5. PICK g : Iterates(g, GoodKeys, x0, F, m)
  BY <1>1, <1>3, <1>4, BoundedRecursionExists
<1>6. g = [i \in 0..m |-> IF i = 0 THEN x0 ELSE step(g[i - 1], i)]
  <2>1. g \in [0..m -> GoodKeys] /\ g[0] = x0 /\ \A i \in 1..m : g[i] = F[<<g[i - 1], i>>]
    BY <1>5 DEF Iterates
  <2>2. \A i \in 1..m : g[i - 1] \in GoodKeys
    BY <1>1, <2>1
  <2>3. \A i \in 1..m : g[i] = step(g[i - 1], i)
    BY <1>4, <2>1, <2>2, Zenon
  <2>4. g = [i \in 0..m |-> g[i]]
    BY <2>1
  <2>5. \A i \in 0..m : i = 0 \/ i \in 1..m
    BY <1>1
  <2>6. \A i \in 0..m : g[i] = IF i = 0 THEN x0 ELSE step(g[i - 1], i)
    BY <2>1, <2>3, <2>5, Zenon
  <2> QED BY <2>4, <2>6, Zenon
<1>7. TweakedKeys(pks, tweaks)
        = CHOOSE h : h = [i \in 0..m |-> IF i = 0 THEN x0 ELSE step(h[i - 1], i)]
  BY DEF TweakedKeys, m, x0, step
<1> DEFINE h == TweakedKeys(pks, tweaks)
<1>8. h = [i \in 0..m |-> IF i = 0 THEN x0 ELSE step(h[i - 1], i)]
  BY <1>6, <1>7
<1> HIDE DEF h
<1>9. \A i \in 0..m : h[i] = IF i = 0 THEN x0 ELSE step(h[i - 1], i)
  BY <1>8, Zenon
<1>10. 0 \in 0..m /\ m \in 0..m /\ \A i \in 1..m : i \in 0..m /\ i # 0
  BY <1>1
<1>11. h[0] \in GoodKeys /\ \A i \in 1..m : h[i - 1] \in GoodKeys => h[i] \in GoodKeys
  BY <1>2, <1>3, <1>9, <1>10, Zenon
<1>12. \A i \in 0..m : h[i] \in GoodKeys
  BY <1>1, <1>11, LoopInvariant
<1>13. h[0] = x0 /\ \A i \in 1..m : h[i] = step(h[i - 1], i)
  BY <1>9, <1>10, Zenon
<1> QED BY <1>12, <1>13 DEF h, m, x0, step

LEMMA KeyAggAndTweakGood ==
  ASSUME NEW pks \in KeyLists, NEW tweaks \in Seq(Tweak)
  PROVE  KeyAggAndTweak(pks, tweaks) \in GoodKeys
<1>1. Len(tweaks) \in 0..Len(tweaks)
  OBVIOUS
<1> QED BY <1>1, TweakedKeysStep DEF KeyAggAndTweak

\* What the functions of a session rely on of its context.
IsContext(ctx) ==
  /\ ctx.pks \in KeyLists
  /\ ctx.tweaks \in Seq(Tweak)
  /\ ctx.msg \in Msg
  /\ ctx.adaptor \in Encoding \cup {NoAdaptor}
  /\ ctx.aggNonce \in ExtEncoding \X ExtEncoding

IsValues(v) ==
  /\ v.Q \in Finite /\ v.gacc \in Scalar /\ v.tacc \in Scalar
  /\ v.b \in Scalar /\ v.R \in Finite /\ v.e \in Scalar

\* session_values raises one of the errors of the module or returns a finite
\* key and nonce and reduced scalars.
LEMMA SessionValuesGood ==
  ASSUME NEW ctx, IsContext(ctx)
  PROVE  /\ SessionValues(ctx).err \in Outcomes
         /\ SessionValues(ctx).err = "ok" => IsValues(SessionValues(ctx))
<1> DEFINE key == KeyAggAndTweak(ctx.pks, ctx.tweaks)
           x_Q == XOnly(key.Q)
           R_1 == IF ctx.adaptor = NoAdaptor THEN ctx.aggNonce[1]
                  ELSE Add(ctx.aggNonce[1], ctx.adaptor)
           R_2 == ctx.aggNonce[2]
           b   == NonceCoeffHash[R_1, R_2, x_Q, ctx.msg]
           R0  == Add(R_1, Mult(b, R_2))
           R   == IF R0 = INF THEN G ELSE R0
           e   == Challenge[XOnly(R), x_Q, ctx.msg]
           values == [err |-> "ok", who |-> 0, Q |-> key.Q, gacc |-> key.gacc,
                      tacc |-> key.tacc, b |-> b, R |-> R, e |-> e,
                      placeholder |-> R0 = INF]
<1>1. key \in GoodKeys
  BY KeyAggAndTweakGood DEF IsContext
<1>2. SessionValues(ctx)
        = IF key.err # "ok" THEN SessionError(key.err, key.who)
          ELSE IF Bad \in {ctx.aggNonce[1], ctx.aggNonce[2]} THEN SessionError("aggnonce", 0)
          ELSE IF ctx.adaptor = Bad THEN SessionError("adaptor", 0)
          ELSE IF e = 0 THEN SessionError("zero challenge", 0)
          ELSE values
  BY DEF SessionValues, SessionOf
<1> HIDE DEF key
<1>3. key.err \in Outcomes
  BY <1>1 DEF GoodKeys, KeyResult
<1>4. CASE key.err # "ok"
  <2> HIDE DEF values, e
  <2> QED BY <1>2, <1>3, <1>4 DEF SessionError
<1>5. CASE key.err = "ok" /\ Bad \in {ctx.aggNonce[1], ctx.aggNonce[2]}
  <2> HIDE DEF values, e
  <2> QED BY <1>2, <1>5 DEF SessionError, Outcomes
<1>6. CASE key.err = "ok" /\ Bad \notin {ctx.aggNonce[1], ctx.aggNonce[2]} /\ ctx.adaptor = Bad
  <2> HIDE DEF values, e
  <2> QED BY <1>2, <1>6 DEF SessionError, Outcomes
<1>7. CASE key.err = "ok" /\ Bad \notin {ctx.aggNonce[1], ctx.aggNonce[2]} /\ ctx.adaptor # Bad
  <2>1. key.Q \in Finite /\ key.gacc \in Scalar /\ key.tacc \in Scalar
    BY <1>1, <1>7 DEF GoodKeys, KeyResult
  <2>2. x_Q \in Finite
    BY <2>1, XOnlyFinite
  <2>3. ctx.aggNonce[1] \in Point /\ ctx.aggNonce[2] \in Point
    BY <1>7 DEF IsContext, ExtEncoding
  <2>4. R_1 \in Point
    <3>1. CASE ctx.adaptor = NoAdaptor
      BY <2>3, <3>1
    <3>2. CASE ctx.adaptor # NoAdaptor
      <4>1. ctx.adaptor \in Int /\ ctx.aggNonce[1] \in Int
        BY <1>7, <2>3, <3>2 DEF IsContext, Encoding, Finite, Point
      <4> QED BY <3>2, <4>1, GroupClosed
    <3> QED BY <3>1, <3>2
  <2> HIDE DEF x_Q, R_1
  <2>5. b \in Scalar
    BY <2>2, <2>3, <2>4, MuSig2Assumption DEF IsContext
  <2> HIDE DEF b
  <2>6. R0 \in Point
    <3>1. R_1 \in Int /\ b \in Int /\ R_2 \in Int
      BY <2>3, <2>4, <2>5 DEF Point, Scalar
    <3> HIDE DEF R_2
    <3>2. Mult(b, R_2) \in Int
      BY <3>1, GroupClosed DEF Point
    <3> QED BY <3>1, <3>2, GroupClosed
  <2> HIDE DEF R0
  <2>7. R \in Finite
    <3>1. G \in Finite
      BY OrderPositive DEF Finite, Point, G, INF
    <3> QED BY <2>6, <3>1 DEF Finite
  <2> HIDE DEF R
  <2>8. e \in Scalar
    <3>1. XOnly(R) \in Finite
      BY <2>7, XOnlyFinite
    <3>2. XOnly(R) \in Scalar /\ x_Q \in Scalar
      BY <2>2, <3>1 DEF Finite, Point, Scalar
    <3> QED BY <3>2, GroupAssumption DEF IsContext
  <2> HIDE DEF e
  <2>9. IsValues(values) /\ values.err = "ok"
    BY <2>1, <2>5, <2>7, <2>8 DEF IsValues
  <2> HIDE DEF values
  <2>10. SessionValues(ctx) = IF e = 0 THEN SessionError("zero challenge", 0) ELSE values
    BY <1>2, <1>7
  <2>11. CASE e = 0
    <3>1. SessionValues(ctx) = SessionError("zero challenge", 0)
      BY <2>10, <2>11, Zenon
    <3>2. SessionError("zero challenge", 0).err = "zero challenge"
      BY DEF SessionError
    <3> QED BY <3>1, <3>2 DEF Outcomes
  <2>12. CASE e # 0
    BY <2>9, <2>10, <2>12 DEF Outcomes
  <2> QED BY <2>11, <2>12
<1> QED BY <1>4, <1>5, <1>6, <1>7

\* nonce_agg blames a nonce or returns two points.
LEMMA NonceAggGood ==
  ASSUME NEW pubNonces, NEW m \in Nat, DOMAIN pubNonces = 1..m,
         \A i \in 1..m : pubNonces[i] \in ExtEncoding \X ExtEncoding
  PROVE  /\ NonceAgg(pubNonces).err \in {"ok", "pubnonce"}
         /\ NonceAgg(pubNonces).err = "ok" => NonceAgg(pubNonces).R \in Point \X Point
<1> DEFINE half(j) == [i \in DOMAIN pubNonces |-> pubNonces[i][j]]
           error(who) == [err |-> "pubnonce", who |-> who, R |-> <<INF, INF>>]
<1>1. NonceAgg(pubNonces)
        = IF ~AllParse(half(1)) THEN error(FirstBad(half(1)))
          ELSE IF ~AllParse(half(2)) THEN error(FirstBad(half(2)))
          ELSE [err |-> "ok", who |-> 0, R |-> <<SumAll(half(1)), SumAll(half(2))>>]
  BY DEF NonceAgg
<1>2. ASSUME NEW j \in {1, 2}, AllParse(half(j))
      PROVE  SumAll(half(j)) \in Point
  <2>1. \A i \in 1..m : half(j)[i] \in Int
    BY <1>2 DEF AllParse, ExtEncoding, Point
  <2>2. DOMAIN half(j) = 1..m
    OBVIOUS
  <2> DEFINE s == half(j)
  <2> HIDE DEF s
  <2>3. Len(s) = m
    BY <2>2, LenOfFunction DEF s
  <2>4. SumAll(s) \in Scalar
    BY <2>1, <2>3, SumScalar DEF s
  <2> QED BY <2>4 DEF s, Scalar, Point
<1> HIDE DEF half
<1>3. 1 \in {1, 2} /\ 2 \in {1, 2}
  OBVIOUS
<1>4. CASE AllParse(half(1)) /\ AllParse(half(2))
  <2>1. SumAll(half(1)) \in Point /\ SumAll(half(2)) \in Point
    BY <1>2, <1>3, <1>4
  <2> QED BY <1>1, <1>4, <2>1
<1> QED BY <1>1, <1>4

\* A partial signature is a scalar.
LEMMA PartialSigScalar ==
  ASSUME NEW v, IsValues(v), NEW coeff \in Scalar,
         NEW k_1 \in Int, NEW k_2 \in Int, NEW d_ \in Int
  PROVE  PartialSig(v, coeff, k_1, k_2, d_) \in Scalar
<1>1. n \in Int /\ \A x \in Int : x % n \in Scalar
  BY OrderPositive, ModRange DEF Scalar
<1>2. v.b \in Int /\ v.e \in Int /\ v.gacc \in Int /\ coeff \in Int
  BY DEF IsValues, Scalar
<1> DEFINE flip(k) == IF HasOddY(v.R) THEN n - k ELSE k
           d == (SignOf(v) * v.gacc * d_) % n
           x == flip(k_1) + v.b * flip(k_2) + v.e * coeff * d
<1>3. flip(k_1) \in Int /\ flip(k_2) \in Int
  BY <1>1
<1>4. SignOf(v) \in Int
  BY <1>1 DEF SignOf
<1>5. d \in Int
  <2>1. SignOf(v) * v.gacc * d_ \in Int
    BY <1>2, <1>4
  <2> QED BY <1>1, <2>1 DEF Scalar
<1> HIDE DEF flip, d
<1>6. x \in Int
  BY <1>2, <1>3, <1>5
<1>7. PartialSig(v, coeff, k_1, k_2, d_) = x % n
  BY DEF PartialSig, flip, d
<1> QED BY <1>1, <1>6, <1>7

-----------------------------------------------------------------------------
(***************************************************************************)
(* Type correctness.                                                       *)
(***************************************************************************)
SessionSet == [pks : KeyLists, tweaks : Seq(Tweak), msg : Msg,
               adaptor : Encoding \cup {NoAdaptor},
               aggNonce : ExtEncoding \X ExtEncoding, slots : Seq(Slot)]

LEMMA InitTypeOK == Init => TypeOK
<1> SUFFICES ASSUME Init PROVE TypeOK
  OBVIOUS
<1>1. 0 \in Scalar /\ 0 \in Point /\ INF = 0
  BY OrderPositive DEF Scalar, Point, INF
<1>2. secNonce \in [Slot -> [k_1 : Scalar, k_2 : Scalar, pk : Point]]
  BY <1>1 DEF Init, NoBuffer
<1>3. pubNonce \in [Slot -> ExtEncoding \X ExtEncoding]
  BY <1>1 DEF Init, NoPubNonce, ExtEncoding
<1> QED BY <1>2, <1>3 DEF Init, TypeOK, Outcomes

LEMMA PlanFields ==
  ASSUME NEW plan \in Plans
  PROVE  /\ plan.pks \in KeyLists /\ plan.tweaks \in Seq(Tweak) /\ plan.msg \in Msg
         /\ plan.adaptor \in Encoding \cup {NoAdaptor}
         /\ plan.pks \in Seq(Encoding)
BY MuSig2Assumption DEF KeyLists

LEMMA SessionTyped ==
  ASSUME NEW plan \in Plans, NEW agg \in ExtEncoding \X ExtEncoding, NEW slots \in Seq(Slot)
  PROVE  Session(plan, agg, slots) \in SessionSet
BY PlanFields DEF Session, SessionSet

LEMMA SessionIsContext ==
  ASSUME NEW ctx \in SessionSet
  PROVE  IsContext(ctx)
BY DEF SessionSet, IsContext

LEMMA NonceGenTyped ==
  ASSUME TypeOK, NEW slot \in Slot, NEW pair \in NoncePairs, NEW pk \in PrvKeys,
         NonceGen(slot, pair, pk)
  PROVE  /\ TypeOK'
         /\ pair[1] \in Finite /\ pair[2] \in Finite /\ pk \in Finite
         /\ Mult(pair[1], G) = pair[1] /\ Mult(pair[2], G) = pair[2]
<1>1. pair \in Finite \X Finite /\ pk \in Finite
  BY MuSig2Assumption
<1>2. \A k \in Finite : Mult(k, G) = k
  <2>1. \A k \in 0..(n - 1) : k % n = k
    BY OrderPositive
  <2> QED BY <2>1, OrderPositive DEF Mult, G, Finite, Point, INF
<1>3. \A k \in Finite : k \in Scalar /\ k \in Point /\ k \in ExtEncoding
  BY DEF Finite, Scalar, Point, ExtEncoding
<1>4. pair[1] \in Finite /\ pair[2] \in Finite
  BY <1>1
<1>5. secNonce' \in [Slot -> [k_1 : Scalar, k_2 : Scalar, pk : Point]]
  BY <1>1, <1>3, <1>4 DEF TypeOK, NonceGen
<1>6. pubNonce' \in [Slot -> ExtEncoding \X ExtEncoding]
  BY <1>2, <1>3, <1>4 DEF TypeOK, NonceGen
<1>7. TypeOK'
  BY <1>5, <1>6 DEF TypeOK, NonceGen, Outcomes
<1> QED BY <1>1, <1>2, <1>4, <1>7

LEMMA ReceivePubNonceTyped ==
  ASSUME TypeOK, NEW slot \in Slot, NEW nonce \in ForeignPubNonce, ReceivePubNonce(slot, nonce)
  PROVE  TypeOK'
<1>1. nonce \in Encoding \X Encoding
  BY MuSig2Assumption
<1>2. nonce \in ExtEncoding \X ExtEncoding
  BY <1>1 DEF Encoding, ExtEncoding, Finite
<1> QED BY <1>2 DEF TypeOK, ReceivePubNonce, Outcomes

\* Opening a session appends a typed context and keeps the ones before it.
LEMMA AppendTyped ==
  ASSUME TypeOK, NEW ctx \in SessionSet, sessions' = Append(sessions, ctx)
  PROVE  /\ sessions' \in Seq(SessionSet)
         /\ DOMAIN sessions \subseteq DOMAIN sessions'
         /\ \A i \in DOMAIN sessions : sessions'[i] = sessions[i]
<1>1. sessions \in Seq(SessionSet)
  BY DEF TypeOK, SessionSet
<1> QED BY <1>1

LEMMA OpenSessionTyped ==
  ASSUME TypeOK, NEW plan \in Plans, NEW slots \in [DOMAIN plan.pks -> Slot],
         OpenSession(plan, slots)
  PROVE  /\ TypeOK'
         /\ \A i \in DOMAIN sessions : i \in DOMAIN sessions' /\ sessions'[i] = sessions[i]
<1> DEFINE m == Len(plan.pks)
           pubs == [i \in DOMAIN slots |-> pubNonce[slots[i]]]
           agg == NonceAgg(pubs)
<1>1. m \in Nat /\ DOMAIN slots = 1..m /\ slots \in Seq(Slot)
  BY PlanFields
<1>2. DOMAIN pubs = 1..m /\ \A i \in 1..m : pubs[i] \in ExtEncoding \X ExtEncoding
  BY <1>1 DEF TypeOK
<1> HIDE DEF pubs, m
<1>3. agg.err \in {"ok", "pubnonce"} /\ (agg.err = "ok" => agg.R \in Point \X Point)
  BY <1>1, <1>2, NonceAggGood
<1>4. /\ sessions' = IF agg.err = "ok" THEN Append(sessions, Session(plan, agg.R, slots))
                     ELSE sessions
      /\ outcome' = agg.err
      /\ UNCHANGED <<secNonce, pubNonce, psigs, detSigs>>
  BY DEF OpenSession, pubs
<1> HIDE DEF agg
<1>5. CASE agg.err = "ok"
  <2>1. Session(plan, agg.R, slots) \in SessionSet
    <3>1. agg.R \in ExtEncoding \X ExtEncoding
      BY <1>3, <1>5 DEF ExtEncoding
    <3> QED BY <1>1, <3>1, SessionTyped
  <2>2. sessions' = Append(sessions, Session(plan, agg.R, slots))
    BY <1>4, <1>5
  <2> QED BY <1>3, <1>4, <2>1, <2>2, AppendTyped DEF TypeOK, SessionSet, Outcomes
<1>6. CASE agg.err # "ok"
  BY <1>3, <1>4, <1>6 DEF TypeOK, Outcomes
<1> QED BY <1>5, <1>6

LEMMA OpenForeignSessionTyped ==
  ASSUME TypeOK, NEW plan \in Plans, NEW nonce \in ForeignNonce,
         OpenForeignSession(plan, nonce)
  PROVE  /\ TypeOK'
         /\ \A i \in DOMAIN sessions : i \in DOMAIN sessions' /\ sessions'[i] = sessions[i]
<1>1. nonce \in ExtEncoding \X ExtEncoding
  BY MuSig2Assumption
<1>2. Session(plan, nonce, << >>) \in SessionSet
  <2>1. << >> \in Seq(Slot)
    OBVIOUS
  <2> QED BY <1>1, <2>1, SessionTyped
<1>3. sessions' = Append(sessions, Session(plan, nonce, << >>))
  BY DEF OpenForeignSession
<1> QED BY <1>2, <1>3, AppendTyped DEF OpenForeignSession, TypeOK, SessionSet, Outcomes

LEMMA SignerKeyFinite ==
  ASSUME NEW ctx, ctx.pks \in KeyLists, NEW pk \in Point, IsSigner(ctx, pk)
  PROVE  pk \in Finite
<1>1. ctx.pks \in Seq(Encoding)
  BY MuSig2Assumption DEF KeyLists
<1>2. pk \in Encoding /\ pk \in Int
  BY <1>1 DEF IsSigner, Point
<1>3. pk # Bad
  BY <1>2, MuSig2Assumption
<1> QED BY <1>2, <1>3 DEF Encoding

SignedBy(slot, d_, i) ==
  [slot |-> slot, session |-> i,
   s |-> PartialSig(SessionValues(sessions[i]), KeyAggCoeff(sessions[i].pks, d_),
                    secNonce[slot].k_1, secNonce[slot].k_2, d_)]
Consumed(slot) == [secNonce EXCEPT ![slot].k_1 = 0, ![slot].k_2 = 0]

\* The three ways a call of sign ends: it refuses the session, it consumes the
\* nonce and raises, it consumes the nonce and signs.
Refuses(slot, d_, i) ==
  /\ SessionValues(sessions[i]).err # "ok"
  /\ outcome' = SessionValues(sessions[i]).err
  /\ UNCHANGED <<secNonce, psigs>>
Raises(slot, d_, i) ==
  /\ SessionValues(sessions[i]).err = "ok"
  /\ outcome' \in {"nonce range", "private key", "other key", "not a signer"}
  /\ outcome' = "nonce range" <=> ~IsFresh(slot)
  /\ secNonce' = Consumed(slot)
  /\ psigs' = psigs
Signs(slot, d_, i) ==
  /\ SessionValues(sessions[i]).err = "ok" /\ IsValues(SessionValues(sessions[i]))
  /\ outcome' = "ok"
  /\ IsFresh(slot) /\ d_ = secNonce[slot].pk /\ d_ \in Finite
  /\ IsSigner(sessions[i], d_)
  /\ secNonce' = Consumed(slot)
  /\ psigs' = psigs \cup {SignedBy(slot, d_, i)}
  /\ SignedBy(slot, d_, i).s \in Scalar

LEMMA SignCases ==
  ASSUME TypeOK, NEW slot \in Slot, NEW d_ \in PrvKeys \cup {0}, NEW i \in DOMAIN sessions,
         Sign(slot, d_, i)
  PROVE  /\ HasBuffer(slot)
         /\ pubNonce' = pubNonce /\ sessions' = sessions /\ detSigs' = detSigs
         /\ outcome' \in Outcomes
         /\ Refuses(slot, d_, i) \/ Raises(slot, d_, i) \/ Signs(slot, d_, i)
<1> DEFINE v == SessionValues(sessions[i])
           nonce == secNonce[slot]
           new == SignedBy(slot, d_, i)
<1>1. sessions[i] \in SessionSet
  <2>1. sessions \in Seq(SessionSet)
    BY DEF TypeOK, SessionSet
  <2> QED BY <2>1
<1>2. v.err \in Outcomes /\ (v.err = "ok" => IsValues(v))
  <2> DEFINE ctx == sessions[i]
  <2>1. IsContext(ctx)
    BY <1>1, SessionIsContext
  <2> HIDE DEF ctx
  <2>2. SessionValues(ctx).err \in Outcomes
        /\ (SessionValues(ctx).err = "ok" => IsValues(SessionValues(ctx)))
    BY <2>1, SessionValuesGood
  <2> QED BY <2>2 DEF ctx
<1>3. nonce.k_1 \in Scalar /\ nonce.k_2 \in Scalar /\ nonce.pk \in Point
  BY DEF TypeOK
<1>4. /\ HasBuffer(slot)
      /\ IF v.err # "ok"
         THEN /\ outcome' = v.err
              /\ UNCHANGED <<secNonce, psigs>>
         ELSE /\ secNonce' = Consumed(slot)
              /\ outcome' = IF ~IsFresh(slot) THEN "nonce range"
                            ELSE IF d_ \notin 1..(n - 1) THEN "private key"
                            ELSE IF d_ # nonce.pk THEN "other key"
                            ELSE IF ~IsSigner(sessions[i], nonce.pk) THEN "not a signer"
                            ELSE "ok"
              /\ psigs' = IF outcome' # "ok" THEN psigs ELSE psigs \cup {new}
      /\ pubNonce' = pubNonce /\ sessions' = sessions /\ detSigs' = detSigs
  BY DEF Sign, Consumed, SignedBy
<1>5. ASSUME IsFresh(slot), d_ = nonce.pk, IsSigner(sessions[i], nonce.pk), v.err = "ok"
      PROVE  d_ \in Finite /\ new.s \in Scalar
  <2>1. sessions[i].pks \in KeyLists
    BY <1>1 DEF SessionSet
  <2>2. d_ \in Finite
    BY <1>3, <1>5, <2>1, SignerKeyFinite
  <2>3. KeyAggCoeff(sessions[i].pks, d_) \in Scalar
    BY <2>1, <2>2, KeyAggCoeffScalar
  <2>4. nonce.k_1 \in Int /\ nonce.k_2 \in Int /\ d_ \in Int
    BY <1>3, <1>5 DEF Scalar, Point
  <2> HIDE DEF v, nonce
  <2>5. PartialSig(v, KeyAggCoeff(sessions[i].pks, d_), nonce.k_1, nonce.k_2, d_) \in Scalar
    BY <1>2, <1>5, <2>3, <2>4, PartialSigScalar
  <2> QED BY <2>2, <2>5 DEF SignedBy, v, nonce
<1> HIDE DEF v, new, nonce
<1>6. CASE v.err # "ok"
  BY <1>2, <1>4, <1>6 DEF v, Refuses
<1>7. CASE v.err = "ok" /\ outcome' # "ok"
  <2>1. /\ outcome' \in {"nonce range", "private key", "other key", "not a signer"}
        /\ outcome' = "nonce range" <=> ~IsFresh(slot)
    BY <1>4, <1>7
  <2>2. Raises(slot, d_, i)
    BY <1>4, <1>7, <2>1 DEF v, Raises
  <2> QED BY <1>4, <2>1, <2>2 DEF Outcomes
<1>8. CASE v.err = "ok" /\ outcome' = "ok"
  <2>1. IsFresh(slot) /\ d_ = nonce.pk /\ IsSigner(sessions[i], nonce.pk)
    BY <1>4, <1>8
  <2>2. d_ \in Finite /\ new.s \in Scalar
    BY <1>5, <1>8, <2>1
  <2>3. Signs(slot, d_, i)
    BY <1>2, <1>4, <1>8, <2>1, <2>2 DEF v, new, nonce, Signs
  <2> QED BY <1>2, <1>4, <1>8, <2>3
<1> QED BY <1>6, <1>7, <1>8

LEMMA SignTyped ==
  ASSUME TypeOK, NEW slot \in Slot, NEW d_ \in PrvKeys \cup {0}, NEW i \in DOMAIN sessions,
         Sign(slot, d_, i)
  PROVE  TypeOK'
<1>1. i \in Nat /\ 0 \in Scalar
  BY OrderPositive DEF TypeOK, Scalar
<1>2. Consumed(slot) \in [Slot -> [k_1 : Scalar, k_2 : Scalar, pk : Point]]
  BY <1>1 DEF TypeOK, Consumed
<1>3. /\ pubNonce' = pubNonce /\ sessions' = sessions /\ detSigs' = detSigs
      /\ outcome' \in Outcomes
  BY SignCases
<1>4. CASE Refuses(slot, d_, i)
  BY <1>3, <1>4 DEF TypeOK, Refuses
<1>5. CASE Raises(slot, d_, i)
  BY <1>2, <1>3, <1>5 DEF TypeOK, Raises
<1>6. CASE Signs(slot, d_, i)
  <2>1. SignedBy(slot, d_, i) \in [slot : Slot, session : Nat, s : Scalar]
        /\ SignedBy(slot, d_, i).session = i
    BY <1>1, <1>6 DEF Signs, SignedBy
  <2>2. psigs' = psigs \cup {SignedBy(slot, d_, i)} /\ secNonce' = Consumed(slot)
    BY <1>6 DEF Signs
  <2> QED BY <1>2, <1>3, <2>1, <2>2 DEF TypeOK
<1> QED BY <1>4, <1>5, <1>6, SignCases

LEMMA DeterministicSignTyped ==
  ASSUME TypeOK, NEW d_ \in PrvKeys, NEW pair \in NoncePairs, NEW plan \in Plans,
         NEW other \in ForeignNonce, DeterministicSign(d_, pair, plan, other)
  PROVE  TypeOK'
<1> DEFINE key == KeyAggAndTweak(plan.pks, plan.tweaks)
           mine == <<Mult(pair[1], G), Mult(pair[2], G)>>
           det == DeterministicSession(plan.pks, plan.tweaks, plan.msg, other, mine)
           v == SessionValues(det.ctx)
           s == PartialSig(v, KeyAggCoeff(plan.pks, d_), pair[1], pair[2], d_)
           new == [pk |-> d_, pubNonce |-> mine, other |-> other, ctx |-> det.ctx, s |-> s]
<1>1. d_ \in Finite /\ pair[1] \in Finite /\ pair[2] \in Finite
      /\ other \in ExtEncoding \X ExtEncoding
  BY MuSig2Assumption
<1>2. \A k \in Finite : k \in Int /\ k \in Scalar /\ k \in Point
  BY DEF Finite, Point, Scalar
<1>3. Mult(pair[1], G) \in Point /\ Mult(pair[2], G) \in Point
  BY <1>1, <1>2, GroupClosed DEF G
<1> DEFINE parsed == <<IF other[1] = INF THEN Bad ELSE other[1],
                       IF other[2] = INF THEN Bad ELSE other[2]>>
           pubs == <<mine, parsed>>
           agg == NonceAgg(pubs)
<1>4. agg.err \in {"ok", "pubnonce"} /\ (agg.err = "ok" => agg.R \in Point \X Point)
  <2>1. mine \in ExtEncoding \X ExtEncoding
    BY <1>3 DEF ExtEncoding
  <2>2. parsed \in ExtEncoding \X ExtEncoding
    BY <1>1 DEF ExtEncoding
  <2> HIDE DEF mine, parsed
  <2>3. DOMAIN pubs = 1..2 /\ \A i \in 1..2 : pubs[i] \in ExtEncoding \X ExtEncoding
    BY <2>1, <2>2
  <2> HIDE DEF pubs
  <2> QED BY <2>3, NonceAggGood
<1> HIDE DEF agg
<1>5. det = [err |-> IF agg.err = "ok" THEN "ok" ELSE "aggothernonce",
             ctx |-> [pks |-> plan.pks, tweaks |-> plan.tweaks, msg |-> plan.msg,
                      adaptor |-> NoAdaptor, aggNonce |-> agg.R]]
  BY DEF DeterministicSession, agg
<1> HIDE DEF det, mine
<1>6. det.err = "ok" => IsContext(det.ctx)
  <2> SUFFICES ASSUME det.err = "ok" PROVE IsContext(det.ctx)
    OBVIOUS
  <2>1. agg.R \in ExtEncoding \X ExtEncoding
    BY <1>4, <1>5 DEF ExtEncoding
  <2> QED BY <1>5, <2>1, PlanFields DEF IsContext
<1>7. det.err \in {"ok", "aggothernonce"}
  BY <1>5
<1>8. key.err \in Outcomes
  BY PlanFields, KeyAggAndTweakGood DEF GoodKeys, KeyResult
<1>9. det.err = "ok" => v.err \in Outcomes /\ (v.err = "ok" => IsValues(v))
  BY <1>6, SessionValuesGood
<1>10. /\ outcome' = IF key.err # "ok" THEN key.err
                     ELSE IF det.err # "ok" THEN det.err
                     ELSE IF v.err # "ok" THEN v.err
                     ELSE IF ~IsSigner(plan, d_) THEN "not a signer"
                     ELSE "ok"
       /\ detSigs' = IF outcome' # "ok" THEN detSigs ELSE detSigs \cup {new}
       /\ UNCHANGED <<secNonce, pubNonce, sessions, psigs>>
  BY DEF DeterministicSign, det, mine
<1>11. ASSUME det.err = "ok", v.err = "ok" PROVE s \in Scalar
  <2>1. KeyAggCoeff(plan.pks, d_) \in Scalar
    BY <1>1, PlanFields, KeyAggCoeffScalar
  <2> HIDE DEF v
  <2> QED BY <1>1, <1>2, <1>9, <1>11, <2>1, PartialSigScalar
<1> HIDE DEF key, v, s
<1>12. outcome' \in Outcomes
  BY <1>7, <1>8, <1>9, <1>10 DEF Outcomes
<1>13. \A d \in detSigs' : d.s \in Scalar /\ d.pk \in Finite
  <2>1. CASE outcome' # "ok"
    BY <1>10, <2>1 DEF TypeOK
  <2>2. CASE outcome' = "ok"
    <3>1. det.err = "ok" /\ v.err = "ok" /\ detSigs' = detSigs \cup {new}
      BY <1>10, <2>2
    <3>2. new.s \in Scalar /\ new.pk \in Finite
      BY <1>1, <1>11, <3>1
    <3> QED BY <3>1, <3>2 DEF TypeOK
  <2> QED BY <2>1, <2>2
<1> QED BY <1>10, <1>12, <1>13 DEF TypeOK

LEMMA NextTyped == TypeOK /\ [Next]_vars => TypeOK'
<1> SUFFICES ASSUME TypeOK, [Next]_vars PROVE TypeOK'
  OBVIOUS
<1>1. CASE \E slot \in Slot, pair \in NoncePairs, pk \in PrvKeys : NonceGen(slot, pair, pk)
  BY <1>1, NonceGenTyped
<1>2. CASE \E slot \in Slot, nonce \in ForeignPubNonce : ReceivePubNonce(slot, nonce)
  BY <1>2, ReceivePubNonceTyped
<1>3. CASE \E plan \in Plans : \E slots \in [DOMAIN plan.pks -> Slot] : OpenSession(plan, slots)
  BY <1>3, OpenSessionTyped
<1>4. CASE \E plan \in Plans, nonce \in ForeignNonce : OpenForeignSession(plan, nonce)
  BY <1>4, OpenForeignSessionTyped
<1>5. CASE \E slot \in Slot, d_ \in PrvKeys \cup {0}, i \in DOMAIN sessions : Sign(slot, d_, i)
  BY <1>5, SignTyped
<1>6. CASE \E d_ \in PrvKeys, pair \in NoncePairs, plan \in Plans, other \in ForeignNonce :
             DeterministicSign(d_, pair, plan, other)
  BY <1>6, DeterministicSignTyped
<1>7. CASE UNCHANGED vars
  BY <1>7 DEF vars, TypeOK
<1> QED BY <1>1, <1>2, <1>3, <1>4, <1>5, <1>6, <1>7 DEF Next

\* Every variable keeps its type, whatever the order of the group, the keys, the
\* plans and the hashes: every scalar the module returns is reduced modulo n.
THEOREM TypeCorrect == Spec => []TypeOK
<1>1. Init => TypeOK
  BY InitTypeOK
<1>2. TypeOK /\ [Next]_vars => TypeOK'
  BY NextTyped
<1> QED BY <1>1, <1>2, PTL DEF Spec

-----------------------------------------------------------------------------
(***************************************************************************)
(* One signature for each nonce.                                           *)
(***************************************************************************)
\* deterministic_sign touches no nonce, session or partial signature of the
\* other calls.
LEMMA DeterministicSignFrame ==
  ASSUME NEW d_, NEW pair, NEW plan, NEW other, DeterministicSign(d_, pair, plan, other)
  PROVE  UNCHANGED <<secNonce, pubNonce, sessions, psigs>>
BY Zenon DEF DeterministicSign

LEMMA InitMatch == Init => BuffersMatch /\ NonceSignsOnce
BY DEF Init, BuffersMatch, NonceSignsOnce, HasBuffer, IsFresh, NoBuffer, NoPubNonce, INF

LEMMA NonceGenMatches ==
  ASSUME TypeOK, BuffersMatch, NonceSignsOnce,
         NEW slot \in Slot, NEW pair \in NoncePairs, NEW pk \in PrvKeys,
         NonceGen(slot, pair, pk)
  PROVE  BuffersMatch' /\ NonceSignsOnce'
<1>1. /\ pair[1] \in Finite /\ pair[2] \in Finite /\ pk \in Finite
      /\ Mult(pair[1], G) = pair[1] /\ Mult(pair[2], G) = pair[2]
  BY NonceGenTyped
<1>2. ~HasBuffer(slot)
  BY OrderPositive DEF BuffersMatch, NonceGen, Published, NoPubNonce, Finite, INF
<1>3. /\ secNonce' = [secNonce EXCEPT ![slot] = [k_1 |-> pair[1], k_2 |-> pair[2], pk |-> pk]]
      /\ pubNonce' = [pubNonce EXCEPT ![slot] = <<pair[1], pair[2]>>]
      /\ psigs' = psigs
  BY <1>1 DEF NonceGen
<1>4. /\ secNonce'[slot] = [k_1 |-> pair[1], k_2 |-> pair[2], pk |-> pk]
      /\ pubNonce'[slot] = <<pair[1], pair[2]>>
      /\ \A t \in Slot \ {slot} : secNonce'[t] = secNonce[t] /\ pubNonce'[t] = pubNonce[t]
  BY <1>3 DEF TypeOK
<1>5. \A t \in Slot :
        /\ HasBuffer(t)' => pubNonce'[t] \in Finite \X Finite
        /\ IsFresh(t)' => /\ HasBuffer(t)'
                          /\ pubNonce'[t] = <<secNonce'[t].k_1, secNonce'[t].k_2>>
  <2> SUFFICES ASSUME NEW t \in Slot
               PROVE  /\ HasBuffer(t)' => pubNonce'[t] \in Finite \X Finite
                      /\ IsFresh(t)' => /\ HasBuffer(t)'
                                        /\ pubNonce'[t] = <<secNonce'[t].k_1, secNonce'[t].k_2>>
    OBVIOUS
  <2>1. CASE t = slot
    <3>1. pk # INF
      BY <1>1 DEF Finite
    <3> QED BY <1>1, <1>4, <2>1, <3>1 DEF HasBuffer, IsFresh
  <2>2. CASE t # slot
    BY <1>4, <2>2 DEF BuffersMatch, HasBuffer, IsFresh
  <2> QED BY <2>1, <2>2
<1>6. \A p \in psigs' : HasBuffer(p.slot)' /\ ~IsFresh(p.slot)'
  <2> SUFFICES ASSUME NEW p \in psigs PROVE HasBuffer(p.slot)' /\ ~IsFresh(p.slot)'
    BY <1>3
  <2>1. p.slot \in Slot /\ p.slot # slot
    BY <1>2 DEF TypeOK, BuffersMatch
  <2> QED BY <1>4, <2>1 DEF BuffersMatch, HasBuffer, IsFresh
<1> QED BY <1>3, <1>5, <1>6 DEF BuffersMatch, NonceSignsOnce

LEMMA SignMatches ==
  ASSUME TypeOK, BuffersMatch, NonceSignsOnce,
         NEW slot \in Slot, NEW d_ \in PrvKeys \cup {0}, NEW i \in DOMAIN sessions,
         Sign(slot, d_, i)
  PROVE  BuffersMatch' /\ NonceSignsOnce'
<1>1. HasBuffer(slot) /\ pubNonce' = pubNonce
  BY SignCases
<1>2. CASE Refuses(slot, d_, i)
  BY <1>1, <1>2 DEF Refuses, BuffersMatch, NonceSignsOnce, HasBuffer, IsFresh
<1>3. CASE secNonce' = Consumed(slot)
  <2>1. /\ ~IsFresh(slot)' /\ HasBuffer(slot)'
        /\ \A t \in Slot \ {slot} : secNonce'[t] = secNonce[t]
    BY <1>1, <1>3 DEF Consumed, TypeOK, IsFresh, HasBuffer
  <2>2. \A t \in Slot :
          /\ HasBuffer(t)' => pubNonce'[t] \in Finite \X Finite
          /\ IsFresh(t)' => /\ HasBuffer(t)'
                            /\ pubNonce'[t] = <<secNonce'[t].k_1, secNonce'[t].k_2>>
          /\ HasBuffer(t) => HasBuffer(t)'
          /\ ~IsFresh(t) => ~IsFresh(t)'
    BY <1>1, <2>1 DEF BuffersMatch, HasBuffer, IsFresh
  <2>3. CASE psigs' = psigs
    BY <2>2, <2>3 DEF BuffersMatch, NonceSignsOnce, TypeOK
  <2>4. CASE Signs(slot, d_, i)
    <3>1. psigs' = psigs \cup {SignedBy(slot, d_, i)} /\ SignedBy(slot, d_, i).slot = slot
          /\ IsFresh(slot)
      BY <2>4 DEF Signs, SignedBy
    <3>2. \A p \in psigs : p.slot \in Slot /\ p.slot # slot
      BY <3>1 DEF BuffersMatch, TypeOK
    <3> QED BY <2>1, <2>2, <3>1, <3>2 DEF BuffersMatch, NonceSignsOnce
  <2> QED BY <1>1, <2>3, <2>4, SignCases DEF Refuses, Raises
<1> QED BY <1>2, <1>3, SignCases DEF Raises, Signs

LEMMA NextMatches ==
  TypeOK /\ BuffersMatch /\ NonceSignsOnce /\ [Next]_vars => BuffersMatch' /\ NonceSignsOnce'
<1> SUFFICES ASSUME TypeOK, BuffersMatch, NonceSignsOnce, [Next]_vars
             PROVE  BuffersMatch' /\ NonceSignsOnce'
  OBVIOUS
<1>1. CASE \E slot \in Slot, pair \in NoncePairs, pk \in PrvKeys : NonceGen(slot, pair, pk)
  BY <1>1, NonceGenMatches
<1>2. CASE \E slot \in Slot, nonce \in ForeignPubNonce : ReceivePubNonce(slot, nonce)
  <2>1. PICK slot \in Slot, nonce \in ForeignPubNonce : ReceivePubNonce(slot, nonce)
    BY <1>2
  <2>2. ~HasBuffer(slot)
    BY <2>1, OrderPositive DEF BuffersMatch, ReceivePubNonce, Published, NoPubNonce, Finite, INF
  <2>3. secNonce' = secNonce /\ psigs' = psigs
        /\ \A t \in Slot \ {slot} : pubNonce'[t] = pubNonce[t]
    BY <2>1 DEF ReceivePubNonce, TypeOK
  <2> QED BY <2>2, <2>3 DEF BuffersMatch, NonceSignsOnce, HasBuffer, IsFresh
<1>3. CASE \E slot \in Slot, d_ \in PrvKeys \cup {0}, i \in DOMAIN sessions : Sign(slot, d_, i)
  BY <1>3, SignMatches
<1>4. CASE UNCHANGED <<secNonce, pubNonce, psigs>>
  BY <1>4 DEF BuffersMatch, NonceSignsOnce, HasBuffer, IsFresh
<1>5. CASE \E plan \in Plans : \E slots \in [DOMAIN plan.pks -> Slot] : OpenSession(plan, slots)
  BY <1>4, <1>5 DEF OpenSession
<1>6. CASE \E plan \in Plans, nonce \in ForeignNonce : OpenForeignSession(plan, nonce)
  BY <1>4, <1>6 DEF OpenForeignSession
<1>7. CASE \E d_ \in PrvKeys, pair \in NoncePairs, plan \in Plans, other \in ForeignNonce :
             DeterministicSign(d_, pair, plan, other)
  <2>1. PICK d_ \in PrvKeys, pair \in NoncePairs, plan \in Plans, other \in ForeignNonce :
               DeterministicSign(d_, pair, plan, other)
    BY <1>7, Zenon
  <2>2. UNCHANGED <<secNonce, pubNonce, sessions, psigs>>
    BY <2>1, DeterministicSignFrame, Zenon
  <2> QED BY <1>4, <2>2
<1>8. CASE UNCHANGED vars
  BY <1>4, <1>8 DEF vars
<1> QED BY <1>1, <1>2, <1>3, <1>5, <1>6, <1>7, <1>8 DEF Next

\* While its scalars are in the buffer a secret nonce is the published one, and
\* sign leaves none of it behind: the inductive invariant of the module.
THEOREM BuffersAlwaysMatch == Spec => []BuffersMatch
<1>1. Init => BuffersMatch /\ NonceSignsOnce
  BY InitMatch
<1>2. TypeOK /\ BuffersMatch /\ NonceSignsOnce /\ [Next]_vars
        => BuffersMatch' /\ NonceSignsOnce'
  BY NextMatches
<1> QED BY <1>1, <1>2, TypeCorrect, PTL DEF Spec

\* No two partial signatures are ever made with one secret nonce, whichever
\* sessions and keys the callers of sign pass, in whichever order.
THEOREM NonceNeverReused == Spec => []NonceSignsOnce
<1>1. Init => BuffersMatch /\ NonceSignsOnce
  BY InitMatch
<1>2. TypeOK /\ BuffersMatch /\ NonceSignsOnce /\ [Next]_vars
        => BuffersMatch' /\ NonceSignsOnce'
  BY NextMatches
<1> QED BY <1>1, <1>2, TypeCorrect, PTL DEF Spec

-----------------------------------------------------------------------------
(***************************************************************************)
(* What sign returns, the verifier accepts.                                *)
(***************************************************************************)

LEMMA PartialSigAccepted ==
  ASSUME NEW ctx, IsContext(ctx), SessionValues(ctx).err = "ok",
         NEW k_1 \in Finite, NEW k_2 \in Finite, NEW d_ \in Finite, IsSigner(ctx, d_)
  PROVE  PartialSigVerify_(PartialSig(SessionValues(ctx), KeyAggCoeff(ctx.pks, d_), k_1, k_2, d_),
                           <<k_1, k_2>>, d_, ctx) = "true"
<1> DEFINE v == SessionValues(ctx)
           a == KeyAggCoeff(ctx.pks, d_)
           S == SignOf(v)
           flip(k) == IF HasOddY(v.R) THEN n - k ELSE k
           nonce == flip(k_1) + v.b * flip(k_2)
           share == v.e * a * ((S * v.gacc * d_) % n)
           Rs == FlipIfOdd(v.R, Add(k_1, Mult(v.b, k_2)))
           M == Mult((v.e * a * ((S * v.gacc) % n)) % n, d_)
           s == (nonce + share) % n
<1>1. IsValues(v)
  BY SessionValuesGood
<1> HIDE DEF v
<1>2. v.b \in Int /\ v.e \in Int /\ v.gacc \in Int /\ S \in Int /\ n \in Nat \ {0}
  BY <1>1, OrderPositive DEF IsValues, Scalar, SignOf
<1>3. k_1 \in Int /\ k_2 \in Int /\ d_ \in Int
      /\ k_1 # Bad /\ k_2 # Bad /\ d_ # Bad
  BY MuSig2Assumption DEF Finite, Point
<1>4. a \in Int
  BY KeyAggCoeffScalar DEF IsContext, Scalar
<1>5. Rs \in Int /\ Cong(n, nonce, Rs)
  <2>1. ASSUME NEW k \in Int PROVE flip(k) \in Int /\ Cong(n, flip(k), SignY(v.R) * k)
    <3>1. n - k \in Int /\ Cong(n, n - k, -k) /\ (-1) * k = -k /\ 1 * k = k
      BY CongNegate
    <3> QED BY <3>1, CongSelf DEF SignY
  <2> DEFINE x_1 == flip(k_1)
             x_2 == flip(k_2)
             b == v.b
             R == v.R
  <2>2. /\ b \in Int /\ x_1 \in Int /\ x_2 \in Int
        /\ Cong(n, x_1, SignY(R) * k_1) /\ Cong(n, x_2, SignY(R) * k_2)
    BY <1>2, <1>3, <2>1
  <2> HIDE DEF x_1, x_2, b, R
  <2>3. /\ FlipIfOdd(R, Add(k_1, Mult(b, k_2))) \in Int
        /\ Cong(n, x_1 + b * x_2, FlipIfOdd(R, Add(k_1, Mult(b, k_2))))
    BY <1>3, <2>2, NonceShare
  <2> QED BY <2>3 DEF x_1, x_2, b, R
<1>6. M \in Int /\ Cong(n, share, M)
  <2> DEFINE e == v.e
             g == v.gacc
  <2>1. e \in Int /\ g \in Int
    BY <1>2
  <2> HIDE DEF e, g, S, a
  <2>2. LET MM == Mult((e * a * ((S * g) % n)) % n, d_) IN
         MM \in Int /\ Cong(n, e * a * ((S * g * d_) % n), MM)
    BY <1>2, <1>3, <1>4, <2>1, KeyShare
  <2> QED BY <2>2 DEF e, g
<1>7. nonce \in Int /\ share \in Int
  <2>1. flip(k_1) \in Int /\ flip(k_2) \in Int
    BY <1>2, <1>3
  <2>2. (S * v.gacc * d_) % n \in Int
    <3>1. S * v.gacc * d_ \in Int
      BY <1>2, <1>3
    <3> QED BY <1>2, <3>1, CongMod
  <2> HIDE DEF flip, S, a
  <2>3. nonce \in Int
    BY <1>2, <2>1
  <2>4. share \in Int
    BY <1>2, <1>4, <2>2
  <2> QED BY <2>3, <2>4
<1> HIDE DEF nonce, share, Rs, M
<1>8. Cong(n, nonce + share, Rs + M)
  BY <1>2, <1>5, <1>6, <1>7, CongAdd
<1>9. s = Add(Rs, M)
  BY <1>8 DEF Cong, Add
<1>10. s \in 0..(n - 1) /\ Mult(s, G) = s
  <2>1. nonce + share \in Int
    BY <1>7
  <2>2. s \in 0..(n - 1)
    BY <1>2, <2>1, ModRange
  <2>3. \A y \in 0..(n - 1) : y * 1 = y /\ y % n = y
    BY <1>2
  <2> HIDE DEF s
  <2> QED BY <2>2, <2>3 DEF Mult, G
<1>11. PartialSig(v, a, k_1, k_2, d_) = s
  BY DEF PartialSig, nonce, share
<1> HIDE DEF s
<1>12. ~(s >= n)
  BY <1>2, <1>10
<1>13. PartialSigVerify_(s, <<k_1, k_2>>, d_, ctx)
         = IF v.err # "ok" THEN "raises"
           ELSE IF s >= n THEN "false"
           ELSE IF Bad \in {k_1, k_2, d_} \/ ~IsSigner(ctx, d_) THEN "raises"
           ELSE IF Mult(s, G) = Add(Rs, M) THEN "true" ELSE "false"
  BY DEF PartialSigVerify_, VerifyShare, v, Rs, M
<1>14. PartialSigVerify_(s, <<k_1, k_2>>, d_, ctx) = "true"
  BY <1>3, <1>9, <1>10, <1>12, <1>13 DEF v
<1> QED BY <1>11, <1>14 DEF v

\* Append leaves the earlier terms alone.
LEMMA AppendKeeps ==
  ASSUME NEW S, NEW s \in Seq(S), NEW e, NEW j \in DOMAIN s
  PROVE  Append(s, e)[j] = s[j]
<1> DEFINE T == S \cup {e}
<1>1. s \in Seq(T) /\ e \in T
  BY SMT
<1> HIDE DEF T
<1> QED BY <1>1

\* A step that leaves the nonce, the key and the session of every partial
\* signature as they were keeps them acceptable.
LEMMA AcceptedStays ==
  ASSUME PartialSigsVerify, psigs' = psigs,
         \A p \in psigs : /\ pubNonce'[p.slot] = pubNonce[p.slot]
                          /\ secNonce'[p.slot].pk = secNonce[p.slot].pk
                          /\ sessions'[p.session] = sessions[p.session]
  PROVE  PartialSigsVerify'
<1> SUFFICES ASSUME NEW p \in psigs
             PROVE  PartialSigVerify_(p.s, pubNonce'[p.slot], secNonce'[p.slot].pk,
                                      sessions'[p.session]) = "true"
  BY DEF PartialSigsVerify
<1>1. PartialSigVerify_(p.s, pubNonce[p.slot], secNonce[p.slot].pk,
                        sessions[p.session]) = "true"
  BY DEF PartialSigsVerify
<1> QED BY <1>1

LEMMA SignedIsAccepted ==
  ASSUME TypeOK, BuffersMatch, NEW slot \in Slot, NEW d_ \in PrvKeys \cup {0},
         NEW i \in DOMAIN sessions, Signs(slot, d_, i)
  PROVE  PartialSigVerify_(SignedBy(slot, d_, i).s, pubNonce[slot], secNonce[slot].pk,
                           sessions[i]) = "true"
<1> DEFINE ctx == sessions[i]
           k_1 == secNonce[slot].k_1
           k_2 == secNonce[slot].k_2
<1>1. IsContext(ctx)
  <2>1. sessions \in Seq(SessionSet)
    BY DEF TypeOK, SessionSet
  <2>2. sessions[i] \in SessionSet
    BY <2>1
  <2> QED BY <2>2, SessionIsContext
<1>2. SessionValues(ctx).err = "ok" /\ d_ \in Finite /\ IsSigner(ctx, d_)
      /\ d_ = secNonce[slot].pk
  BY DEF Signs
<1>3. pubNonce[slot] = <<k_1, k_2>> /\ k_1 \in Finite /\ k_2 \in Finite
  <2>1. IsFresh(slot)
    BY DEF Signs
  <2>2. k_1 \in Scalar /\ k_2 \in Scalar
    BY DEF TypeOK
  <2> QED BY <2>1, <2>2 DEF BuffersMatch, IsFresh, Scalar, Finite, Point, INF
<1>4. SignedBy(slot, d_, i).s = PartialSig(SessionValues(ctx), KeyAggCoeff(ctx.pks, d_), k_1, k_2, d_)
  BY DEF SignedBy
<1> HIDE DEF ctx, k_1, k_2
<1>5. PartialSigVerify_(PartialSig(SessionValues(ctx), KeyAggCoeff(ctx.pks, d_), k_1, k_2, d_),
                        <<k_1, k_2>>, d_, ctx) = "true"
  BY <1>1, <1>2, <1>3, PartialSigAccepted
<1> QED BY <1>2, <1>3, <1>4, <1>5 DEF ctx

LEMMA SignKeepsAccepted ==
  ASSUME TypeOK, BuffersMatch, PartialSigsVerify, NEW slot \in Slot,
         NEW d_ \in PrvKeys \cup {0}, NEW i \in DOMAIN sessions, Sign(slot, d_, i)
  PROVE  PartialSigsVerify'
<1>1. pubNonce' = pubNonce /\ sessions' = sessions
  BY SignCases
<1>2. \A p \in psigs : p.slot \in Slot
  BY DEF TypeOK
<1>3. \A t \in Slot : Consumed(slot)[t].pk = secNonce[t].pk
  BY DEF TypeOK, Consumed
<1>4. CASE Refuses(slot, d_, i)
  BY <1>1, <1>4, AcceptedStays DEF Refuses
<1>5. CASE Raises(slot, d_, i)
  BY <1>1, <1>2, <1>3, <1>5, AcceptedStays DEF Raises
<1>6. CASE Signs(slot, d_, i)
  <2> DEFINE new == SignedBy(slot, d_, i)
  <2>1. psigs' = psigs \cup {new} /\ secNonce' = Consumed(slot)
    BY <1>6 DEF Signs
  <2>2. new.slot = slot /\ new.session = i
    BY DEF SignedBy
  <2>3. PartialSigVerify_(new.s, pubNonce[new.slot], secNonce[new.slot].pk,
                          sessions[new.session]) = "true"
    BY <1>6, <2>2, SignedIsAccepted
  <2> HIDE DEF new
  <2> SUFFICES ASSUME NEW p \in psigs \cup {new}
               PROVE  PartialSigVerify_(p.s, pubNonce'[p.slot], secNonce'[p.slot].pk,
                                        sessions'[p.session]) = "true"
    BY <2>1 DEF PartialSigsVerify
  <2>4. p.slot \in Slot /\ PartialSigVerify_(p.s, pubNonce[p.slot], secNonce[p.slot].pk,
                                             sessions[p.session]) = "true"
    BY <1>2, <2>2, <2>3 DEF PartialSigsVerify
  <2>5. secNonce'[p.slot].pk = secNonce[p.slot].pk
    BY <1>3, <2>1, <2>4
  <2> QED BY <1>1, <2>4, <2>5
<1> QED BY <1>4, <1>5, <1>6, SignCases

LEMMA NextKeepsAccepted ==
  TypeOK /\ BuffersMatch /\ PartialSigsVerify /\ [Next]_vars => PartialSigsVerify'
<1> SUFFICES ASSUME TypeOK, BuffersMatch, PartialSigsVerify, [Next]_vars
             PROVE  PartialSigsVerify'
  OBVIOUS
<1>1. \A p \in psigs : p.slot \in Slot /\ p.session \in DOMAIN sessions
                       /\ HasBuffer(p.slot) /\ Published(p.slot)
  <2>1. \A p \in psigs : p.slot \in Slot /\ p.session \in DOMAIN sessions
    BY DEF TypeOK
  <2>2. \A P \in Finite \X Finite : P # NoPubNonce
    BY DEF Finite, INF, NoPubNonce
  <2> QED BY <2>1, <2>2 DEF BuffersMatch, Published
<1>2. CASE \E slot \in Slot, pair \in NoncePairs, pk \in PrvKeys : NonceGen(slot, pair, pk)
  <2>1. PICK slot \in Slot, pair \in NoncePairs, pk \in PrvKeys : NonceGen(slot, pair, pk)
    BY <1>2
  <2>2. ~Published(slot) /\ psigs' = psigs /\ sessions' = sessions
    BY <2>1 DEF NonceGen
  <2>3. \A t \in Slot \ {slot} : secNonce'[t] = secNonce[t] /\ pubNonce'[t] = pubNonce[t]
    BY <2>1 DEF NonceGen, TypeOK
  <2> QED BY <1>1, <2>2, <2>3, AcceptedStays
<1>3. CASE \E slot \in Slot, nonce \in ForeignPubNonce : ReceivePubNonce(slot, nonce)
  <2>1. PICK slot \in Slot, nonce \in ForeignPubNonce : ReceivePubNonce(slot, nonce)
    BY <1>3
  <2>2. ~Published(slot) /\ psigs' = psigs /\ sessions' = sessions /\ secNonce' = secNonce
    BY <2>1 DEF ReceivePubNonce
  <2>3. \A t \in Slot \ {slot} : pubNonce'[t] = pubNonce[t]
    BY <2>1 DEF ReceivePubNonce, TypeOK
  <2> QED BY <1>1, <2>2, <2>3, AcceptedStays
<1>4. ASSUME NEW ctx, sessions' = sessions \/ sessions' = Append(sessions, ctx),
             UNCHANGED <<secNonce, pubNonce, psigs>>
      PROVE  PartialSigsVerify'
  <2>1. sessions \in Seq(SessionSet)
    BY DEF TypeOK, SessionSet
  <2>2. \A j \in DOMAIN sessions : Append(sessions, ctx)[j] = sessions[j]
    BY <2>1, AppendKeeps
  <2>3. \A j \in DOMAIN sessions : sessions'[j] = sessions[j]
    BY <1>4, <2>2
  <2> QED BY <1>1, <1>4, <2>3, AcceptedStays
<1>5. CASE \E plan \in Plans : \E slots \in [DOMAIN plan.pks -> Slot] : OpenSession(plan, slots)
  BY <1>4, <1>5 DEF OpenSession
<1>6. CASE \E plan \in Plans, nonce \in ForeignNonce : OpenForeignSession(plan, nonce)
  BY <1>4, <1>6 DEF OpenForeignSession
<1>7. CASE \E slot \in Slot, d_ \in PrvKeys \cup {0}, i \in DOMAIN sessions : Sign(slot, d_, i)
  BY <1>7, SignKeepsAccepted
<1>8. CASE \E d_ \in PrvKeys, pair \in NoncePairs, plan \in Plans, other \in ForeignNonce :
             DeterministicSign(d_, pair, plan, other)
  <2>1. PICK d_ \in PrvKeys, pair \in NoncePairs, plan \in Plans, other \in ForeignNonce :
               DeterministicSign(d_, pair, plan, other)
    BY <1>8, Zenon
  <2>2. UNCHANGED <<secNonce, pubNonce, sessions, psigs>>
    BY <2>1, DeterministicSignFrame, Zenon
  <2> QED BY <1>4, <2>2
<1>9. CASE UNCHANGED vars
  BY <1>4, <1>9 DEF vars
<1> QED BY <1>2, <1>3, <1>5, <1>6, <1>7, <1>8, <1>9 DEF Next

\* Whatever sign returns, partial_sig_verify_ accepts in the session it was
\* made in, for every group, every choice of hashes, every list of keys and
\* tweaks and every adaptor: the negations of signer and verifier agree.
THEOREM HonestPartialSigsVerify == Spec => []PartialSigsVerify
<1>1. Init => PartialSigsVerify
  BY DEF Init, PartialSigsVerify
<1>2. TypeOK /\ BuffersMatch /\ PartialSigsVerify /\ [Next]_vars => PartialSigsVerify'
  BY NextKeepsAccepted
<1> QED BY <1>1, <1>2, TypeCorrect, BuffersAlwaysMatch, PTL DEF Spec

\* One tweak keeps the key the image of the untweaked one under gacc and tacc.
LEMMA TweakAffine ==
  ASSUME NEW k \in GoodKeys, k.err = "ok", NEW tweak \in Tweak, NEW Q0 \in Int,
         Cong(n, k.Q, k.gacc * Q0 + k.tacc), ApplyTweak(k, tweak).err = "ok"
  PROVE  LET j == ApplyTweak(k, tweak) IN Cong(n, j.Q, j.gacc * Q0 + j.tacc)
<1> DEFINE flip == tweak.is_xonly /\ HasOddY(k.Q)
           g == IF flip THEN n - 1 ELSE 1
           P == IF flip THEN Negate(k.Q) ELSE k.Q
           t == tweak.t
           Q == k.Q
           ga == k.gacc
           ta == k.tacc
           Qn == Add(P, Mult(t, G))
           j == ApplyTweak(k, tweak)
<1>1. n \in Int /\ Q \in Int /\ ga \in Int /\ ta \in Int /\ t \in Int
  BY OrderPositive DEF GoodKeys, KeyResult, Point, Scalar, Tweak
<1>2. g \in Int /\ P \in Int /\ Cong(n, P, g * Q) /\ g * Q \in Int
  <2>1. CASE flip
    <3>1. P = (n - Q) % n /\ g = n - 1
      BY <2>1 DEF Negate
    <3> HIDE DEF P, Q, g, flip
    <3>2. P \in Int /\ Cong(n, P, n - Q)
      BY <1>1, <3>1, CongReduce
    <3>3. Cong(n, n - Q, (n - 1) * Q) /\ (n - 1) * Q \in Int
      BY <1>1, CongNegate
    <3>4. Cong(n, P, (n - 1) * Q)
      BY <3>2, <3>3 DEF Cong
    <3>5. n - 1 \in Int
      BY <1>1
    <3> QED BY <3>1, <3>2, <3>3, <3>4, <3>5
  <2>2. CASE ~flip
    <3>1. P = Q /\ g = 1
      BY <2>2
    <3> HIDE DEF P, Q, g, flip
    <3>2. g * Q = Q
      BY <1>1, <3>1
    <3>3. Cong(n, P, g * Q)
      BY <3>1, <3>2, CongSelf
    <3> QED BY <1>1, <3>1, <3>2, <3>3
  <2> QED BY <2>1, <2>2
<1>3. /\ j.Q = Qn /\ j.gacc = (g * ga) % n /\ j.tacc = (t + g * ta) % n
  <2> HIDE DEF flip
  <2>1. ApplyTweak(k, tweak)
          = IF t >= n THEN KeyAggError("tweak range", 0)
            ELSE IF Qn = INF THEN KeyAggError("infinite key", 0)
            ELSE [err |-> "ok", who |-> 0, Q |-> Qn,
                  gacc |-> (g * ga) % n, tacc |-> (t + g * ta) % n]
    BY DEF ApplyTweak, flip
  <2> HIDE DEF g, Qn, t, ga, ta
  <2>2. KeyAggError("tweak range", 0).err # "ok" /\ KeyAggError("infinite key", 0).err # "ok"
    BY DEF KeyAggError
  <2>3. ~(t >= n) /\ Qn # INF
    BY <2>1, <2>2, Zenon
  <2>4. ApplyTweak(k, tweak) = [err |-> "ok", who |-> 0, Q |-> Qn,
                                gacc |-> (g * ga) % n, tacc |-> (t + g * ta) % n]
    BY <2>1, <2>3, Zenon
  <2> QED BY <2>4
<1>4. Cong(n, Q, ga * Q0 + ta)
  OBVIOUS
<1> HIDE DEF g, P, t, Q, ga, ta, j, flip
<1>5. Cong(n, Add(P, Mult(t, G)), ((g * ga) % n) * Q0 + ((t + g * ta) % n))
  BY <1>1, <1>2, <1>4, TweakArithmetic
<1> QED BY <1>3, <1>5 DEF j

\* A tweaked key is g*Q + t of the untweaked key Q, g and t being the two
\* accumulators.
LEMMA TweakedKeyIsAffine ==
  ASSUME NEW pks \in KeyLists, NEW tweaks \in Seq(Tweak),
         KeyAggAndTweak(pks, tweaks).err = "ok"
  PROVE  LET k == KeyAggAndTweak(pks, tweaks)
             Q0 == KeyAgg(pks).Q
         IN  /\ KeyAgg(pks).err = "ok"
             /\ Q0 \in Finite
             /\ Cong(n, k.Q, k.gacc * Q0 + k.tacc)
<1> DEFINE h == TweakedKeys(pks, tweaks)
           m == Len(tweaks)
           Q0 == KeyAgg(pks).Q
           good(k) == k.err = "ok" => /\ KeyAgg(pks).err = "ok"
                                      /\ Cong(n, k.Q, k.gacc * Q0 + k.tacc)
           Affine == {k \in GoodKeys : good(k)}
<1>1. m \in Nat /\ \A i \in 1..m : tweaks[i] \in Tweak
  OBVIOUS
<1>2. /\ h[0] = KeyAgg(pks)
      /\ \A i \in 1..m :
           h[i] = IF h[i - 1].err # "ok" THEN h[i - 1] ELSE ApplyTweak(h[i - 1], tweaks[i])
      /\ \A i \in 0..m : h[i] \in GoodKeys
  BY TweakedKeysStep
<1>3. KeyAgg(pks) \in GoodKeys
  BY KeyAggGood
<1>4. Q0 \in Int
  BY <1>3 DEF GoodKeys, KeyResult, Point
<1>5. KeyAgg(pks).err = "ok" => KeyAgg(pks).gacc = 1 /\ KeyAgg(pks).tacc = 0
  BY DEF KeyAgg, KeyAggError
<1>6. good(h[0])
  <2> SUFFICES ASSUME KeyAgg(pks).err = "ok" PROVE good(h[0])
    BY <1>2
  <2>1. 1 * Q0 + 0 = Q0
    BY <1>4
  <2>2. Cong(n, Q0, 1 * Q0 + 0)
    BY <2>1, CongSelf
  <2> QED BY <1>2, <1>5, <2>2
<1> HIDE DEF h, m, Q0
<1>7. ASSUME NEW i \in 1..m, good(h[i - 1]) PROVE good(h[i])
  <2>1. h[i - 1] \in GoodKeys /\ i - 1 \in 0..m
    BY <1>1, <1>2
  <2>2. CASE h[i - 1].err # "ok"
    BY <1>2, <2>2
  <2>3. CASE h[i - 1].err = "ok"
    <3>1. h[i] = ApplyTweak(h[i - 1], tweaks[i]) /\ tweaks[i] \in Tweak
      BY <1>1, <1>2, <2>3
    <3> DEFINE k == h[i - 1]
    <3>2. k \in GoodKeys /\ k.err = "ok" /\ KeyAgg(pks).err = "ok"
          /\ Cong(n, k.Q, k.gacc * Q0 + k.tacc)
      BY <1>7, <2>1, <2>3
    <3> HIDE DEF k
    <3>3. good(ApplyTweak(k, tweaks[i]))
      BY <1>4, <3>1, <3>2, TweakAffine
    <3> QED BY <3>1, <3>3 DEF k
  <2> QED BY <2>2, <2>3
<1>8. \A i \in 0..m : h[i] \in Affine
  <2>1. h[0] \in Affine /\ \A i \in 1..m : h[i - 1] \in Affine => h[i] \in Affine
    <3>1. 0 \in 0..m /\ \A i \in 1..m : i \in 0..m
      BY <1>1
    <3> HIDE DEF good
    <3> QED BY <1>2, <1>6, <1>7, <3>1
  <2> HIDE DEF Affine
  <2> QED BY <1>1, <2>1, LoopInvariant
<1>9. m \in 0..m /\ KeyAggAndTweak(pks, tweaks) = h[m]
  BY <1>1 DEF KeyAggAndTweak, h, m
<1>10. good(h[m])
  BY <1>8, <1>9
<1> QED BY <1>3, <1>9, <1>10 DEF Q0, GoodKeys

\* SignOf is the sign of the point, modulo n.
LEMMA SignOfCong ==
  ASSUME NEW v
  PROVE  /\ SignOf(v) \in Int /\ SignY(v.Q) \in Int
         /\ Cong(n, SignOf(v), SignY(v.Q))
<1>1. (n - 1) * 1 = n - 1 /\ -1 \in Int /\ n - 1 \in Int /\ 1 \in Int
  BY OrderPositive
<1>2. Cong(n, (n - 1) * 1, -1)
  BY <1>1, CongNegate
<1>3. CASE HasOddY(v.Q)
  BY <1>1, <1>2, <1>3 DEF SignOf, SignY
<1>4. CASE ~HasOddY(v.Q)
  BY <1>1, <1>4, CongSelf DEF SignOf, SignY
<1> QED BY <1>3, <1>4

\* What the values of a session that comes together are made of.
LEMMA SessionValuesAre ==
  ASSUME NEW ctx, IsContext(ctx), SessionValues(ctx).err = "ok"
  PROVE  LET v == SessionValues(ctx)
             key == KeyAggAndTweak(ctx.pks, ctx.tweaks)
             R_1 == IF ctx.adaptor = NoAdaptor THEN ctx.aggNonce[1]
                    ELSE Add(ctx.aggNonce[1], ctx.adaptor)
         IN  /\ key.err = "ok"
             /\ v.Q = key.Q /\ v.gacc = key.gacc /\ v.tacc = key.tacc
             /\ ctx.aggNonce[1] \in Point /\ ctx.aggNonce[2] \in Point
             /\ ctx.adaptor \in Finite \cup {NoAdaptor}
             /\ v.e = Challenge[XOnly(v.R), XOnly(v.Q), ctx.msg] /\ v.e # 0
             /\ ~v.placeholder => v.R = Add(R_1, Mult(v.b, ctx.aggNonce[2]))
<1> DEFINE key == KeyAggAndTweak(ctx.pks, ctx.tweaks)
           v == SessionValues(ctx)
           x_Q == XOnly(key.Q)
           R_1 == IF ctx.adaptor = NoAdaptor THEN ctx.aggNonce[1]
                  ELSE Add(ctx.aggNonce[1], ctx.adaptor)
           b   == NonceCoeffHash[R_1, ctx.aggNonce[2], x_Q, ctx.msg]
           R0  == Add(R_1, Mult(b, ctx.aggNonce[2]))
           R   == IF R0 = INF THEN G ELSE R0
           e   == Challenge[XOnly(R), x_Q, ctx.msg]
           values == [err |-> "ok", who |-> 0, Q |-> key.Q, gacc |-> key.gacc,
                      tacc |-> key.tacc, b |-> b, R |-> R, e |-> e,
                      placeholder |-> R0 = INF]
<1>1. v = IF key.err # "ok" THEN SessionError(key.err, key.who)
          ELSE IF Bad \in {ctx.aggNonce[1], ctx.aggNonce[2]} THEN SessionError("aggnonce", 0)
          ELSE IF ctx.adaptor = Bad THEN SessionError("adaptor", 0)
          ELSE IF e = 0 THEN SessionError("zero challenge", 0)
          ELSE values
  BY DEF SessionValues, SessionOf
<1>2. v.err = "ok"
  OBVIOUS
<1>3. /\ R = IF R0 = INF THEN G ELSE R0
      /\ e = Challenge[XOnly(R), XOnly(key.Q), ctx.msg]
      /\ R0 = Add(R_1, Mult(b, ctx.aggNonce[2]))
      /\ values.Q = key.Q /\ values.gacc = key.gacc /\ values.tacc = key.tacc
      /\ values.e = e /\ values.b = b /\ values.R = R
      /\ values.placeholder = (R0 = INF)
  OBVIOUS
<1> HIDE DEF key, v, b, R_1, R0, R, e, values, x_Q
<1>4. \A err, who : SessionError(err, who).err = err
  BY DEF SessionError
<1>5. /\ key.err = "ok" /\ Bad \notin {ctx.aggNonce[1], ctx.aggNonce[2]}
      /\ ctx.adaptor # Bad /\ e # 0 /\ v = values
  <2>1. key.err = "ok"
    BY <1>1, <1>2, <1>4
  <2>2. Bad \notin {ctx.aggNonce[1], ctx.aggNonce[2]}
    <3> SUFFICES ASSUME Bad \in {ctx.aggNonce[1], ctx.aggNonce[2]} PROVE FALSE
      OBVIOUS
    <3>1. v = SessionError("aggnonce", 0)
      BY <1>1, <2>1, Zenon
    <3>2. v.err = "aggnonce"
      BY <1>4, <3>1
    <3> QED BY <1>2, <3>2
  <2>3. ctx.adaptor # Bad
    <3> SUFFICES ASSUME ctx.adaptor = Bad PROVE FALSE
      OBVIOUS
    <3>1. v = SessionError("adaptor", 0)
      BY <1>1, <2>1, <2>2, Zenon
    <3>2. v.err = "adaptor"
      BY <1>4, <3>1
    <3> QED BY <1>2, <3>2
  <2>4. e # 0
    <3> SUFFICES ASSUME e = 0 PROVE FALSE
      OBVIOUS
    <3>1. v = SessionError("zero challenge", 0)
      BY <1>1, <2>1, <2>2, <2>3, Zenon
    <3>2. v.err = "zero challenge"
      BY <1>4, <3>1
    <3> QED BY <1>2, <3>2
  <2>5. v = values
    BY <1>1, <2>1, <2>2, <2>3, <2>4, Zenon
  <2> QED BY <2>1, <2>2, <2>3, <2>4, <2>5
<1>6. /\ ctx.aggNonce[1] \in Point /\ ctx.aggNonce[2] \in Point
      /\ ctx.adaptor \in Finite \cup {NoAdaptor}
  BY <1>5 DEF IsContext, ExtEncoding, Encoding
<1>7. /\ v.Q = key.Q /\ v.gacc = key.gacc /\ v.tacc = key.tacc
      /\ v.e = Challenge[XOnly(v.R), XOnly(v.Q), ctx.msg] /\ v.e # 0
      /\ ~v.placeholder => v.R = Add(R_1, Mult(v.b, ctx.aggNonce[2]))
  <2>1. v.Q = key.Q /\ v.gacc = key.gacc /\ v.tacc = key.tacc /\ v.e = e /\ v.R = R /\ v.b = b
        /\ v.placeholder = (R0 = INF)
    BY <1>3, <1>5, Zenon
  <2>2. e = Challenge[XOnly(v.R), XOnly(v.Q), ctx.msg]
    BY <1>3, <2>1, Zenon
  <2>3. ~v.placeholder => R = R0
    BY <1>3, <2>1, Zenon
  <2>4. R0 = Add(R_1, Mult(v.b, ctx.aggNonce[2]))
    BY <1>3, <2>1, Zenon
  <2> QED BY <1>5, <2>1, <2>2, <2>3, <2>4, Zenon
<1> QED BY <1>5, <1>6, <1>7 DEF v, key, R_1

\* What a partial signature partial_sig_verify_ accepts is modulo n: its signer's
\* nonces with the sign of R, and its signer's key with its coefficient.
LEMMA AcceptedShare ==
  ASSUME NEW ctx, IsContext(ctx), SessionValues(ctx).err = "ok",
         NEW s \in Scalar, NEW nonce \in ExtEncoding \X ExtEncoding, NEW pk \in Encoding,
         PartialSigVerify_(s, nonce, pk, ctx) = "true"
  PROVE  LET v == SessionValues(ctx)
             g == (SignOf(v) * v.gacc) % n
         IN  /\ nonce[1] \in Point /\ nonce[2] \in Point /\ pk \in Finite
             /\ Mult(KeyAggCoeff(ctx.pks, pk), pk) \in Int
             /\ Cong(n, s, SignY(v.R) * nonce[1] + (SignY(v.R) * v.b) * nonce[2]
                             + (v.e * g) * Mult(KeyAggCoeff(ctx.pks, pk), pk))
<1> DEFINE v == SessionValues(ctx)
           g == (SignOf(v) * v.gacc) % n
           a == KeyAggCoeff(ctx.pks, pk)
           k_1 == nonce[1]
           k_2 == nonce[2]
           b == v.b
           e == v.e
           R == v.R
           rhs == VerifierSide(R, b, k_1, k_2, e, a, g, pk)
<1>1. IsValues(v)
  BY SessionValuesGood
<1>2. PartialSigVerify_(s, nonce, pk, ctx)
        = IF v.err # "ok" THEN "raises"
          ELSE IF s >= n THEN "false"
          ELSE IF Bad \in {nonce[1], nonce[2], pk} \/ ~IsSigner(ctx, pk) THEN "raises"
          ELSE IF Mult(s, G) = rhs THEN "true" ELSE "false"
  BY DEF PartialSigVerify_, VerifyShare, VerifierSide
<1> HIDE DEF rhs
<1>3. Bad \notin {nonce[1], nonce[2], pk} /\ Mult(s, G) = rhs
  BY <1>2
<1>4. k_1 \in Point /\ k_2 \in Point /\ pk \in Finite
  BY <1>3 DEF ExtEncoding, Encoding
<1>5. a \in Scalar
  BY <1>4, KeyAggCoeffScalar DEF IsContext
<1>6. SignOf(v) \in Int
  BY SignOfCong
<1> HIDE DEF v, a
<1>7. /\ b \in Int /\ e \in Int /\ k_1 \in Int /\ k_2 \in Int /\ pk \in Int /\ a \in Int
      /\ v.gacc \in Int
  BY <1>1, <1>4, <1>5 DEF IsValues, Scalar, Point, Finite
<1>8. g \in Int
  BY <1>6, <1>7, CongReduce
<1> HIDE DEF b, e, R, k_1, k_2, g
<1>9. Mult(s, G) = s /\ s \in Int
  <2>1. s * 1 = s /\ s % n = s /\ s \in Int
    BY OrderPositive DEF Scalar
  <2> QED BY <2>1 DEF Mult, G
<1>10. /\ Mult(a, pk) \in Int /\ rhs \in Int
       /\ Cong(n, rhs, SignY(R) * k_1 + (SignY(R) * b) * k_2 + (e * g) * Mult(a, pk))
  BY <1>7, <1>8, ShareEquation DEF rhs
<1> QED BY <1>3, <1>4, <1>9, <1>10 DEF R, e, g, b, k_1, k_2, v, a

\* The accepted shares sum to the aggregate nonce with the sign of R and the
\* untweaked key.
LEMMA SumOfShares ==
  ASSUME NEW ctx, IsContext(ctx), SessionValues(ctx).err = "ok",
         NEW nonces, DOMAIN nonces = DOMAIN ctx.pks,
         \A j \in DOMAIN ctx.pks : nonces[j] \in ExtEncoding \X ExtEncoding,
         NonceAgg(nonces).err = "ok", ctx.aggNonce = NonceAgg(nonces).R,
         NEW s \in [DOMAIN ctx.pks -> Scalar],
         \A j \in DOMAIN ctx.pks : PartialSigVerify_(s[j], nonces[j], ctx.pks[j], ctx) = "true"
  PROVE  LET v == SessionValues(ctx)
             g == (SignOf(v) * v.gacc) % n
         IN  /\ SumAll(s) \in Int
             /\ Cong(n, SumAll(s), SignY(v.R) * ctx.aggNonce[1]
                                + (SignY(v.R) * v.b) * ctx.aggNonce[2]
                                + (v.e * g) * KeyAgg(ctx.pks).Q)
<1> DEFINE v == SessionValues(ctx)
           g == (SignOf(v) * v.gacc) % n
           pks == ctx.pks
           m == Len(pks)
           half(i) == [j \in DOMAIN nonces |-> nonces[j][i]]
           terms == [j \in DOMAIN pks |-> Mult(KeyAggCoeff(pks, pks[j]), pks[j])]
           h1 == half(1)
           h2 == half(2)
           a == SignY(v.R)
           b == SignY(v.R) * v.b
           c == v.e * g
<1>1. pks \in Seq(Encoding)
  BY MuSig2Assumption DEF KeyLists, IsContext
<1>2. m \in Nat /\ DOMAIN pks = 1..m /\ DOMAIN s = 1..m
      /\ DOMAIN h1 = 1..m /\ DOMAIN h2 = 1..m /\ DOMAIN terms = 1..m
  BY <1>1
<1>3. \A j \in 1..m : /\ nonces[j][1] \in Point /\ nonces[j][2] \in Point /\ pks[j] \in Finite
                      /\ Mult(KeyAggCoeff(pks, pks[j]), pks[j]) \in Int
                      /\ Cong(n, s[j], a * nonces[j][1] + b * nonces[j][2]
                               + c * Mult(KeyAggCoeff(pks, pks[j]), pks[j]))
  <2> SUFFICES ASSUME NEW j \in 1..m
               PROVE  /\ nonces[j][1] \in Point /\ nonces[j][2] \in Point /\ pks[j] \in Finite
                      /\ Mult(KeyAggCoeff(pks, pks[j]), pks[j]) \in Int
                      /\ Cong(n, s[j], a * nonces[j][1] + b * nonces[j][2]
                               + c * Mult(KeyAggCoeff(pks, pks[j]), pks[j]))
    OBVIOUS
  <2>1. j \in DOMAIN ctx.pks /\ pks[j] \in Encoding
    BY <1>1, <1>2
  <2>2. /\ s[j] \in Scalar /\ nonces[j] \in ExtEncoding \X ExtEncoding
        /\ PartialSigVerify_(s[j], nonces[j], pks[j], ctx) = "true"
    BY <2>1
  <2> QED BY <2>1, <2>2, AcceptedShare
<1>4. KeyAgg(pks).err = "ok"
  <2>1. KeyAggAndTweak(ctx.pks, ctx.tweaks).err = "ok"
    BY SessionValuesAre
  <2> QED BY <2>1, TweakedKeyIsAffine DEF IsContext
<1>5. KeyAgg(pks).Q = SumAll(terms)
  <2> DEFINE Q == SumAll(terms)
  <2>1. KeyAgg(pks) = IF ~AllParse(pks) THEN KeyAggError("pubkey", FirstBad(pks))
                      ELSE IF Q = INF THEN KeyAggError("infinite key", 0)
                      ELSE [err |-> "ok", who |-> 0, Q |-> Q, gacc |-> 1, tacc |-> 0]
    BY DEF KeyAgg
  <2> HIDE DEF Q
  <2>2. \A err, who : KeyAggError(err, who).err = err
    BY DEF KeyAggError
  <2>3. AllParse(pks)
    <3> SUFFICES ASSUME ~AllParse(pks) PROVE FALSE
      OBVIOUS
    <3>1. KeyAgg(pks) = KeyAggError("pubkey", FirstBad(pks))
      BY <2>1
    <3>2. KeyAgg(pks).err = "pubkey"
      BY <2>2, <3>1
    <3> QED BY <1>4, <3>2
  <2>4. Q # INF
    <3> SUFFICES ASSUME Q = INF PROVE FALSE
      OBVIOUS
    <3>1. KeyAgg(pks) = KeyAggError("infinite key", 0)
      BY <2>1, <2>3
    <3>2. KeyAgg(pks).err = "infinite key"
      BY <2>2, <3>1
    <3> QED BY <1>4, <3>2
  <2>5. KeyAgg(pks) = [err |-> "ok", who |-> 0, Q |-> Q, gacc |-> 1, tacc |-> 0]
    BY <2>1, <2>3, <2>4
  <2> QED BY <2>5 DEF Q
<1>6. ctx.aggNonce[1] = SumAll(h1) /\ ctx.aggNonce[2] = SumAll(h2)
  <2> DEFINE error(who) == [err |-> "pubnonce", who |-> who, R |-> <<INF, INF>>]
             good == [err |-> "ok", who |-> 0, R |-> <<SumAll(h1), SumAll(h2)>>]
  <2>1. NonceAgg(nonces) = IF ~AllParse(h1) THEN error(FirstBad(h1))
                           ELSE IF ~AllParse(h2) THEN error(FirstBad(h2))
                           ELSE good
    BY DEF NonceAgg
  <2> HIDE DEF h1, h2
  <2>2. \A who : error(who).err # "ok"
    OBVIOUS
  <2> HIDE DEF error
  <2>3. good.R = <<SumAll(h1), SumAll(h2)>>
    OBVIOUS
  <2> HIDE DEF good
  <2>4. NonceAgg(nonces) = good
    BY <2>1, <2>2
  <2> QED BY <2>3, <2>4
<1>7. /\ v.e \in Int /\ v.b \in Int /\ v.gacc \in Int /\ SignOf(v) \in Int /\ SignY(v.R) \in Int
  <2>1. IsValues(v)
    BY SessionValuesGood
  <2>2. SignOf(v) \in Int
    BY SignOfCong
  <2> QED BY <2>1, <2>2 DEF IsValues, Scalar, SignY
<1>8. a \in Int /\ b \in Int /\ c \in Int
  <2>1. g \in Int
    BY <1>7, CongReduce
  <2> HIDE DEF g
  <2> QED BY <1>7, <2>1
<1>9. \A j \in 1..m : h1[j] = nonces[j][1] /\ h2[j] = nonces[j][2]
                      /\ terms[j] = Mult(KeyAggCoeff(pks, pks[j]), pks[j])
  BY <1>2
<1> HIDE DEF a, b, c, h1, h2, terms, m, pks
<1>10. \A j \in 1..m : s[j] \in Int /\ h1[j] \in Int /\ h2[j] \in Int /\ terms[j] \in Int
  BY <1>2, <1>3, <1>9 DEF Point, Scalar
<1>11. \A j \in 1..m : Cong(n, s[j], a * h1[j] + b * h2[j] + c * terms[j])
  BY <1>3, <1>9
<1>12. Len(s) = m /\ Len(h1) = m /\ Len(h2) = m /\ Len(terms) = m
  BY <1>2, LenOfFunction
<1>13. Cong(n, SumAll(s), a * SumAll(h1) + b * SumAll(h2) + c * SumAll(terms))
  BY <1>2, <1>8, <1>10, <1>11, <1>12, SumLinear
<1>14. SumAll(s) \in Int
  <2>1. SumAll(s) \in Scalar
    BY <1>2, <1>10, <1>12, SumScalar
  <2> QED BY <2>1 DEF Scalar
<1> QED BY <1>5, <1>6, <1>13, <1>14 DEF a, b, c, pks

\* What the adaptor adds to the aggregate nonce.
AdaptorPoint(ctx) == IF ctx.adaptor = NoAdaptor THEN 0 ELSE ctx.adaptor

\* The aggregate of accepted partial signatures is the nonce but for the adaptor,
\* plus the challenge times the key.
LEMMA AggregateEquation ==
  ASSUME NEW ctx, IsContext(ctx), SessionValues(ctx).err = "ok",
         ~SessionValues(ctx).placeholder,
         NEW nonces, DOMAIN nonces = DOMAIN ctx.pks,
         \A j \in DOMAIN ctx.pks : nonces[j] \in ExtEncoding \X ExtEncoding,
         NonceAgg(nonces).err = "ok", ctx.aggNonce = NonceAgg(nonces).R,
         NEW s \in [DOMAIN ctx.pks -> Scalar],
         \A j \in DOMAIN ctx.pks : PartialSigVerify_(s[j], nonces[j], ctx.pks[j], ctx) = "true"
  PROVE  LET v == SessionValues(ctx)
             agg == AggS(s, ctx)
         IN  /\ agg.err = "ok" /\ agg.r = XOnly(v.R) /\ agg.s \in Scalar
             /\ Cong(n, agg.s, SignY(v.R) * (v.R - AdaptorPoint(ctx)) + v.e * XOnly(v.Q))
<1> DEFINE v == SessionValues(ctx)
           g == (SignOf(v) * v.gacc) % n
           f == SignY(v.R)
           b == v.b
           e == v.e
           S == SignOf(v)
           gacc == v.gacc
           tacc == v.tacc
           A_1 == ctx.aggNonce[1]
           A_2 == ctx.aggNonce[2]
           T == AdaptorPoint(ctx)
           Q_0 == KeyAgg(ctx.pks).Q
           Q == v.Q
           xQ == XOnly(v.Q)
           R == v.R
           sum == SumAll(s)
           R_1 == IF ctx.adaptor = NoAdaptor THEN A_1 ELSE Add(A_1, ctx.adaptor)
<1>1. IsValues(v)
  BY SessionValuesGood
<1>2. /\ KeyAggAndTweak(ctx.pks, ctx.tweaks).err = "ok"
      /\ v.Q = KeyAggAndTweak(ctx.pks, ctx.tweaks).Q
      /\ v.gacc = KeyAggAndTweak(ctx.pks, ctx.tweaks).gacc
      /\ v.tacc = KeyAggAndTweak(ctx.pks, ctx.tweaks).tacc
      /\ A_1 \in Point /\ A_2 \in Point
      /\ ctx.adaptor \in Finite \cup {NoAdaptor}
      /\ R = Add(R_1, Mult(b, A_2))
  BY SessionValuesAre
<1>3. Q_0 \in Finite /\ Cong(n, Q, gacc * Q_0 + tacc)
  BY <1>2, TweakedKeyIsAffine DEF IsContext
<1>4. /\ sum \in Int
      /\ Cong(n, sum, f * A_1 + (f * b) * A_2 + (e * g) * Q_0)
  BY SumOfShares
<1>5. S \in Int /\ Cong(n, S, SignY(v.Q)) /\ SignY(v.Q) \in Int
  BY SignOfCong
<1>6. Q \in Finite /\ R \in Finite /\ xQ \in Int /\ Cong(n, xQ, SignY(v.Q) * Q)
  BY <1>1, XOnlyCong DEF IsValues
<1> DEFINE SY == SignY(v.Q)
<1>7. AggS(s, ctx) = Aggregate(s, v)
  BY DEF AggS
<1>8. /\ v.err = "ok" /\ b \in Int /\ e \in Int /\ gacc \in Int /\ tacc \in Int
      /\ A_1 \in Int /\ A_2 \in Int /\ Q_0 \in Int /\ Q \in Int /\ R \in Int /\ f \in Int
  BY <1>1, <1>2, <1>3, <1>6 DEF IsValues, Scalar, Point, Finite, SignY
<1>9. T \in Int /\ (ctx.adaptor = NoAdaptor => T = 0) /\ (ctx.adaptor # NoAdaptor => T = ctx.adaptor)
  BY <1>2 DEF AdaptorPoint, Finite, Point
<1>10. g \in Int /\ Cong(n, g, S * gacc)
  BY <1>5, <1>8, CongReduce
<1> HIDE DEF g, f, b, e, S, gacc, tacc, A_1, A_2, T, Q_0, Q, xQ, R, sum, SY
<1>11. Cong(n, xQ, S * Q)
  <2>1. Cong(n, Q * S, Q * SY)
    BY <1>5, <1>8, CongScale DEF SY
  <2>2. Q * S = S * Q /\ Q * SY = SY * Q
    BY <1>5, <1>8 DEF SY
  <2>3. Cong(n, xQ, SY * Q)
    BY <1>6 DEF SY
  <2> QED BY <2>1, <2>2, <2>3 DEF Cong
<1>12. Cong(n, R, A_1 + T + b * A_2)
  <2>1. R_1 \in Int /\ Cong(n, R_1, A_1 + T) /\ A_1 + T \in Int
    <3>1. A_1 + T \in Int
      BY <1>8, <1>9
    <3>2. CASE ctx.adaptor = NoAdaptor
      <4>1. R_1 = A_1 /\ A_1 + T = A_1
        BY <1>8, <1>9, <3>2
      <4> QED BY <1>8, <3>1, <4>1, CongSelf
    <3>3. CASE ctx.adaptor # NoAdaptor
      <4>1. R_1 = (A_1 + T) % n
        BY <1>9, <3>3 DEF Add
      <4> QED BY <3>1, <4>1, CongReduce
    <3> QED BY <3>2, <3>3
  <2> DEFINE y == b * A_2
             yn == Mult(b, A_2)
  <2>2. y \in Int /\ yn = y % n
    BY <1>8 DEF Mult
  <2> HIDE DEF R_1, y, yn
  <2>3. yn \in Int /\ Cong(n, yn, y)
    BY <2>2, CongReduce
  <2>4. Cong(n, R_1 + yn, (A_1 + T) + y) /\ R_1 + yn \in Int
    BY <2>1, <2>2, <2>3, CongSum
  <2>5. R = (R_1 + yn) % n
    BY <1>2 DEF Add, yn
  <2>6. Cong(n, R, (A_1 + T) + y)
    BY <2>4, <2>5, CongReduce DEF Cong
  <2> QED BY <2>6 DEF y
<1>13. Cong(n, sum + e * S * tacc, f * (R - T) + e * xQ)
  <2>1. xQ \in Int
    BY <1>6
  <2> QED BY <1>3, <1>4, <1>5, <1>8, <1>9, <1>10, <1>11, <1>12, <2>1, AggregateArithmetic, ZenonT(60)
<1> DEFINE tooBig == {i \in DOMAIN s : s[i] >= n}
           error(err, who) == [err |-> err, who |-> who, r |-> INF, s |-> 0]
<1>14. tooBig = {}
  <2>1. \A i \in DOMAIN s : s[i] \in Scalar
    OBVIOUS
  <2>2. \A x \in Scalar : ~(x >= n)
    BY OrderPositive DEF Scalar
  <2> QED BY <2>1, <2>2
<1>15. Aggregate(s, v) = IF v.err # "ok" THEN error(v.err, v.who)
                         ELSE IF tooBig # {}
                         THEN error("psig", CHOOSE i \in tooBig : \A j \in tooBig : i <= j)
                         ELSE [err |-> "ok", who |-> 0, r |-> XOnly(R),
                               s |-> (sum + e * S * tacc) % n]
  BY DEF Aggregate, R, sum, e, S, tacc
<1> HIDE DEF tooBig, error
<1>16. Aggregate(s, v) = [err |-> "ok", who |-> 0, r |-> XOnly(R),
                          s |-> (sum + e * S * tacc) % n]
  BY <1>8, <1>14, <1>15
<1>17. sum + e * S * tacc \in Int
  BY <1>4, <1>5, <1>8
<1> DEFINE total == sum + e * S * tacc
           agg == AggS(s, ctx)
<1>18. agg.err = "ok" /\ agg.r = XOnly(R) /\ agg.s = total % n
  BY <1>7, <1>16
<1> HIDE DEF total, agg
<1>19. total % n \in Scalar /\ Cong(n, total % n, total)
  BY <1>17, CongReduce DEF total
<1>20. Cong(n, agg.s, f * (R - T) + e * xQ)
  BY <1>13, <1>18, <1>19 DEF Cong, total
<1> QED BY <1>18, <1>19, <1>20 DEF agg, f, R, T, e, xQ

\* Without an adaptor the aggregate of accepted partial signatures is a signature
\* of the tweaked key.
LEMMA AcceptedAggregates ==
  ASSUME NEW ctx, IsContext(ctx), SessionValues(ctx).err = "ok",
         ~SessionValues(ctx).placeholder, ctx.adaptor = NoAdaptor,
         NEW nonces, DOMAIN nonces = DOMAIN ctx.pks,
         \A j \in DOMAIN ctx.pks : nonces[j] \in ExtEncoding \X ExtEncoding,
         NonceAgg(nonces).err = "ok", ctx.aggNonce = NonceAgg(nonces).R,
         NEW s \in [DOMAIN ctx.pks -> Scalar],
         \A j \in DOMAIN ctx.pks : PartialSigVerify_(s[j], nonces[j], ctx.pks[j], ctx) = "true"
  PROVE  IsValid(PartialSigAgg(s, ctx), ctx)
<1> DEFINE v == SessionValues(ctx)
           agg == AggS(s, ctx)
           R == v.R
           Q == v.Q
           e == v.e
           xR == XOnly(R)
           xQ == XOnly(Q)
<1>1. agg.err = "ok" /\ agg.r = xR /\ agg.s \in Scalar
      /\ Cong(n, agg.s, SignY(R) * (R - 0) + e * xQ)
  BY AggregateEquation DEF AdaptorPoint
<1>2. R \in Finite /\ Q \in Finite /\ e \in Scalar
  BY SessionValuesGood DEF IsValues
<1>3. e = Challenge[xR, xQ, ctx.msg] /\ e # 0
  BY SessionValuesAre
<1>4. PartialSigAgg(s, ctx) = agg
  BY DEF PartialSigAgg
<1> HIDE DEF v, agg, R, Q, e
<1>5. R \in Int /\ e \in Int /\ xQ \in Int /\ xR \in Int /\ Cong(n, xR, SignY(R) * R)
  BY <1>2, XOnlyCong DEF Finite, Point, Scalar
<1> HIDE DEF xR, xQ
<1>6. Cong(n, agg.s, xR + e * xQ)
  <2>1. R - 0 = R /\ e * xQ \in Int
    BY <1>5
  <2> DEFINE f == SignY(R) * R
             k == e * xQ
  <2>2. f \in Int /\ k \in Int
    BY <1>5 DEF SignY
  <2>3. Cong(n, agg.s, f + k) /\ Cong(n, xR, f)
    BY <1>1, <1>5, <2>1
  <2> HIDE DEF f, k
  <2>4. Cong(n, xR + k, f + k)
    BY <1>5, <2>2, <2>3, CongSelf, CongSum
  <2> QED BY <2>3, <2>4 DEF Cong, k
<1>7. SchnorrVerifies(xQ, ctx.msg, xR, agg.s)
  <2>1. Challenge[XOnly(R), XOnly(Q), ctx.msg] \in Scalar \ {0}
    BY <1>2, <1>3 DEF xR, xQ
  <2>2. agg.s \in Scalar
    BY <1>1
  <2> DEFINE t == agg.s
             msg == ctx.msg
  <2>3. t \in Scalar /\ Challenge[XOnly(R), XOnly(Q), msg] \in Scalar \ {0}
        /\ Cong(n, t, XOnly(R) + Challenge[XOnly(R), XOnly(Q), msg] * XOnly(Q))
    BY <1>3, <1>6, <2>1, <2>2 DEF xR, xQ
  <2> HIDE DEF t, msg
  <2>4. SchnorrVerifies(XOnly(Q), msg, XOnly(R), t)
    BY <1>2, <2>3, SchnorrEquation
  <2> QED BY <2>4 DEF t, msg, xR, xQ
<1> QED BY <1>1, <1>4, <1>7 DEF IsValid, SignatureVerifies, v, Q, xQ

\* The arithmetic of adapt: with the nonce short of T, what F adds completes the
\* signature for t = T and for no other t.
LEMMA AdaptArithmetic ==
  ASSUME NEW p \in Int, NEW f \in Int, f * f = 1, NEW R \in Int, NEW T \in Scalar, NEW t \in Scalar,
         NEW k \in Int, NEW F \in Int, NEW xR \in Int,
         Cong(n, p, f * (R - T) + k), Cong(n, F, f * t), Cong(n, xR, f * R)
  PROVE  /\ t = T => Cong(n, (p + F) % n, xR + k)
         /\ Cong(n, (p + F) % n, xR + k) => t = T
<1>1. /\ T \in Int /\ t \in Int /\ f \in Int /\ f * f = 1
      /\ f * (R - T) \in Int /\ f * t \in Int /\ f * R \in Int /\ f * T \in Int
  BY DEF Scalar
<1>2. p + F \in Int /\ (p + F) % n \in Int /\ Cong(n, (p + F) % n, p + F)
  <2>1. p + F \in Int
    OBVIOUS
  <2> QED BY <2>1, CongReduce
<1> DEFINE a == f * (R - T)
           b == f * t
           c == f * R
           d == f * T
<1>3. a = c - d /\ a \in Int /\ b \in Int /\ c \in Int /\ d \in Int
  BY <1>1
<1>4. Cong(n, p, a + k) /\ Cong(n, F, b) /\ Cong(n, xR, c)
  OBVIOUS
<1>5. f * b = t /\ f * d = T
  <2>1. f * (f * t) = (f * f) * t /\ f * (f * T) = (f * f) * T
    BY <1>1
  <2> QED BY <1>1, <2>1
<1>6. ASSUME t = T PROVE b = d
  BY <1>6
<1> HIDE DEF a, b, c, d
<1>7. Cong(n, p + F, (a + k) + b) /\ (a + k) + b \in Int /\ a + k \in Int
  <2>1. a + k \in Int
    BY <1>3
  <2> QED BY <1>3, <1>4, <2>1, CongSum
<1>8. Cong(n, xR + k, c + k) /\ xR + k \in Int /\ c + k \in Int
  BY <1>3, <1>4, CongSelf, CongSum
<1>9. ASSUME t = T PROVE Cong(n, (p + F) % n, xR + k)
  <2>1. (a + k) + b = c + k
    BY <1>3, <1>6, <1>9
  <2> QED BY <1>2, <1>7, <1>8, <2>1 DEF Cong
<1>10. ASSUME Cong(n, (p + F) % n, xR + k) PROVE t = T
  <2>1. Cong(n, (a + k) + b, c + k)
    BY <1>2, <1>7, <1>8, <1>10 DEF Cong
  <2>2. d - c - k \in Int
    BY <1>3
  <2>3. Cong(n, ((a + k) + b) + (d - c - k), (c + k) + (d - c - k))
    BY <1>7, <1>8, <2>1, <2>2, CongSelf, CongSum
  <2>4. ((a + k) + b) + (d - c - k) = b /\ (c + k) + (d - c - k) = d
    BY <1>3
  <2>5. Cong(n, b, d)
    BY <2>3, <2>4
  <2>6. Cong(n, f * b, f * d)
    BY <1>1, <1>3, <2>5, CongScale
  <2> QED BY <1>5, <2>6, CongScalars
<1> QED BY <1>9, <1>10

\* The sign of R applied twice gives a scalar back.
LEMMA FlipTwice ==
  ASSUME NEW R, NEW t \in Finite
  PROVE  FlipIfOdd(R, t) \in Scalar /\ FlipIfOdd(R, FlipIfOdd(R, t)) = t
<1>1. t \in 1..(n - 1) /\ n \in Int /\ n > 2
  BY OrderPositive DEF Finite, Point, INF
<1>2. n - t \in 1..(n - 1) /\ (n - t) % n = n - t /\ n - (n - t) = t /\ t % n = t
  BY <1>1
<1>3. CASE HasOddY(R)
  BY <1>1, <1>2, <1>3 DEF FlipIfOdd, Scalar
<1>4. CASE ~HasOddY(R)
  BY <1>1, <1>4 DEF FlipIfOdd, Scalar
<1> QED BY <1>3, <1>4

\* What was added modulo n is what the difference gives back.
LEMMA DifferenceGivesBack ==
  ASSUME NEW p \in Scalar, NEW F \in Scalar
  PROVE  (((p + F) % n) - p) % n = F
<1>1. p \in Int /\ F \in Int /\ p + F \in Int /\ -p \in Int
  BY DEF Scalar
<1>2. Cong(n, (p + F) % n, p + F) /\ (p + F) % n \in Int
  BY <1>1, CongReduce
<1> DEFINE x == (p + F) % n
<1> HIDE DEF x
<1>3. Cong(n, x + (-p), (p + F) + (-p)) /\ x + (-p) \in Int
  BY <1>1, <1>2, CongSelf, CongSum DEF x
<1>4. x + (-p) = x - p /\ (p + F) + (-p) = F
  BY <1>1, <1>2 DEF x
<1>5. (x - p) % n \in Scalar /\ Cong(n, (x - p) % n, F)
  BY <1>3, <1>4, CongReduce DEF Cong
<1> QED BY <1>5, CongScalars DEF x

\* With an adaptor the aggregate becomes a signature with the adaptor's secret
\* only, and the signature gives that secret away.
LEMMA AcceptedCompletes ==
  ASSUME NEW ctx, IsContext(ctx), SessionValues(ctx).err = "ok",
         ~SessionValues(ctx).placeholder, ctx.adaptor # NoAdaptor,
         NEW nonces, DOMAIN nonces = DOMAIN ctx.pks,
         \A j \in DOMAIN ctx.pks : nonces[j] \in ExtEncoding \X ExtEncoding,
         NonceAgg(nonces).err = "ok", ctx.aggNonce = NonceAgg(nonces).R,
         NEW s \in [DOMAIN ctx.pks -> Scalar],
         \A j \in DOMAIN ctx.pks : PartialSigVerify_(s[j], nonces[j], ctx.pks[j], ctx) = "true",
         NEW t \in Finite
  PROVE  CompletesWith(PartialSigAggAdaptor(s, ctx), t, ctx)
<1> DEFINE v == SessionValues(ctx)
           agg == AggS(s, ctx)
           R == v.R
           Q == v.Q
           e == v.e
           T == ctx.adaptor
           xR == XOnly(R)
           xQ == XOnly(Q)
           F == FlipIfOdd(R, t)
           p == agg.s
           z == (p + F) % n
           msg == ctx.msg
<1>1. agg.r = xR /\ p \in Scalar
      /\ Cong(n, p, SignY(R) * (R - T) + e * xQ)
  BY AggregateEquation DEF AdaptorPoint
<1>2. R \in Finite /\ Q \in Finite /\ e \in Scalar
  BY SessionValuesGood DEF IsValues
<1>3. e = Challenge[xR, xQ, msg] /\ e # 0 /\ T \in Finite
  BY SessionValuesAre
<1>4. PartialSigAggAdaptor(s, ctx) = agg
  BY DEF PartialSigAggAdaptor
<1>5. Adapt(agg, t, ctx) = [r |-> xR, s |-> z]
  BY <1>1 DEF Adapt
<1>6. SignatureVerifies(Adapt(agg, t, ctx), ctx) <=> SchnorrVerifies(xQ, msg, xR, z)
  BY <1>5 DEF SignatureVerifies
<1>7. ExtractAdaptor(Adapt(agg, t, ctx), agg, ctx) = FlipIfOdd(R, (z - p) % n)
  BY <1>5 DEF ExtractAdaptor
<1> HIDE DEF v, agg, R, Q, e, T, p, msg
<1>8. F \in Scalar /\ FlipIfOdd(R, F) = t
  BY FlipTwice
<1>9. t \in Int /\ t \in Scalar /\ T \in Scalar /\ Mult(t, G) = t
  <2>0. \A x \in Finite : x \in Int /\ x \in Scalar
    BY DEF Finite, Point, Scalar
  <2>1. t \in Int /\ t \in Scalar /\ T \in Scalar
    BY <1>3, <2>0, Zenon
  <2>2. t * 1 = t /\ t % n = t
    BY <2>1, OrderPositive DEF Scalar
  <2> QED BY <2>1, <2>2 DEF Mult, G
<1>10. Cong(n, F, SignY(R) * t)
  BY <1>9, FlipCong
<1>11. R \in Int /\ e \in Int /\ xQ \in Int /\ xR \in Int /\ Cong(n, xR, SignY(R) * R)
  BY <1>2, XOnlyCong DEF Finite, Point, Scalar
<1> HIDE DEF xR, xQ, F
<1>12. (z - p) % n = F
  BY <1>1, <1>8, DifferenceGivesBack
<1>13. z \in Scalar
  <2>1. p + F \in Int
    BY <1>1, <1>8 DEF Scalar
  <2> QED BY <2>1, CongReduce
<1>14. Cong(n, z, xR + e * xQ) <=> t = T
  <2> DEFINE f == SignY(R)
             k == e * xQ
  <2>1. f \in Int /\ f * f = 1 /\ k \in Int /\ p \in Int /\ F \in Int
    BY <1>1, <1>8, <1>11 DEF SignY, Scalar
  <2>2. Cong(n, p, f * (R - T) + k) /\ Cong(n, F, f * t) /\ Cong(n, xR, f * R)
    BY <1>1, <1>10, <1>11
  <2> HIDE DEF f, k
  <2>3. Cong(n, (p + F) % n, xR + k) <=> t = T
    <3>1. t \in Scalar /\ T \in Scalar /\ R \in Int /\ xR \in Int
      BY <1>9, <1>11
    <3> HIDE DEF z
    <3> QED BY <2>1, <2>2, <3>1, AdaptArithmetic, SMTT(30)
  <2> QED BY <2>3 DEF k
<1> HIDE DEF z
<1>15. SchnorrVerifies(xQ, msg, xR, z) <=> Cong(n, z, xR + e * xQ)
  <2>1. Challenge[XOnly(R), XOnly(Q), msg] \in Scalar \ {0}
    BY <1>2, <1>3 DEF xR, xQ
  <2>2. SchnorrVerifies(XOnly(Q), msg, XOnly(R), z)
          <=> Cong(n, z, XOnly(R) + Challenge[XOnly(R), XOnly(Q), msg] * XOnly(Q))
    BY <1>2, <1>13, <2>1, SchnorrEquation
  <2> QED BY <1>3, <2>2 DEF xR, xQ
<1>16. SignatureVerifies(Adapt(agg, t, ctx), ctx) <=> Mult(t, G) = ctx.adaptor
  BY <1>6, <1>9, <1>14, <1>15 DEF T
<1>17. ExtractAdaptor(Adapt(agg, t, ctx), agg, ctx) = t
  BY <1>7, <1>8, <1>12
<1> QED BY <1>4, <1>16, <1>17 DEF CompletesWith

-----------------------------------------------------------------------------
(***************************************************************************)
(* The sessions: whose nonces they aggregate.                              *)
(***************************************************************************)
NoncesOf(ctx) == [j \in DOMAIN ctx.slots |-> pubNonce[ctx.slots[j]]]

\* A session opened on the nonces of some slots has one for each key, all of
\* them published, and its aggregate nonce is theirs.
Matched(ctx) ==
  ctx.slots # << >> =>
    /\ DOMAIN ctx.slots = DOMAIN ctx.pks
    /\ \A j \in DOMAIN ctx.slots : Published(ctx.slots[j])
    /\ NonceAgg(NoncesOf(ctx)).err = "ok"
    /\ ctx.aggNonce = NonceAgg(NoncesOf(ctx)).R

\* The invariant of the sessions: a published nonce is never replaced, so what
\* nonce_agg made of the nonces of a session stays the aggregate of what the
\* slots hold.
SessionsMatch == \A i \in DOMAIN sessions : Matched(sessions[i])

\* A session is a context that names slots and keys.
LEMMA SlotsOfSession ==
  ASSUME TypeOK, NEW i \in DOMAIN sessions
  PROVE  /\ IsContext(sessions[i]) /\ sessions[i].slots \in Seq(Slot)
         /\ sessions[i].pks \in Seq(Encoding)
<1>1. sessions \in Seq(SessionSet)
  BY DEF TypeOK, SessionSet
<1>2. sessions[i] \in SessionSet
  BY <1>1
<1>3. \A ctx \in SessionSet : ctx.slots \in Seq(Slot) /\ ctx.pks \in KeyLists
  BY DEF SessionSet
<1> QED BY <1>2, <1>3, SessionIsContext, MuSig2Assumption DEF KeyLists

\* A step that changes the nonce of no published slot keeps a session matched.
LEMMA MatchedStays ==
  ASSUME NEW ctx, ctx.slots \in Seq(Slot), Matched(ctx),
         \A slot \in Slot : Published(slot) => pubNonce'[slot] = pubNonce[slot]
  PROVE  Matched(ctx)'
<1> SUFFICES ASSUME ctx.slots # << >> PROVE Matched(ctx)'
  BY DEF Matched
<1>1. \A j \in DOMAIN ctx.slots : ctx.slots[j] \in Slot
  OBVIOUS
<1>2. \A j \in DOMAIN ctx.slots : pubNonce'[ctx.slots[j]] = pubNonce[ctx.slots[j]]
                                  /\ Published(ctx.slots[j])
  BY <1>1 DEF Matched
<1>3. NoncesOf(ctx)' = NoncesOf(ctx)
  BY <1>2 DEF NoncesOf
<1>4. \A j \in DOMAIN ctx.slots : Published(ctx.slots[j])'
  BY <1>2 DEF Published
<1> QED BY <1>3, <1>4 DEF Matched

\* A step that starts no session leaves the sessions matched.
LEMMA SessionsMatchStays ==
  ASSUME TypeOK, SessionsMatch,
         \A slot \in Slot : Published(slot) => pubNonce'[slot] = pubNonce[slot],
         sessions' = sessions \/ \E ctx : sessions' = Append(sessions, ctx) /\ Matched(ctx)'
  PROVE  SessionsMatch'
<1>1. \A ctx : (\E i \in DOMAIN sessions : sessions[i] = ctx) => Matched(ctx)'
  BY SlotsOfSession, MatchedStays DEF SessionsMatch
<1>2. CASE sessions' = sessions
  BY <1>1, <1>2 DEF SessionsMatch
<1>3. ASSUME NEW ctx, sessions' = Append(sessions, ctx), Matched(ctx)'
      PROVE  SessionsMatch'
  <2>1. sessions \in Seq(SessionSet)
    BY DEF TypeOK, SessionSet
  <2>2. \A i \in DOMAIN sessions' : i \in DOMAIN sessions \/ i = Len(sessions) + 1
    BY <1>3, <2>1
  <2>3. \A i \in DOMAIN sessions : sessions'[i] = sessions[i]
    BY <1>3, <2>1, AppendKeeps
  <2>4. sessions'[Len(sessions) + 1] = ctx
    BY <1>3, <2>1
  <2>5. \A i \in DOMAIN sessions' : Matched(sessions[i])'
    <3> SUFFICES ASSUME NEW i \in DOMAIN sessions' PROVE Matched(sessions[i])'
      OBVIOUS
    <3>1. CASE i \in DOMAIN sessions
      <4>1. PICK old : old = sessions[i]
        OBVIOUS
      <4>2. Matched(old)'
        BY <1>1, <3>1, <4>1
      <4> QED BY <2>3, <3>1, <4>1, <4>2
    <3>2. CASE i = Len(sessions) + 1
      BY <1>3, <2>4, <3>2
    <3> QED BY <2>2, <3>1, <3>2
  <2> QED BY <2>5 DEF SessionsMatch
<1> QED BY <1>2, <1>3

\* There is no session yet.
LEMMA InitSessionsMatch == Init => SessionsMatch
BY DEF Init, SessionsMatch

\* Whoever starts a session aggregates the nonces it names (musig2.py:660-735).
LEMMA NextSessionsMatch == TypeOK /\ SessionsMatch /\ [Next]_vars => SessionsMatch'
<1> SUFFICES ASSUME TypeOK, SessionsMatch, [Next]_vars PROVE SessionsMatch'
  OBVIOUS
<1>1. CASE \E slot \in Slot, pair \in NoncePairs, pk \in PrvKeys : NonceGen(slot, pair, pk)
  <2>1. PICK slot \in Slot, pair \in NoncePairs, pk \in PrvKeys : NonceGen(slot, pair, pk)
    BY <1>1
  <2>2. ~Published(slot) /\ sessions' = sessions
        /\ \A t \in Slot \ {slot} : pubNonce'[t] = pubNonce[t]
    BY <2>1 DEF NonceGen, TypeOK
  <2> QED BY <2>2, SessionsMatchStays
<1>2. CASE \E slot \in Slot, nonce \in ForeignPubNonce : ReceivePubNonce(slot, nonce)
  <2>1. PICK slot \in Slot, nonce \in ForeignPubNonce : ReceivePubNonce(slot, nonce)
    BY <1>2
  <2>2. ~Published(slot) /\ sessions' = sessions
        /\ \A t \in Slot \ {slot} : pubNonce'[t] = pubNonce[t]
    BY <2>1 DEF ReceivePubNonce, TypeOK
  <2> QED BY <2>2, SessionsMatchStays
<1>3. CASE \E plan \in Plans : \E slots \in [DOMAIN plan.pks -> Slot] : OpenSession(plan, slots)
  <2>1. PICK plan \in Plans : \E slots \in [DOMAIN plan.pks -> Slot] : OpenSession(plan, slots)
    BY <1>3
  <2>2. PICK slots \in [DOMAIN plan.pks -> Slot] : OpenSession(plan, slots)
    BY <2>1
  <2> DEFINE nonces == [i \in DOMAIN slots |-> pubNonce[slots[i]]]
             agg == NonceAgg(nonces)
  <2>3. PICK ctx : ctx = Session(plan, agg.R, slots)
    OBVIOUS
  <2>4. /\ \A i \in DOMAIN slots : Published(slots[i])
        /\ sessions' = IF agg.err = "ok" THEN Append(sessions, ctx) ELSE sessions
        /\ pubNonce' = pubNonce
    BY <2>2, <2>3 DEF OpenSession
  <2>5. ctx.slots = slots /\ ctx.pks = plan.pks /\ ctx.aggNonce = agg.R
    BY <2>3 DEF Session
  <2>6. agg.err = "ok" => Matched(ctx)
    <3> HIDE DEF agg
    <3>1. NoncesOf(ctx) = nonces
      BY <2>5 DEF NoncesOf
    <3> QED BY <2>4, <2>5, <3>1 DEF Matched, agg
  <2>7. agg.err = "ok" => Matched(ctx)'
    BY <2>4, <2>6 DEF Matched, NoncesOf, Published
  <2> HIDE DEF agg
  <2> QED BY <2>4, <2>7, SessionsMatchStays
<1>4. CASE \E plan \in Plans, nonce \in ForeignNonce : OpenForeignSession(plan, nonce)
  <2>1. PICK plan \in Plans, nonce \in ForeignNonce : OpenForeignSession(plan, nonce)
    BY <1>4
  <2>2. sessions' = Append(sessions, Session(plan, nonce, << >>)) /\ pubNonce' = pubNonce
    BY <2>1 DEF OpenForeignSession
  <2>3. Matched(Session(plan, nonce, << >>))'
    BY DEF Matched, Session
  <2> QED BY <2>2, <2>3, SessionsMatchStays
<1>5. CASE UNCHANGED <<pubNonce, sessions>>
  BY <1>5, SessionsMatchStays
<1>6. CASE \E slot \in Slot, d_ \in PrvKeys \cup {0}, i \in DOMAIN sessions : Sign(slot, d_, i)
  BY <1>5, <1>6 DEF Sign
<1>7. CASE \E d_ \in PrvKeys, pair \in NoncePairs, plan \in Plans, other \in ForeignNonce :
             DeterministicSign(d_, pair, plan, other)
  <2>1. PICK d_ \in PrvKeys, pair \in NoncePairs, plan \in Plans, other \in ForeignNonce :
               DeterministicSign(d_, pair, plan, other)
    BY <1>7, Zenon
  <2>2. UNCHANGED <<secNonce, pubNonce, sessions, psigs>>
    BY <2>1, DeterministicSignFrame, Zenon
  <2> QED BY <1>5, <2>2
<1>8. CASE UNCHANGED vars
  BY <1>5, <1>8 DEF vars
<1> QED BY <1>1, <1>2, <1>3, <1>4, <1>6, <1>7, <1>8 DEF Next

\* Whatever is published, received, signed or refused after a session was opened,
\* its aggregate nonce stays that of the nonces published under its slots.
THEOREM SessionsAlwaysMatch == Spec => []SessionsMatch
<1> QED BY InitSessionsMatch, NextSessionsMatch, TypeCorrect, PTL DEF Spec

\* What the invariant says of a session with slots.
LEMMA MatchedSession ==
  ASSUME TypeOK, SessionsMatch, NEW i \in DOMAIN sessions, sessions[i].slots # << >>
  PROVE  LET ctx == sessions[i]
             nonces == NoncesOf(ctx)
         IN  /\ IsContext(ctx)
             /\ DOMAIN ctx.slots = DOMAIN ctx.pks
             /\ DOMAIN nonces = DOMAIN ctx.pks
             /\ \A j \in DOMAIN ctx.pks : /\ nonces[j] = pubNonce[ctx.slots[j]]
                                          /\ nonces[j] \in ExtEncoding \X ExtEncoding
             /\ NonceAgg(nonces).err = "ok" /\ ctx.aggNonce = NonceAgg(nonces).R
<1>1. Matched(sessions[i]) /\ IsContext(sessions[i]) /\ sessions[i].slots \in Seq(Slot)
  BY SlotsOfSession DEF SessionsMatch
<1> DEFINE ctx == sessions[i]
<1> HIDE DEF ctx
<1>2. /\ DOMAIN ctx.slots = DOMAIN ctx.pks /\ ctx.slots \in Seq(Slot) /\ IsContext(ctx)
      /\ NonceAgg(NoncesOf(ctx)).err = "ok" /\ ctx.aggNonce = NonceAgg(NoncesOf(ctx)).R
  BY <1>1 DEF Matched, ctx
<1>3. \A j \in DOMAIN ctx.pks : ctx.slots[j] \in Slot
  BY <1>2
<1>4. pubNonce \in [Slot -> ExtEncoding \X ExtEncoding]
  BY DEF TypeOK
<1>5. DOMAIN NoncesOf(ctx) = DOMAIN ctx.pks
      /\ \A j \in DOMAIN ctx.pks : /\ NoncesOf(ctx)[j] = pubNonce[ctx.slots[j]]
                                   /\ NoncesOf(ctx)[j] \in ExtEncoding \X ExtEncoding
  BY <1>2, <1>3, <1>4 DEF NoncesOf
<1> QED BY <1>2, <1>5 DEF ctx

\* If every partial signature of a session passes its own verification, the
\* aggregate is a BIP340 signature of the aggregate key: for every group, every
\* list of keys, every sequence of tweaks, every number of signers and every
\* value of the hashes.  So when the aggregate is invalid one of the signers is
\* caught.
THEOREM AbortIsIdentifiable == Spec => []IdentifiableAbort
<1>1. TypeOK /\ SessionsMatch => IdentifiableAbort
  <2> SUFFICES ASSUME TypeOK, SessionsMatch, NEW i \in DOMAIN sessions,
                      Regular(sessions[i]), sessions[i].adaptor = NoAdaptor,
                      NEW s \in [DOMAIN sessions[i].pks -> Scalar],
                      AllAccepted(s, sessions[i])
               PROVE  IsValid(PartialSigAgg(s, sessions[i]), sessions[i])
    BY DEF IdentifiableAbort
  <2> DEFINE ctx == sessions[i]
             nonces == NoncesOf(ctx)
  <2>1. ctx.slots # << >> /\ SessionValues(ctx).err = "ok" /\ ~SessionValues(ctx).placeholder
    BY DEF Regular
  <2>2. /\ IsContext(ctx)
        /\ DOMAIN nonces = DOMAIN ctx.pks
        /\ \A j \in DOMAIN ctx.pks : /\ nonces[j] = pubNonce[ctx.slots[j]]
                                     /\ nonces[j] \in ExtEncoding \X ExtEncoding
        /\ NonceAgg(nonces).err = "ok" /\ ctx.aggNonce = NonceAgg(nonces).R
    BY <2>1, MatchedSession
  <2>3. \A j \in DOMAIN ctx.pks : PartialSigVerify_(s[j], nonces[j], ctx.pks[j], ctx) = "true"
    BY <2>2 DEF AllAccepted
  <2>4. ctx.adaptor = NoAdaptor /\ s \in [DOMAIN ctx.pks -> Scalar]
    OBVIOUS
  <2> HIDE DEF ctx, nonces
  <2>5. IsValid(PartialSigAgg(s, ctx), ctx)
    BY <2>1, <2>2, <2>3, <2>4, AcceptedAggregates
  <2> QED BY <2>5 DEF ctx
<1> QED BY <1>1, TypeCorrect, SessionsAlwaysMatch, PTL

\* With an adaptor the aggregate of accepted partial signatures is completed by
\* the adaptor's secret and by no other scalar, and the completed signature gives
\* that secret away, for every parity of the nonce and of the keys.
THEOREM AdaptorAlwaysCompletes == Spec => []AdaptorCompletes
<1>1. TypeOK /\ SessionsMatch => AdaptorCompletes
  <2> SUFFICES ASSUME TypeOK, SessionsMatch, NEW i \in DOMAIN sessions,
                      Regular(sessions[i]), sessions[i].adaptor # NoAdaptor,
                      NEW s \in [DOMAIN sessions[i].pks -> Scalar],
                      AllAccepted(s, sessions[i]), NEW t \in Finite
               PROVE  CompletesWith(PartialSigAggAdaptor(s, sessions[i]), t, sessions[i])
    BY DEF AdaptorCompletes
  <2> DEFINE ctx == sessions[i]
             nonces == NoncesOf(ctx)
  <2>1. ctx.slots # << >> /\ SessionValues(ctx).err = "ok" /\ ~SessionValues(ctx).placeholder
    BY DEF Regular
  <2>2. /\ IsContext(ctx)
        /\ DOMAIN nonces = DOMAIN ctx.pks
        /\ \A j \in DOMAIN ctx.pks : /\ nonces[j] = pubNonce[ctx.slots[j]]
                                     /\ nonces[j] \in ExtEncoding \X ExtEncoding
        /\ NonceAgg(nonces).err = "ok" /\ ctx.aggNonce = NonceAgg(nonces).R
    BY <2>1, MatchedSession
  <2>3. \A j \in DOMAIN ctx.pks : PartialSigVerify_(s[j], nonces[j], ctx.pks[j], ctx) = "true"
    BY <2>2 DEF AllAccepted
  <2>4. ctx.adaptor # NoAdaptor /\ s \in [DOMAIN ctx.pks -> Scalar]
    OBVIOUS
  <2> HIDE DEF ctx, nonces
  <2>5. CompletesWith(PartialSigAggAdaptor(s, ctx), t, ctx)
    BY <2>1, <2>2, <2>3, <2>4, AcceptedCompletes
  <2> QED BY <2>5 DEF ctx
<1> QED BY <1>1, TypeCorrect, SessionsAlwaysMatch, PTL

-----------------------------------------------------------------------------
(***************************************************************************)
(* The two verifiers, and who is blamed.                                   *)
(***************************************************************************)

\* Two contexts with the same keys, tweaks, message, adaptor and aggregate nonce
\* are one to the verifier.
LEMMA SameContextSameVerdict ==
  ASSUME NEW c, NEW d, c.pks = d.pks, c.tweaks = d.tweaks, c.msg = d.msg,
         c.adaptor = d.adaptor, c.aggNonce = d.aggNonce, NEW s, NEW nonce, NEW pk
  PROVE  PartialSigVerify_(s, nonce, pk, c) = PartialSigVerify_(s, nonce, pk, d)
<1>1. SessionValues(c) = SessionValues(d)
  BY DEF SessionValues, SessionOf
<1>2. IsSigner(c, pk) <=> IsSigner(d, pk)
  BY DEF IsSigner
<1>3. \A v : VerifyShare(v, s, nonce, pk, c) = VerifyShare(v, s, nonce, pk, d)
  BY <1>2, Zenon DEF VerifyShare
<1> QED BY <1>1, <1>3 DEF PartialSigVerify_

\* partial_sig_verify, which aggregates the nonces anew, gives the answer of
\* partial_sig_verify_ in the session, whenever it is asked.
THEOREM WrapperAlwaysAgrees == Spec => []WrapperAgrees
<1>1. TypeOK /\ SessionsMatch => WrapperAgrees
  <2> SUFFICES ASSUME TypeOK, SessionsMatch, NEW i \in DOMAIN sessions,
                      sessions[i].adaptor = NoAdaptor,
                      NEW j \in DOMAIN sessions[i].slots, NEW s \in 0..n
               PROVE  LET ctx == sessions[i]
                          nonces == NoncesOf(ctx)
                      IN  PartialSigVerify(s, nonces, ctx.pks, ctx.tweaks, ctx.msg, j)
                            = PartialSigVerify_(s, nonces[j], ctx.pks[j], ctx)
    BY DEF WrapperAgrees, NoncesOf
  <2> DEFINE ctx == sessions[i]
             nonces == NoncesOf(ctx)
             agg == NonceAgg(nonces)
             own == [pks |-> ctx.pks, tweaks |-> ctx.tweaks, msg |-> ctx.msg,
                     adaptor |-> NoAdaptor, aggNonce |-> agg.R]
  <2>1. ctx.slots # << >>
    OBVIOUS
  <2>2. /\ DOMAIN ctx.slots = DOMAIN ctx.pks
        /\ DOMAIN nonces = DOMAIN ctx.pks
        /\ agg.err = "ok" /\ ctx.aggNonce = agg.R
    BY <2>1, MatchedSession
  <2>3. ctx.pks \in Seq(Encoding)
    BY SlotsOfSession
  <2>4. Len(nonces) = Len(ctx.pks) /\ j \in DOMAIN ctx.pks
    <3>1. DOMAIN nonces = 1..Len(ctx.pks) /\ Len(ctx.pks) \in Nat
      BY <2>2, <2>3
    <3> QED BY <2>2, <3>1, LenOfFunction
  <2>5. PartialSigVerify(s, nonces, ctx.pks, ctx.tweaks, ctx.msg, j)
          = PartialSigVerify_(s, nonces[j], ctx.pks[j], own)
    <3> HIDE DEF ctx, nonces
    <3>1. PartialSigVerify(s, nonces, ctx.pks, ctx.tweaks, ctx.msg, j)
            = IF Len(nonces) # Len(ctx.pks) \/ j \notin DOMAIN ctx.pks \/ agg.err # "ok"
              THEN "raises" ELSE PartialSigVerify_(s, nonces[j], ctx.pks[j], own)
      BY DEF PartialSigVerify
    <3> QED BY <2>2, <2>4, <3>1
  <2>6. /\ own.pks = ctx.pks /\ own.tweaks = ctx.tweaks /\ own.msg = ctx.msg
        /\ own.adaptor = ctx.adaptor /\ own.aggNonce = ctx.aggNonce
    BY <2>2
  <2> HIDE DEF own, ctx, nonces
  <2>7. PartialSigVerify_(s, nonces[j], ctx.pks[j], own)
          = PartialSigVerify_(s, nonces[j], ctx.pks[j], ctx)
    BY <2>6, SameContextSameVerdict
  <2> QED BY <2>5, <2>7 DEF ctx, nonces
<1> QED BY <1>1, TypeCorrect, SessionsAlwaysMatch, PTL

\* The nonce nonce_agg blames has a half that does not parse.
LEMMA BlamedNonceIsBad ==
  ASSUME NEW nonces, NEW m \in Nat, DOMAIN nonces = 1..m, NonceAgg(nonces).err = "pubnonce"
  PROVE  LET who == NonceAgg(nonces).who IN
         who \in 1..m /\ (nonces[who][1] = Bad \/ nonces[who][2] = Bad)
<1> DEFINE h1 == [j \in DOMAIN nonces |-> nonces[j][1]]
           h2 == [j \in DOMAIN nonces |-> nonces[j][2]]
           error(who) == [err |-> "pubnonce", who |-> who, R |-> <<INF, INF>>]
           good == [err |-> "ok", who |-> 0, R |-> <<SumAll(h1), SumAll(h2)>>]
<1>1. NonceAgg(nonces) = IF ~AllParse(h1) THEN error(FirstBad(h1))
                         ELSE IF ~AllParse(h2) THEN error(FirstBad(h2))
                         ELSE good
  BY DEF NonceAgg
<1>2. good.err = "ok" /\ \A who : error(who).who = who
  OBVIOUS
<1>3. DOMAIN h1 = 1..m /\ DOMAIN h2 = 1..m
      /\ \A j \in 1..m : h1[j] = nonces[j][1] /\ h2[j] = nonces[j][2]
  OBVIOUS
<1> HIDE DEF h1, h2, error, good
<1>4. CASE ~AllParse(h1)
  <2>1. FirstBad(h1) \in 1..m /\ h1[FirstBad(h1)] = Bad
    BY <1>3, <1>4, FirstBadIsBad
  <2> QED BY <1>1, <1>2, <1>3, <1>4, <2>1
<1>5. CASE AllParse(h1) /\ ~AllParse(h2)
  <2>1. FirstBad(h2) \in 1..m /\ h2[FirstBad(h2)] = Bad
    BY <1>3, <1>5, FirstBadIsBad
  <2> QED BY <1>1, <1>2, <1>3, <1>5, <2>1
<1>6. CASE AllParse(h1) /\ AllParse(h2)
  BY <1>1, <1>2, <1>6
<1> QED BY <1>4, <1>5, <1>6

\* A partial signature the aggregation blames is not less than n.
LEMMA BlamedShareIsTooBig ==
  ASSUME NEW s \in Nat, NEW t \in Scalar, NEW v, v.err # "psig",
         Aggregate(<<s, t>>, v).err = "psig"
  PROVE  Aggregate(<<s, t>>, v).who = 1
<1> DEFINE psig == <<s, t>>
           tooBig == {i \in DOMAIN psig : psig[i] >= n}
           first == CHOOSE i \in tooBig : \A j \in tooBig : i <= j
           error(err, who) == [err |-> err, who |-> who, r |-> INF, s |-> 0]
           good == [err |-> "ok", who |-> 0, r |-> XOnly(v.R),
                    s |-> (SumAll(psig) + v.e * SignOf(v) * v.tacc) % n]
<1>1. Aggregate(psig, v) = IF v.err # "ok" THEN error(v.err, v.who)
                           ELSE IF tooBig # {} THEN error("psig", first)
                           ELSE good
  BY DEF Aggregate
<1>2. good.err = "ok" /\ \A err, who : error(err, who).err = err /\ error(err, who).who = who
  OBVIOUS
<1>3. tooBig \subseteq {1}
  <2>1. DOMAIN psig = {1, 2} /\ psig[2] = t /\ ~(t >= n)
    BY OrderPositive DEF Scalar
  <2> QED BY <2>1
<1> HIDE DEF good, error, tooBig
<1>4. tooBig # {} /\ Aggregate(psig, v) = error("psig", first)
  <2>1. v.err = "ok"
    BY <1>1, <1>2
  <2>2. tooBig # {}
    BY <1>1, <1>2, <2>1
  <2> QED BY <1>1, <2>1, <2>2
<1>5. tooBig = {1}
  BY <1>3, <1>4
<1>6. first = 1
  BY <1>5
<1> HIDE DEF first, psig
<1>7. Aggregate(psig, v).who = first
  BY <1>2, <1>4
<1> QED BY <1>6, <1>7 DEF psig

\* No error of nonce_agg or of the aggregation ever names a signer whose nonce
\* came out of nonce_gen, whose partial signature came out of sign.
THEOREM HonestSignerNeverBlamed == Spec => []HonestNeverBlamed
<1>1. TypeOK /\ BuffersMatch => HonestNeverBlamed
  <2> SUFFICES ASSUME TypeOK, BuffersMatch PROVE HonestNeverBlamed
    OBVIOUS
  <2>1. ASSUME NEW slots \in [1..2 -> Slot],
               NonceAgg([i \in DOMAIN slots |-> pubNonce[slots[i]]]).err = "pubnonce"
        PROVE  ~HasBuffer(slots[NonceAgg([i \in DOMAIN slots |-> pubNonce[slots[i]]]).who])
    <3> DEFINE nonces == [i \in DOMAIN slots |-> pubNonce[slots[i]]]
               who == NonceAgg(nonces).who
    <3>1. DOMAIN nonces = 1..2 /\ \A i \in 1..2 : nonces[i] = pubNonce[slots[i]]
      OBVIOUS
    <3>2. NonceAgg(nonces).err = "pubnonce"
      BY <2>1
    <3> HIDE DEF nonces
    <3>3. who \in 1..2 /\ (nonces[who][1] = Bad \/ nonces[who][2] = Bad)
      BY <3>1, <3>2, BlamedNonceIsBad
    <3> HIDE DEF who
    <3>4. slots[who] \in Slot /\ pubNonce[slots[who]] \notin Finite \X Finite
      <4>1. \A k \in Finite : k # Bad
        BY MuSig2Assumption DEF Finite, Point
      <4> QED BY <3>1, <3>3, <4>1
    <3>5. ~HasBuffer(slots[who])
      BY <3>4 DEF BuffersMatch
    <3> QED BY <3>5 DEF who, nonces
  <2>2. ASSUME NEW p \in psigs, NEW s \in 0..n,
               AggS(<<s, p.s>>, sessions[p.session]).err = "psig"
        PROVE  AggS(<<s, p.s>>, sessions[p.session]).who = 1
    <3> DEFINE v == SessionValues(sessions[p.session])
    <3>1. p.session \in DOMAIN sessions /\ p.s \in Scalar
      BY DEF TypeOK
    <3>2. IsContext(sessions[p.session])
      BY <3>1, SlotsOfSession
    <3>3. v.err \in Outcomes
      BY <3>2, SessionValuesGood
    <3>4. v.err # "psig"
      BY <3>3 DEF Outcomes
    <3>5. s \in Nat
      BY OrderPositive
    <3>6. Aggregate(<<s, p.s>>, v).err = "psig"
      BY <2>2 DEF AggS
    <3> HIDE DEF v
    <3>7. Aggregate(<<s, p.s>>, v).who = 1
      BY <3>1, <3>4, <3>5, <3>6, BlamedShareIsTooBig
    <3> QED BY <3>7 DEF AggS, v
  <2> QED BY <2>1, <2>2 DEF HonestNeverBlamed
<1> QED BY <1>1, TypeCorrect, BuffersAlwaysMatch, PTL

-----------------------------------------------------------------------------
(***************************************************************************)
(* The calls keep the promise of OneTimeNonce.                             *)
(***************************************************************************)

\* No more sessions are opened than the bound allows: the names the promise has
\* for them suffice.
SessionsBounded == Len(sessions) <= MaxSessions

\* The sessions stay within their bound.
LEMMA NextBounded == TypeOK /\ SessionsBounded /\ [Next]_vars => SessionsBounded'
<1> SUFFICES ASSUME TypeOK, SessionsBounded, [Next]_vars PROVE SessionsBounded'
  OBVIOUS
<1>1. ASSUME NEW ctx, Len(sessions) < MaxSessions, sessions' = Append(sessions, ctx)
      PROVE  SessionsBounded'
  <2>1. sessions \in Seq(SessionSet)
    BY DEF TypeOK, SessionSet
  <2>2. Len(sessions') = Len(sessions) + 1 /\ Len(sessions) \in Nat
    BY <1>1, <2>1
  <2> QED BY <1>1, <2>2, MuSig2Assumption DEF SessionsBounded
<1>2. CASE UNCHANGED sessions
  BY <1>2 DEF SessionsBounded
<1>3. CASE \E slot \in Slot, pair \in NoncePairs, pk \in PrvKeys : NonceGen(slot, pair, pk)
  BY <1>2, <1>3 DEF NonceGen
<1>4. CASE \E slot \in Slot, nonce \in ForeignPubNonce : ReceivePubNonce(slot, nonce)
  BY <1>2, <1>4 DEF ReceivePubNonce
<1>5. CASE \E plan \in Plans : \E slots \in [DOMAIN plan.pks -> Slot] : OpenSession(plan, slots)
  BY <1>1, <1>2, <1>5 DEF OpenSession
<1>6. CASE \E plan \in Plans, nonce \in ForeignNonce : OpenForeignSession(plan, nonce)
  BY <1>1, <1>6 DEF OpenForeignSession
<1>7. CASE \E slot \in Slot, d_ \in PrvKeys \cup {0}, i \in DOMAIN sessions : Sign(slot, d_, i)
  BY <1>2, <1>7 DEF Sign
<1>8. CASE \E d_ \in PrvKeys, pair \in NoncePairs, plan \in Plans, other \in ForeignNonce :
             DeterministicSign(d_, pair, plan, other)
  <2>1. PICK d_ \in PrvKeys, pair \in NoncePairs, plan \in Plans, other \in ForeignNonce :
               DeterministicSign(d_, pair, plan, other)
    BY <1>8, Zenon
  <2> QED BY <1>2, <2>1, DeterministicSignFrame, Zenon
<1>9. CASE UNCHANGED vars
  BY <1>2, <1>9 DEF vars
<1> QED BY <1>3, <1>4, <1>5, <1>6, <1>7, <1>8, <1>9 DEF Next

\* The first state is one of the promise.
LEMMA InitPromise == Init => Promise!Init /\ SessionsBounded
<1> SUFFICES ASSUME Init PROVE Promise!Init /\ SessionsBounded
  OBVIOUS
<1>1. NonceState = [slot \in Slot |-> "none"]
  BY DEF Init, NonceState, HasBuffer, NoBuffer
<1>2. Answered = [slot \in Slot |-> {}]
  BY DEF Init, Answered
<1>3. SessionsBounded
  BY MuSig2Assumption DEF Init, SessionsBounded
<1> QED BY <1>1, <1>2, <1>3 DEF Init, Promise!Init

\* What is not said of a nonce is as it was.
LEMMA SameNonces ==
  ASSUME UNCHANGED secNonce
  PROVE  NonceState' = NonceState
BY DEF NonceState, HasBuffer, IsFresh

\* What a step does not answer is neither produced nor spent.
LEMMA SameAnswers ==
  ASSUME UNCHANGED psigs
  PROVE  Answered' = Answered
BY DEF Answered

\* A nonce is made: the promise gains a fresh one.
LEMMA NonceGenKeepsPromise ==
  ASSUME TypeOK, BuffersMatch, NEW slot \in Slot, NEW pair \in NoncePairs, NEW pk \in PrvKeys,
         NonceGen(slot, pair, pk)
  PROVE  Promise!Generate(slot)
<1>1. /\ pair[1] \in Finite /\ pair[2] \in Finite /\ pk \in Finite
  BY NonceGenTyped
<1>2. /\ ~Published(slot) /\ outcome' = "ok" /\ psigs' = psigs
      /\ secNonce' = [secNonce EXCEPT ![slot] = [k_1 |-> pair[1], k_2 |-> pair[2], pk |-> pk]]
  BY DEF NonceGen
<1>3. ~HasBuffer(slot)
  <2>1. NoPubNonce \notin Finite \X Finite
    BY DEF Finite, INF, NoPubNonce
  <2> QED BY <1>2, <2>1 DEF BuffersMatch, Published
<1>4. HasBuffer(slot)' /\ IsFresh(slot)'
  <2>1. secNonce'[slot] = [k_1 |-> pair[1], k_2 |-> pair[2], pk |-> pk]
    BY <1>2 DEF TypeOK
  <2> QED BY <1>1, <2>1 DEF HasBuffer, IsFresh, Finite, INF
<1>5. \A t \in Slot \ {slot} : HasBuffer(t)' = HasBuffer(t) /\ IsFresh(t)' = IsFresh(t)
  BY <1>2 DEF TypeOK, HasBuffer, IsFresh
<1>6. NonceState[slot] = "none"
  BY <1>3 DEF NonceState
<1>7. NonceState' = [NonceState EXCEPT ![slot] = "fresh"]
  BY <1>4, <1>5 DEF NonceState
<1> QED BY <1>2, <1>6, <1>7, SameAnswers DEF Promise!Generate

\* sign answers once with a nonce, or raises and answers nothing.
LEMMA SignKeepsPromise ==
  ASSUME TypeOK, BuffersMatch, SessionsBounded, NEW slot \in Slot,
         NEW d_ \in PrvKeys \cup {0}, NEW i \in DOMAIN sessions, Sign(slot, d_, i)
  PROVE  Promise!Next
<1>1. HasBuffer(slot)
  BY SignCases
<1>2. ASSUME secNonce' = Consumed(slot)
      PROVE  /\ NonceState' = [NonceState EXCEPT ![slot] = "spent"]
             /\ NonceState[slot] = IF IsFresh(slot) THEN "fresh" ELSE "spent"
  <2>1. /\ ~IsFresh(slot)' /\ HasBuffer(slot)'
        /\ \A t \in Slot \ {slot} : HasBuffer(t)' = HasBuffer(t) /\ IsFresh(t)' = IsFresh(t)
    BY <1>1, <1>2 DEF Consumed, TypeOK, IsFresh, HasBuffer
  <2> QED BY <1>1, <2>1 DEF NonceState
<1>3. CASE Refuses(slot, d_, i)
  BY <1>3, SameNonces, SameAnswers DEF Refuses, Promise!Next, Promise!Other
<1>4. CASE Raises(slot, d_, i)
  <2>1. Answered' = Answered
    BY <1>4, SameAnswers DEF Raises
  <2>2. /\ NonceState' = [NonceState EXCEPT ![slot] = "spent"]
        /\ NonceState[slot] = IF IsFresh(slot) THEN "fresh" ELSE "spent"
    BY <1>2, <1>4 DEF Raises
  <2>3. CASE IsFresh(slot)
    <3>1. outcome' \in {"private key", "other key", "not a signer"}
      BY <1>4, <2>3 DEF Raises
    <3>2. Promise!Burn(slot)
      BY <2>1, <2>2, <2>3, <3>1 DEF Promise!Burn
    <3> QED BY <3>2 DEF Promise!Next
  <2>4. CASE ~IsFresh(slot)
    <3>1. NonceState' = NonceState
      BY <2>2, <2>4 DEF NonceState
    <3> QED BY <2>1, <3>1 DEF Promise!Next, Promise!Other
  <2> QED BY <2>3, <2>4
<1>5. CASE Signs(slot, d_, i)
  <2>1. /\ IsFresh(slot) /\ outcome' = "ok" /\ secNonce' = Consumed(slot)
        /\ psigs' = psigs \cup {SignedBy(slot, d_, i)}
    BY <1>5 DEF Signs
  <2>2. SignedBy(slot, d_, i).slot = slot /\ SignedBy(slot, d_, i).session = i
    BY DEF SignedBy
  <2>3. \A p \in psigs : p.slot # slot
    BY <2>1 DEF BuffersMatch
  <2> DEFINE new == SignedBy(slot, d_, i)
  <2> HIDE DEF new
  <2>4. Answered' = [Answered EXCEPT ![slot] = {i}]
    <3>1. \A t \in Slot : {q \in psigs' : q.slot = t}
                            = IF t = slot THEN {new} ELSE {q \in psigs : q.slot = t}
      BY <2>1, <2>2, <2>3 DEF new
    <3>2. {p.session : p \in {new}} = {i}
      BY <2>2 DEF new
    <3>3. Answered' = [t \in Slot |-> {p.session : p \in {q \in psigs' : q.slot = t}}]
      BY DEF Answered
    <3>4. \A t \in Slot : Answered'[t] = IF t = slot THEN {i} ELSE Answered[t]
      BY <3>1, <3>2, <3>3 DEF Answered
    <3> QED BY <3>3, <3>4 DEF Answered
  <2>5. i \in 1..MaxSessions
    <3>1. sessions \in Seq(SessionSet)
      BY DEF TypeOK, SessionSet
    <3>2. i \in 1..Len(sessions) /\ Len(sessions) \in Nat
      BY <3>1
    <3> QED BY <3>2, MuSig2Assumption DEF SessionsBounded
  <2>6. /\ NonceState' = [NonceState EXCEPT ![slot] = "spent"] /\ NonceState[slot] = "fresh"
    BY <1>2, <2>1
  <2>7. Promise!Answer(slot, i)
    BY <2>1, <2>4, <2>6 DEF Promise!Answer
  <2> QED BY <2>5, <2>7 DEF Promise!Next
<1> QED BY <1>3, <1>4, <1>5, SignCases

\* Every step is a step of the promise or none of its.
LEMMA NextKeepsPromise ==
  TypeOK /\ BuffersMatch /\ SessionsBounded /\ [Next]_vars => [Promise!Next]_(Promise!vars)
<1> SUFFICES ASSUME TypeOK, BuffersMatch, SessionsBounded, [Next]_vars
             PROVE  Promise!Next
  OBVIOUS
<1>1. CASE \E slot \in Slot, pair \in NoncePairs, pk \in PrvKeys : NonceGen(slot, pair, pk)
  BY <1>1, NonceGenKeepsPromise DEF Promise!Next
<1>2. CASE UNCHANGED <<secNonce, psigs>>
  BY <1>2, SameNonces, SameAnswers DEF Promise!Next, Promise!Other
<1>3. CASE \E slot \in Slot, nonce \in ForeignPubNonce : ReceivePubNonce(slot, nonce)
  BY <1>2, <1>3 DEF ReceivePubNonce
<1>4. CASE \E plan \in Plans : \E slots \in [DOMAIN plan.pks -> Slot] : OpenSession(plan, slots)
  BY <1>2, <1>4 DEF OpenSession
<1>5. CASE \E plan \in Plans, nonce \in ForeignNonce : OpenForeignSession(plan, nonce)
  BY <1>2, <1>5 DEF OpenForeignSession
<1>6. CASE \E slot \in Slot, d_ \in PrvKeys \cup {0}, i \in DOMAIN sessions : Sign(slot, d_, i)
  BY <1>6, SignKeepsPromise
<1>7. CASE \E d_ \in PrvKeys, pair \in NoncePairs, plan \in Plans, other \in ForeignNonce :
             DeterministicSign(d_, pair, plan, other)
  <2>1. PICK d_ \in PrvKeys, pair \in NoncePairs, plan \in Plans, other \in ForeignNonce :
               DeterministicSign(d_, pair, plan, other)
    BY <1>7, Zenon
  <2> QED BY <1>2, <2>1, DeterministicSignFrame, Zenon
<1>8. CASE UNCHANGED vars
  BY <1>2, <1>8 DEF vars
<1> QED BY <1>1, <1>3, <1>4, <1>5, <1>6, <1>7, <1>8 DEF Next

\* The module implements OneTimeNonce, for any number of nonces and sessions: a
\* nonce is spent by the first call that reads it, answers for at most one
\* session, and survives every refusal.
THEOREM NoncesAreOneTime == Spec => OneTimeNonces
<1>1. Init => Promise!Init /\ SessionsBounded
  BY InitPromise
<1>2. TypeOK /\ SessionsBounded /\ [Next]_vars => SessionsBounded'
  BY NextBounded
<1>3. TypeOK /\ BuffersMatch /\ SessionsBounded /\ [Next]_vars
        => [Promise!Next]_(Promise!vars)
  BY NextKeepsPromise
<1> QED BY <1>1, <1>2, <1>3, TypeCorrect, BuffersAlwaysMatch, PTL
       DEF Spec, OneTimeNonces, Promise!Spec

\* The result of deterministic_sign fits the session in which its nonce is added
\* to the others': the aggregation it does itself is that addition.
LEMMA DeterministicSignAccepted ==
  ASSUME NEW d_ \in PrvKeys, NEW pair \in NoncePairs, NEW plan \in Plans,
         NEW other \in ForeignNonce, DeterministicSign(d_, pair, plan, other),
         DetSigsVerify
  PROVE  DetSigsVerify'
<1> DEFINE key == KeyAggAndTweak(plan.pks, plan.tweaks)
           mine == <<Mult(pair[1], G), Mult(pair[2], G)>>
           parsed == <<IF other[1] = INF THEN Bad ELSE other[1],
                       IF other[2] = INF THEN Bad ELSE other[2]>>
           pubs == <<mine, parsed>>
           agg == NonceAgg(pubs)
           ctx == [pks |-> plan.pks, tweaks |-> plan.tweaks, msg |-> plan.msg,
                   adaptor |-> NoAdaptor, aggNonce |-> agg.R]
           err == IF agg.err = "ok" THEN "ok" ELSE "aggothernonce"
           v == SessionValues(ctx)
           s == PartialSig(v, KeyAggCoeff(plan.pks, d_), pair[1], pair[2], d_)
           new == [pk |-> d_, pubNonce |-> mine, other |-> other, ctx |-> ctx, s |-> s]
           all == <<Add(mine[1], other[1]), Add(mine[2], other[2])>>
<1>1. /\ outcome' = IF key.err # "ok" THEN key.err
                    ELSE IF err # "ok" THEN err
                    ELSE IF v.err # "ok" THEN v.err
                    ELSE IF ~IsSigner(plan, d_) THEN "not a signer"
                    ELSE "ok"
      /\ detSigs' = IF outcome' # "ok" THEN detSigs ELSE detSigs \cup {new}
  BY DEF DeterministicSign, DeterministicSession
<1>2. pair[1] \in Finite /\ pair[2] \in Finite /\ d_ \in Finite
      /\ other \in ExtEncoding \X ExtEncoding
  BY MuSig2Assumption
<1>3. Mult(pair[1], G) = pair[1] /\ Mult(pair[2], G) = pair[2]
  <2>1. \A k \in 0..(n - 1) : k * 1 = k /\ k % n = k
    BY OrderPositive
  <2>2. \A k \in Finite : Mult(k, G) = k
    BY <2>1 DEF Mult, G, Finite, Point, INF
  <2> QED BY <1>2, <2>2
<1>4. CASE outcome' # "ok"
  BY <1>1, <1>4 DEF DetSigsVerify
<1>5. CASE outcome' = "ok"
  <2>1. agg.err = "ok" /\ v.err = "ok" /\ IsSigner(plan, d_) /\ detSigs' = detSigs \cup {new}
    <3> HIDE DEF key, agg, v, new
    <3>1. key.err = "ok" /\ err = "ok" /\ v.err = "ok" /\ IsSigner(plan, d_)
      BY <1>1, <1>5, Zenon
    <3> QED BY <1>1, <1>5, <3>1
  <2>2. DOMAIN pubs = 1..2 /\ pubs[1] = mine /\ pubs[2] = parsed
    OBVIOUS
  <2> DEFINE h1 == [j \in DOMAIN pubs |-> pubs[j][1]]
             h2 == [j \in DOMAIN pubs |-> pubs[j][2]]
             error(who) == [err |-> "pubnonce", who |-> who, R |-> <<INF, INF>>]
             good == [err |-> "ok", who |-> 0, R |-> <<SumAll(h1), SumAll(h2)>>]
  <2>3. agg = IF ~AllParse(h1) THEN error(FirstBad(h1))
              ELSE IF ~AllParse(h2) THEN error(FirstBad(h2))
              ELSE good
    BY DEF NonceAgg
  <2>4. (\A who : error(who).err # "ok") /\ good.R = <<SumAll(h1), SumAll(h2)>>
    OBVIOUS
  <2>5. h1 = <<mine[1], parsed[1]>> /\ h2 = <<mine[2], parsed[2]>>
    OBVIOUS
  <2> HIDE DEF h1, h2, error, good, agg
  <2>6. AllParse(h1) /\ AllParse(h2) /\ agg = good
    BY <2>1, <2>3, <2>4
  <2>7. parsed[1] # Bad /\ parsed[2] # Bad
    BY <2>5, <2>6 DEF AllParse
  <2>8. /\ parsed[1] = other[1] /\ parsed[2] = other[2]
        /\ other[1] \in Finite /\ other[2] \in Finite
    BY <1>2, <2>7 DEF ExtEncoding, Finite
  <2>9. mine[1] = pair[1] /\ mine[2] = pair[2] /\ mine = <<pair[1], pair[2]>>
    BY <1>3
  <2>10. agg.R = all
    <3>1. \A k \in Finite : k \in Point
      BY DEF Finite
    <3>2. SumAll(<<mine[1], other[1]>>) = Add(mine[1], other[1])
          /\ SumAll(<<mine[2], other[2]>>) = Add(mine[2], other[2])
      BY <1>2, <2>8, <2>9, <3>1, SumOfTwo
    <3> QED BY <2>4, <2>5, <2>6, <2>8, <3>2
  <2> HIDE DEF mine, parsed, pubs
  <2>11. IsContext(ctx)
    <3>1. all \in ExtEncoding \X ExtEncoding
      <4>1. mine[1] \in Int /\ mine[2] \in Int /\ other[1] \in Int /\ other[2] \in Int
        BY <1>2, <2>8, <2>9 DEF Finite, Point
      <4>2. Add(mine[1], other[1]) \in Point /\ Add(mine[2], other[2]) \in Point
        BY <4>1, GroupClosed
      <4> QED BY <4>2 DEF ExtEncoding
    <3> HIDE DEF all
    <3> QED BY <2>10, <3>1, PlanFields DEF IsContext
  <2>12. [new.ctx EXCEPT !.aggNonce = all] = ctx
    BY <2>10
  <2>13. /\ new.s = s /\ new.pubNonce = mine /\ new.pk = d_ /\ ctx.pks = plan.pks
         /\ new.other = other
         /\ IsSigner(ctx, d_)
    BY <2>1 DEF IsSigner
  <2>14. PartialSigVerify_(s, <<pair[1], pair[2]>>, d_, ctx) = "true"
    <3> HIDE DEF ctx
    <3>1. PartialSigVerify_(PartialSig(SessionValues(ctx), KeyAggCoeff(ctx.pks, d_), pair[1], pair[2], d_),
                            <<pair[1], pair[2]>>, d_, ctx) = "true"
      BY <1>2, <2>1, <2>11, <2>13, PartialSigAccepted
    <3> QED BY <2>13, <3>1
  <2> HIDE DEF ctx, s, all, v
  <2>15. LET every == <<Add(new.pubNonce[1], new.other[1]), Add(new.pubNonce[2], new.other[2])>>
         IN  PartialSigVerify_(new.s, new.pubNonce, new.pk,
                               [new.ctx EXCEPT !.aggNonce = every]) = "true"
    BY <2>9, <2>12, <2>13, <2>14 DEF all
  <2> HIDE DEF new
  <2> QED BY <2>1, <2>15 DEF DetSigsVerify
<1> QED BY <1>4, <1>5

\* What deterministic_sign returns, partial_sig_verify_ accepts in the session
\* the others open with that public nonce added to theirs.
THEOREM DetSigsAlwaysVerify == Spec => []DetSigsVerify
<1>1. Init => DetSigsVerify
  BY DEF Init, DetSigsVerify
<1>2. DetSigsVerify /\ [Next]_vars => DetSigsVerify'
  <2> SUFFICES ASSUME DetSigsVerify, [Next]_vars PROVE DetSigsVerify'
    OBVIOUS
  <2>1. CASE UNCHANGED detSigs
    BY <2>1 DEF DetSigsVerify
  <2>2. CASE \E slot \in Slot, pair \in NoncePairs, pk \in PrvKeys : NonceGen(slot, pair, pk)
    BY <2>1, <2>2 DEF NonceGen
  <2>3. CASE \E slot \in Slot, nonce \in ForeignPubNonce : ReceivePubNonce(slot, nonce)
    BY <2>1, <2>3 DEF ReceivePubNonce
  <2>4. CASE \E plan \in Plans : \E slots \in [DOMAIN plan.pks -> Slot] : OpenSession(plan, slots)
    BY <2>1, <2>4 DEF OpenSession
  <2>5. CASE \E plan \in Plans, nonce \in ForeignNonce : OpenForeignSession(plan, nonce)
    BY <2>1, <2>5 DEF OpenForeignSession
  <2>6. CASE \E slot \in Slot, d_ \in PrvKeys \cup {0}, i \in DOMAIN sessions : Sign(slot, d_, i)
    BY <2>1, <2>6 DEF Sign
  <2>7. CASE \E d_ \in PrvKeys, pair \in NoncePairs, plan \in Plans, other \in ForeignNonce :
               DeterministicSign(d_, pair, plan, other)
    BY <2>7, DeterministicSignAccepted
  <2>8. CASE UNCHANGED vars
    BY <2>1, <2>8 DEF vars
  <2> QED BY <2>2, <2>3, <2>4, <2>5, <2>6, <2>7, <2>8 DEF Next
<1> QED BY <1>1, <1>2, PTL DEF Spec

============================================================================
