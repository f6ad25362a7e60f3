---------------------------- MODULE SchemeProofs ----------------------------
(***************************************************************************)
(* Theorems about the components that share a group of prime order and are *)
(* small enough not to need a module of proofs each: the chains of tweaks  *)
(* (TweakChain), the Borromean ring signatures (Borromean), the BIE1       *)
(* envelopes (Ecies), the derivations of keying data (KeyDerivation), the  *)
(* numbers drawn from hashes (Nonces) and the octets of ECDSA signatures   *)
(* (DerSig).  They hold for every order of the group and every value of    *)
(* the other constants.                                                    *)
(***************************************************************************)
EXTENDS TweakChain, ArithmeticLemmas, SequenceTheorems

LEMMA OrderPositive == n \in Nat \ {0} /\ n > 2 /\ 0 \in Scalar /\ 1 \in Int
BY OrderAssumption DEF Scalar

-----------------------------------------------------------------------------
(***************************************************************************)
(* Chains of tweaks: what is answered is base + t*G, for every number of   *)
(* chains and every order of the calls.                                    *)
(***************************************************************************)

\* A tweaked point is the sum modulo n, whatever representative the tweak is.
LEMMA TweakAddIsSum ==
  ASSUME NEW P \in Int, NEW t \in Int
  PROVE  TweakAdd(P, t) \in Point /\ TweakAdd(P, t) = (P + t) % n
<1> DEFINE u == t % n
<1>1. n \in Nat \ {0} /\ t * 1 = t
  BY OrderPositive
<1>2. u \in Int /\ Cong(n, u, t)
  BY <1>1, CongMod
<1> HIDE DEF u
<1>3. Cong(n, P, P)
  BY DEF Cong
<1>4. Cong(n, P + u, P + t)
  BY <1>1, <1>2, <1>3, CongAdd
<1>5. (P + u) % n = (P + t) % n
  BY <1>4 DEF Cong
<1>6. TweakAdd(P, t) = (P + u) % n
  BY <1>1 DEF TweakAdd, Add, Mult, G, u
<1>7. P + u \in Int
  BY <1>2
<1>8. (P + u) % n \in 0..(n - 1)
  BY <1>1, <1>7, ModRange
<1> QED BY <1>5, <1>6, <1>8 DEF Point

\* A step by the difference of two tweaks lands where the later tweak is.
LEMMA StepLands ==
  ASSUME NEW base \in Int, NEW tweak \in Int, NEW t \in Int
  PROVE  TweakAdd(Add(base, tweak), (t - tweak) % n) = (base + t) % n
<1> DEFINE far == Add(base, tweak)
           sum == base + tweak
           diff == t - tweak
           step == diff % n
<1>1. n \in Nat \ {0} /\ sum \in Int /\ diff \in Int /\ sum + diff = base + t
  BY OrderPositive
<1>2. far = sum % n
  BY DEF Add
<1> HIDE DEF sum, diff
<1>3. far \in Int /\ Cong(n, far, sum)
  BY <1>1, <1>2, CongMod
<1>4. step \in Int /\ Cong(n, step, diff)
  BY <1>1, CongMod
<1> HIDE DEF far, step
<1>5. Cong(n, far + step, sum + diff)
  BY <1>1, <1>3, <1>4, CongAdd
<1>6. TweakAdd(far, step) = (far + step) % n
  BY <1>3, <1>4, TweakAddIsSum
<1>7. TweakAdd(far, step) = (base + t) % n
  BY <1>1, <1>5, <1>6 DEF Cong
<1> QED BY <1>7 DEF far, step, diff

IsChain(ch) ==
  ch \in [built : BOOLEAN, base : Point, ec : Curves, tweak : Scalar,
          held : BOOLEAN, far : Point]
Stands(ch) == ch.held => ch.far = Add(ch.base, ch.tweak) /\ ch.far # INF

LEMMA StandsDef == ChainStands <=> \A c \in Chain : Stands(chains[c])
BY DEF ChainStands, Stands

\* One call of point: the chain stands where it should after it, and the answer
\* is the one the tweak asked for, whether the step succeeded, failed or was
\* not taken.
LEMMA PointIsRight ==
  ASSUME NEW ch, IsChain(ch), Stands(ch), NEW asked \in Int
  PROVE  /\ IsChain(Moved(ch, asked % n)) /\ Stands(Moved(ch, asked % n))
         /\ Answer(ch, asked % n) \in Point
         /\ Answer(ch, asked % n) = (ch.base + asked) % n
<1> DEFINE t == asked % n
           base == ch.base
           stepped == Stepped(ch, t)
<1>1. n \in Nat \ {0}
  BY OrderPositive
<1>2. t \in Scalar /\ t \in Int /\ Cong(n, t, asked)
  BY <1>1, ModRange, CongMod DEF Scalar
<1>3. base \in Point /\ base \in Int /\ ch.tweak \in Int /\ ch.far \in Int /\ ch.far \in Point
      /\ INF \in Point
  BY <1>1 DEF IsChain, Point, Scalar, INF
<1> HIDE DEF t
<1>4. (base + t) % n = (base + asked) % n
  <2>1. Cong(n, base, base)
    BY DEF Cong
  <2> HIDE DEF base
  <2>2. Cong(n, base + t, base + asked)
    BY <1>1, <1>2, <1>3, <2>1, CongAdd
  <2> QED BY <2>2 DEF Cong
<1>5. TweakAdd(base, t) = (base + t) % n /\ TweakAdd(base, t) \in Point
  <2> HIDE DEF base
  <2> QED BY <1>2, <1>3, TweakAddIsSum
<1>6. CASE ~ch.held
  <2>1. Moved(ch, t) = ch /\ Answer(ch, t) = TweakAdd(base, t)
    BY <1>6 DEF Moved, Answer
  <2> QED BY <1>4, <1>5, <2>1 DEF t
<1>7. CASE ch.held
  <2>1. stepped = (base + t) % n
    <3>1. ch.far = Add(base, ch.tweak)
      BY <1>7 DEF Stands
    <3>2. TweakAdd(Add(base, ch.tweak), (t - ch.tweak) % n) = (base + t) % n
      <4> DEFINE tw == ch.tweak
      <4>1. tw \in Int
        BY <1>3
      <4> HIDE DEF base, tw
      <4>2. TweakAdd(Add(base, tw), (t - tw) % n) = (base + t) % n
        BY <1>2, <1>3, <4>1, StepLands
      <4> QED BY <4>2 DEF tw
    <3> QED BY <3>1, <3>2 DEF Stepped
  <2>2. stepped \in Point
    BY <1>5, <2>1
  <2>3. CASE stepped = INF
    <3>1. Moved(ch, t) = [ch EXCEPT !.held = FALSE, !.far = INF]
      BY <1>7, <2>3 DEF Moved
    <3>2. ~Moved(ch, t).held /\ IsChain(Moved(ch, t))
      BY <1>3, <3>1 DEF IsChain
    <3>3. Answer(ch, t) = TweakAdd(base, t)
      BY <3>2 DEF Answer
    <3> QED BY <1>4, <1>5, <3>2, <3>3 DEF Stands, t
  <2>4. CASE stepped # INF
    <3>1. Moved(ch, t) = [ch EXCEPT !.tweak = t, !.far = stepped]
      BY <1>7, <2>4 DEF Moved
    <3> HIDE DEF stepped
    <3>2. /\ IsChain(Moved(ch, t)) /\ Moved(ch, t).held
          /\ Moved(ch, t).far = stepped /\ Moved(ch, t).base = base /\ Moved(ch, t).tweak = t
      BY <1>2, <1>7, <2>2, <3>1 DEF IsChain
    <3>3. Answer(ch, t) = stepped
      BY <3>2 DEF Answer, stepped
    <3>4. Stands(Moved(ch, t))
      BY <2>1, <2>4, <3>2 DEF Stands, Add
    <3> QED BY <1>4, <2>1, <2>2, <3>2, <3>3, <3>4 DEF t
  <2> QED BY <2>3, <2>4
<1> QED BY <1>6, <1>7

ChainInv == TypeOK /\ ChainStands /\ AnswersAreAbsolute

LEMMA ChainInit == Init => ChainInv
<1> SUFFICES ASSUME Init PROVE ChainInv
  OBVIOUS
<1>1. n \in Nat \ {0} /\ 0 \in 0..(n - 1) /\ (0 + 0) % n = 0
  BY OrderAssumption
<1>2. TypeOK
  BY <1>1, ChainAssumption
     DEF Init, InitServing, TypeOK, NoChain, NoAnswer, Point, Scalar, INF
<1>3. ChainStands
  BY DEF Init, ChainStands, NoChain
<1>4. AnswersAreAbsolute
  BY <1>1 DEF Init, AnswersAreAbsolute, NoAnswer, INF
<1> QED BY <1>2, <1>3, <1>4 DEF ChainInv

LEMMA NewKeepsChains ==
  ASSUME ChainInv, NEW c \in Chain, NEW base \in Point, NEW ec \in Curves, New(c, base, ec)
  PROVE  ChainInv'
<1> DEFINE held == base # INF /\ Serves(ec, AnyHash)
           new == [built |-> TRUE, base |-> base, ec |-> ec, tweak |-> 0,
                   held |-> held, far |-> IF held THEN base ELSE INF]
<1>1. chains' = [chains EXCEPT ![c] = new]
  BY DEF New
<1>2. answer' = answer /\ installed' = installed /\ serving' = serving
  BY DEF New, servingVars
<1>3. INF \in Point /\ 0 \in Scalar /\ held \in BOOLEAN
  BY OrderPositive DEF Point, Scalar, INF, Serves
<1>4. Add(base, 0) = base
  BY OrderPositive DEF Add, Point
<1> HIDE DEF held
<1>5. IsChain(new)
  BY <1>3 DEF IsChain
<1>6. Stands(new)
  BY <1>4 DEF Stands, held
<1> HIDE DEF new
<1>7. TypeOK'
  BY <1>1, <1>2, <1>5 DEF ChainInv, TypeOK, IsChain
<1>8. \A d \in Chain : chains'[d] = IF d = c THEN new ELSE chains[d]
  BY <1>1 DEF ChainInv, TypeOK
<1>9. ChainStands'
  BY <1>6, <1>8, StandsDef DEF ChainInv, ChainStands, Stands
<1> QED BY <1>2, <1>7, <1>9 DEF ChainInv, AnswersAreAbsolute

LEMMA PointKeepsChains ==
  ASSUME ChainInv, NEW c \in Chain, NEW asked \in Asked, PointAt(c, asked)
  PROVE  ChainInv'
<1> DEFINE ch == chains[c]
           new == Moved(ch, asked % n)
           P == Answer(ch, asked % n)
           crossed == ch.held \/ Serves(ch.ec, AnyHash)
<1>1. /\ chains' = [chains EXCEPT ![c] = new]
      /\ answer' = [base |-> ch.base, t |-> asked, point |-> P, crossed |-> crossed]
      /\ installed' = installed /\ serving' = serving
  BY DEF PointAt, servingVars
<1>2. IsChain(ch) /\ Stands(ch) /\ asked \in Int
  BY StandsDef, ChainAssumption DEF ChainInv, TypeOK, IsChain
<1>3. IsChain(new) /\ Stands(new) /\ P \in Point /\ P = (ch.base + asked) % n
  <2> HIDE DEF ch
  <2> QED BY <1>2, PointIsRight
<1>4. ch.base \in Point /\ crossed \in BOOLEAN
  BY <1>2 DEF IsChain, Serves
<1> HIDE DEF new, P, crossed
<1>5. answer' \in [base : Point, t : Int, point : Point, crossed : BOOLEAN]
      /\ answer'.point = (answer'.base + answer'.t) % n
  BY <1>1, <1>2, <1>3, <1>4
<1>6. TypeOK'
  BY <1>1, <1>3, <1>5 DEF ChainInv, TypeOK, IsChain
<1>7. \A d \in Chain : chains'[d] = IF d = c THEN new ELSE chains[d]
  BY <1>1 DEF ChainInv, TypeOK
<1>8. ChainStands'
  BY <1>3, <1>7, StandsDef DEF ChainInv, ChainStands, Stands
<1> QED BY <1>5, <1>6, <1>8 DEF ChainInv, AnswersAreAbsolute

LEMMA NextKeepsChains == ChainInv /\ [Next]_vars => ChainInv'
<1> SUFFICES ASSUME ChainInv, [Next]_vars PROVE ChainInv'
  OBVIOUS
<1>1. CASE \E on \in BOOLEAN : Switch(on)
  BY <1>1 DEF ChainInv, Switch, SetServing, TypeOK, ChainStands, AnswersAreAbsolute
<1>2. CASE \E c \in Chain, base \in Point, ec \in Curves : New(c, base, ec)
  BY <1>2, NewKeepsChains
<1>3. CASE \E c \in Chain, t \in Asked : PointAt(c, t)
  BY <1>3, PointKeepsChains
<1>4. CASE UNCHANGED vars
  BY <1>4 DEF vars, ChainInv, TypeOK, ChainStands, AnswersAreAbsolute
<1> QED BY <1>1, <1>2, <1>3, <1>4 DEF Next

\* The point held by the bindings is where the chain's tweak says it is.
THEOREM ChainsStand == Spec => []ChainStands
<1>1. ChainInv => ChainStands
  BY DEF ChainInv
<1> QED BY <1>1, ChainInit, NextKeepsChains, PTL DEF Spec

\* Every answer of point is base + t*G, for integers t of any sign and size.
THEOREM PointsAreAbsolute == Spec => []AnswersAreAbsolute
<1>1. ChainInv => AnswersAreAbsolute
  BY DEF ChainInv
<1> QED BY <1>1, ChainInit, NextKeepsChains, PTL DEF Spec
-----------------------------------------------------------------------------
(***************************************************************************)
(* Ring signatures: what sign_ returns verifies, and every member of every *)
(* ring could have made it.                                                *)
(***************************************************************************)
CONSTANTS Bad, Msg, RingLists, MaxIndex, Hash(_, _, _, _)
VARIABLES call, e, s, r, lasts, e0, pc, result

Ring == INSTANCE Borromean

\* A challenge is reduced modulo the order.
HashAssumption == \A m, R, i, j : Hash(m, R, i, j) \in Scalar

\* Congruences modulo n compose.
LEMMA CongOf ==
  ASSUME NEW x \in Int, NEW y \in Int
  PROVE  /\ (x % n) \in Scalar
         /\ Cong(n, (x % n) + y, x + y) /\ Cong(n, (x % n) * y, x * y)
<1>1. (x % n) % n = x % n
  BY OrderPositive, CongMod DEF Cong
<1>2. ((x % n) + y) % n = (x + y) % n /\ ((x % n) * y) % n = (x * y) % n
  BY OrderPositive, ModAdd, ModMul
<1> QED BY <1>2, OrderPositive, ModRange DEF Cong, Scalar

\* A ring point without its reductions.
LEMMA RingPointIs ==
  ASSUME NEW c \in Scalar, NEW Q \in Finite, NEW x \in Int
  PROVE  /\ Ring!RingPoint(c, Q, x) = (x - c * Q) % n
         /\ Ring!RingPoint(c, Q, x) \in Point
<1> DEFINE u == (n - c) * Q
<1>1. n \in Nat \ {0} /\ c \in Int /\ Q \in Int /\ u \in Int /\ x - c * Q \in Int /\ x * 1 = x
  BY OrderPositive DEF Scalar, Finite, Point
<1>2. u + x = (x - c * Q) + n * Q
  BY <1>1
<1> HIDE DEF u
<1>3. (u + x) % n = (x - c * Q) % n
  <2> DEFINE v == x - c * Q
  <2>1. v \in Int /\ u + x = v + n * Q
    BY <1>1, <1>2
  <2> HIDE DEF v
  <2>2. u + x \in Int
    BY <1>1
  <2>3. (u + x) % n = v % n
    BY <1>1, <2>1, <2>2, ModUnique
  <2> QED BY <2>3 DEF v
<1>4. x % n \in Int /\ u % n \in Int
  BY <1>1, CongMod
<1>5. ((u % n) + (x % n)) % n = (u + x) % n
  <2>1. ((u % n) + (x % n)) % n = (u + (x % n)) % n
    BY <1>1, <1>4, ModAdd
  <2>2. ((x % n) + u) % n = (x + u) % n
    BY <1>1, ModAdd
  <2>3. u + (x % n) = (x % n) + u /\ x + u = u + x
    BY <1>1, <1>4
  <2> QED BY <2>1, <2>2, <2>3
<1>6. Ring!RingPoint(c, Q, x) = ((u % n) + (x % n)) % n
  BY <1>1 DEF Ring!RingPoint, Ring!Add, Ring!Mult, Ring!G, u
<1>7. (u + x) % n \in Point
  BY <1>1, ModRange DEF Point
<1> QED BY <1>3, <1>5, <1>6, <1>7

\* The answer of a ring's signer leads back to the point of its nonce.
LEMMA SignerPoint ==
  ASSUME NEW c \in Scalar, NEW Q \in Finite, NEW k \in 1..(n - 1)
  PROVE  /\ Ring!RingPoint(c, Q, (k + Q * c) % n) = Ring!Mult(k, Ring!G)
         /\ Ring!Mult(k, Ring!G) \in Finite
         /\ (k + Q * c) % n \in Scalar
<1> DEFINE x == (k + Q * c) % n
<1>1. n \in Nat \ {0} /\ c \in Int /\ Q \in Int /\ k \in Int /\ k + Q * c \in Int /\ -(c * Q) \in Int
  BY OrderPositive DEF Scalar, Finite, Point
<1>2. x \in Scalar /\ x \in Int
  BY <1>1, ModRange DEF Scalar
<1>3. x - c * Q = x + -(c * Q) /\ (k + Q * c) + -(c * Q) = k
  BY <1>1, <1>2
<1>4. (x + -(c * Q)) % n = ((k + Q * c) + -(c * Q)) % n
  BY <1>1, CongOf DEF Cong
<1>5. k % n = k /\ k * 1 = k
  BY <1>1, OrderPositive
<1>6. Ring!RingPoint(c, Q, x) = k
  BY <1>2, <1>3, <1>4, <1>5, RingPointIs
<1>7. Ring!Mult(k, Ring!G) = k /\ k \in Finite
  BY <1>1, <1>5, OrderPositive DEF Ring!Mult, Ring!G, Finite, Point, INF
<1> QED BY <1>2, <1>6, <1>7

\* Whatever is the answer at a position, for the key there it is the answer of
\* the nonce whose point the ring passes through.
LEMMA MemberNonce ==
  ASSUME NEW c \in Scalar, NEW Q \in Finite, NEW x \in Scalar
  PROVE  x = (Ring!RingPoint(c, Q, x) + Q * c) % n
<1>1. n \in Nat \ {0} /\ c \in Int /\ Q \in Int /\ x \in Int /\ Q * c \in Int /\ x - c * Q \in Int
  BY OrderPositive DEF Scalar, Finite, Point
<1>2. (x - c * Q) + Q * c = x
  BY <1>1
<1>3. (((x - c * Q) % n) + Q * c) % n = ((x - c * Q) + Q * c) % n
  BY <1>1, CongOf DEF Cong
<1>4. x % n = x
  BY OrderPositive DEF Scalar
<1> QED BY <1>1, <1>2, <1>3, <1>4, RingPointIs

-----------------------------------------------------------------------------
\* What a call that was not refused is given.
Signable ==
  /\ Len(Ring!rings) \in Nat \ {0} /\ DOMAIN Ring!rings = 1..Len(Ring!rings)
  /\ \A i \in DOMAIN Ring!rings :
       /\ Len(Ring!rings[i]) \in Nat /\ DOMAIN Ring!rings[i] = 1..Len(Ring!rings[i])
       /\ \A j \in DOMAIN Ring!rings[i] : Ring!rings[i][j] \in Finite
       /\ call.idx[i] \in 1..Len(Ring!rings[i])
       /\ call.ks[i] \in 1..(n - 1)
       /\ call.qs[i] = Ring!rings[i][call.idx[i]]

LEMMA CallFacts ==
  ASSUME Ring!BorromeanAssumption, Ring!TypeOK, Ring!KeysAreTheirs, Ring!Refused(call) = "ok"
  PROVE  Signable
<1>1. Ring!rings \in Seq(Seq(Finite \cup {Bad})) /\ Bad \notin Int
  BY DEF Ring!BorromeanAssumption, Ring!TypeOK, Ring!Finite, Ring!Point, Ring!INF, Finite, Point, INF
<1>2. /\ ~Ring!AnyBadKey(Ring!rings) /\ {Len(call.ks), Len(call.qs), Len(call.idx)} = {Len(Ring!rings)}
      /\ Ring!IndexInRange(call) /\ Ring!rings # << >>
      /\ \A i \in DOMAIN Ring!rings : {call.ks[i], call.qs[i]} \cap {0, n} = {}
  BY DEF Ring!Refused, Ring!rings
<1>3. Len(Ring!rings) \in Nat \ {0} /\ DOMAIN Ring!rings = 1..Len(Ring!rings)
  BY <1>1, <1>2
<1>4. ASSUME NEW i \in DOMAIN Ring!rings
      PROVE  /\ Len(Ring!rings[i]) \in Nat /\ DOMAIN Ring!rings[i] = 1..Len(Ring!rings[i])
             /\ \A j \in DOMAIN Ring!rings[i] : Ring!rings[i][j] \in Finite
             /\ call.idx[i] \in 1..Len(Ring!rings[i])
             /\ call.ks[i] \in 1..(n - 1)
             /\ call.qs[i] = Ring!rings[i][call.idx[i]]
  <2>1. Ring!rings[i] \in Seq(Finite \cup {Bad})
    BY <1>1, <1>3
  <2>2. Len(Ring!rings[i]) \in Nat /\ DOMAIN Ring!rings[i] = 1..Len(Ring!rings[i])
    BY <2>1
  <2>3. ASSUME NEW j \in DOMAIN Ring!rings[i] PROVE Ring!rings[i][j] \in Finite
    <3>1. Ring!rings[i][j] \in Finite \cup {Bad}
      BY <2>1, <2>2
    <3>2. Ring!rings[i][j] # Bad
      BY <1>2 DEF Ring!AnyBadKey, Ring!ToSet
    <3> QED BY <3>1, <3>2
  <2>4. call.idx[i] \in DOMAIN Ring!rings[i]
    BY <1>2 DEF Ring!IndexInRange, Ring!rings
  <2>5. call.qs[i] = Ring!rings[i][call.idx[i]]
    <3>1. Ring!rings[i][call.idx[i]] # Bad
      BY <1>1, <2>3, <2>4 DEF Finite, Point
    <3> QED BY <2>4, <3>1 DEF Ring!KeysAreTheirs
  <2>6. call.ks[i] \in 1..(n - 1)
    <3>1. call.ks \in Seq(Scalar)
      BY DEF Ring!TypeOK, Ring!Scalar, Scalar
    <3>2. Len(call.ks) = Len(Ring!rings)
      BY <1>2
    <3>3. call.ks[i] \in Scalar
      BY <1>3, <3>1, <3>2
    <3>4. call.ks[i] # 0
      BY <1>2
    <3> QED BY <3>3, <3>4, OrderPositive DEF Scalar
  <2> QED BY <2>2, <2>3, <2>4, <2>5, <2>6
<1> QED BY <1>3, <1>4 DEF Signable

\* Step 1 at positions that a step leaves alone is what it was.
LEMMA ForgedFrame ==
  ASSUME NEW i, NEW last \in Nat, call.idx[i] \in Nat, call' = call,
         \A j \in (call.idx[i] + 1)..last : e'[i][j] = e[i][j] /\ s'[i][j] = s[i][j],
         Ring!ForgedTo(i, last)
  PROVE  /\ Ring!ForgedTo(i, last)'
         /\ last >= call.idx[i] => Ring!Before(i, last + 1)' = Ring!Before(i, last + 1)
<1>1. ASSUME NEW j \in (call.idx[i] + 1)..last PROVE Ring!PointAt(i, j)' = Ring!PointAt(i, j)
  BY <1>1 DEF Ring!PointAt, Ring!rings
<1>2. ASSUME NEW j \in (call.idx[i] + 1)..(last + 1) PROVE Ring!Before(i, j)' = Ring!Before(i, j)
  <2>1. j - 1 = call.idx[i] \/ j - 1 \in (call.idx[i] + 1)..last
    OBVIOUS
  <2> QED BY <1>1, <2>1 DEF Ring!Before
<1>3. ASSUME NEW j \in (call.idx[i] + 1)..last PROVE Ring!Forged(i, j)'
  <2>1. Ring!Forged(i, j)
    BY DEF Ring!ForgedTo, Ring!ForgedFrom
  <2>2. j \in (call.idx[i] + 1)..(last + 1)
    OBVIOUS
  <2> QED BY <1>1, <1>2, <2>1, <2>2 DEF Ring!Forged
<1>4. Ring!ForgedTo(i, last)'
  BY <1>3 DEF Ring!ForgedTo, Ring!ForgedFrom
<1> QED BY <1>2, <1>4

\* So is step 2.
LEMMA MetFrame ==
  ASSUME NEW i, NEW last \in Nat, call' = call, e0' = e0,
         \A j \in 1..last : e'[i][j] = e[i][j],
         \A j \in 1..(last - 1) : s'[i][j] = s[i][j],
         Ring!MetTo(i, last)
  PROVE  Ring!MetTo(i, last)'
<1>1. ASSUME NEW j \in 1..last PROVE Ring!Met(i, j)'
  <2>1. Ring!Met(i, j) /\ e'[i][j] = e[i][j]
    BY DEF Ring!MetTo
  <2>2. CASE j = 1
    BY <2>1, <2>2 DEF Ring!Met
  <2>3. CASE j # 1
    <3>1. j - 1 \in 1..last /\ j - 1 \in 1..(last - 1)
      BY <2>3
    <3>2. Ring!PointAt(i, j - 1)' = Ring!PointAt(i, j - 1)
      BY <3>1 DEF Ring!PointAt, Ring!rings
    <3> QED BY <2>1, <2>3, <3>2 DEF Ring!Met
  <2> QED BY <2>2, <2>3
<1> QED BY <1>1 DEF Ring!MetTo

\* A table written at one place.
Written(f, i, j, v, g) == g = [f EXCEPT ![i][j] = v]

LEMMA TableWrite ==
  ASSUME NEW f, NEW i \in DOMAIN Ring!rings, NEW j \in DOMAIN Ring!rings[i],
         NEW v \in Scalar, Ring!IsTable(f), NEW g, Written(f, i, j, v, g)
  PROVE  /\ Ring!IsTable(g) /\ g[i][j] = v
         /\ \A i2 \in DOMAIN Ring!rings : \A j2 \in DOMAIN Ring!rings[i2] :
              i2 # i \/ j2 # j => g[i2][j2] = f[i2][j2]
<1>1. f[i] \in [DOMAIN Ring!rings[i] -> Scalar] /\ DOMAIN f = DOMAIN Ring!rings
  BY DEF Ring!IsTable, Ring!Scalar, Scalar
<1>2. DOMAIN g = DOMAIN Ring!rings /\ g[i] = [f[i] EXCEPT ![j] = v]
        /\ \A i2 \in DOMAIN Ring!rings : i2 # i => g[i2] = f[i2]
  BY <1>1 DEF Written
<1>3. g[i] \in [DOMAIN Ring!rings[i] -> Scalar] /\ g[i][j] = v
        /\ \A j2 \in DOMAIN Ring!rings[i] : j2 # j => g[i][j2] = f[i][j2]
  BY <1>1, <1>2
<1>4. Ring!IsTable(g)
  BY <1>1, <1>2, <1>3 DEF Ring!IsTable, Ring!Scalar, Scalar
<1>5. \A i2 \in DOMAIN Ring!rings : \A j2 \in DOMAIN Ring!rings[i2] :
        i2 # i \/ j2 # j => g[i2][j2] = f[i2][j2]
  BY <1>2, <1>3
<1> QED BY <1>3, <1>4, <1>5

-----------------------------------------------------------------------------
LEMMA RingInit ==
  ASSUME Ring!BorromeanAssumption, Ring!Init
  PROVE  Ring!Inv
<1>1. PICK m \in Msg, rs \in RingLists, k \in 1..(n - 1), short \in BOOLEAN :
        \E idx \in [DOMAIN rs -> 0..MaxIndex] :
          call = [m |-> m, rings |-> rs, idx |-> idx,
                  ks |-> SubSeq(Ring!Nonces(rs, k), IF short THEN 2 ELSE 1, Len(rs)),
                  qs |-> [i \in DOMAIN rs |->
                            IF idx[i] \in DOMAIN rs[i] /\ rs[i][idx[i]] # Bad
                            THEN rs[i][idx[i]] ELSE 1]]
  BY DEF Ring!Init
<1>2. PICK idx \in [DOMAIN rs -> 0..MaxIndex] :
          call = [m |-> m, rings |-> rs, idx |-> idx,
                  ks |-> SubSeq(Ring!Nonces(rs, k), IF short THEN 2 ELSE 1, Len(rs)),
                  qs |-> [i \in DOMAIN rs |->
                            IF idx[i] \in DOMAIN rs[i] /\ rs[i][idx[i]] # Bad
                            THEN rs[i][idx[i]] ELSE 1]]
  BY <1>1
<1>3. /\ Ring!rings = rs /\ call.idx = idx
      /\ call.ks = SubSeq(Ring!Nonces(rs, k), IF short THEN 2 ELSE 1, Len(rs))
      /\ \A i \in DOMAIN rs : idx[i] \in DOMAIN rs[i] /\ rs[i][idx[i]] # Bad
                              => call.qs[i] = rs[i][idx[i]]
  BY <1>2 DEF Ring!rings
<1>4. Len(rs) \in Nat /\ DOMAIN rs = 1..Len(rs) /\ rs \in Seq(Seq(Finite \cup {Bad}))
  BY DEF Ring!BorromeanAssumption, Ring!Finite, Ring!Point, Ring!INF, Finite, Point, INF
<1>5. Ring!Nonces(rs, k) \in Seq(Scalar) /\ Len(Ring!Nonces(rs, k)) = Len(rs)
  <2>1. \A i \in DOMAIN rs : (k + i - 1) % n \in Scalar
    <3>1. \A i \in DOMAIN rs : k + i - 1 \in Int
      BY <1>4
    <3> QED BY <3>1, OrderPositive, ModRange DEF Scalar
  <2> QED BY <1>4, <2>1 DEF Ring!Nonces
<1>6. call.ks \in Seq(Scalar)
  <2>1. CASE short
    BY <1>3, <1>4, <1>5, <2>1, SubSeqProperties
  <2>2. CASE ~short
    BY <1>3, <1>4, <1>5, <2>2, SubSeqProperties
  <2> QED BY <2>1, <2>2
<1>7. Ring!IsTable(e)
  <2>1. e = [i \in DOMAIN Ring!rings |-> [j \in DOMAIN Ring!rings[i] |-> 0]]
    BY DEF Ring!Init, Ring!Filled
  <2>2. 0 \in Ring!Scalar
    BY OrderPositive DEF Ring!Scalar
  <2> QED BY <2>1, <2>2 DEF Ring!IsTable
<1>8. Ring!IsTable(s)
  <2>1. s \in [DOMAIN Ring!rings ->
               UNION {[DOMAIN ring -> Ring!Scalar] : ring \in Ring!ToSet(Ring!rings)}]
        /\ \A i \in DOMAIN Ring!rings : DOMAIN s[i] = DOMAIN Ring!rings[i]
    BY DEF Ring!Init
  <2>2. ASSUME NEW i \in DOMAIN Ring!rings PROVE s[i] \in [DOMAIN Ring!rings[i] -> Ring!Scalar]
    <3>1. s[i] \in UNION {[DOMAIN ring -> Ring!Scalar] : ring \in Ring!ToSet(Ring!rings)}
      BY <2>1
    <3>2. PICK ring \in Ring!ToSet(Ring!rings) : s[i] \in [DOMAIN ring -> Ring!Scalar]
      BY <3>1
    <3> QED BY <2>1, <3>2
  <2> QED BY <2>1, <2>2 DEF Ring!IsTable
<1>9. pc.step = "start" /\ result.err = "none" /\ lasts = << >> /\ r = 0
  BY DEF Ring!Init, Ring!At, Ring!Outcome, Ring!INF
<1>10. Ring!TypeOK
  BY <1>3, <1>6, <1>7, <1>8, <1>9, OrderPositive DEF Ring!TypeOK, Ring!Point, Ring!Scalar, Scalar
<1>11. Ring!KeysAreTheirs
  BY <1>3 DEF Ring!KeysAreTheirs
<1> QED BY <1>9, <1>10, <1>11 DEF Ring!Inv, Ring!NotRefused, Ring!Returned

\* What no step touches: the call, and the types that depend on it alone.
LEMMA CallKept ==
  ASSUME call' = call
  PROVE  /\ Ring!rings' = Ring!rings /\ Ring!KeysAreTheirs' = Ring!KeysAreTheirs
         /\ Ring!Refused(call)' = Ring!Refused(call)
BY DEF Ring!rings, Ring!KeysAreTheirs

LEMMA FailKeepsInv ==
  ASSUME Ring!Inv, NEW err, err # "ok", NEW i, NEW j, Ring!Fail(err, i, j)
  PROVE  Ring!Inv'
<1>1. call' = call /\ e' = e /\ s' = s /\ r' = r /\ lasts' = lasts /\ pc'.step = "done"
      /\ result'.err = err
  BY DEF Ring!Fail, Ring!At, Ring!Outcome
<1>2. Ring!TypeOK'
  BY <1>1 DEF Ring!Inv, Ring!TypeOK, Ring!rings, Ring!IsTable
<1> QED BY <1>1, <1>2, CallKept DEF Ring!Inv, Ring!NotRefused, Ring!Returned

LEMMA StartKeepsInv ==
  ASSUME Ring!BorromeanAssumption, Ring!Inv, Ring!Start
  PROVE  Ring!Inv'
<1>1. CASE Ring!Refused(call) # "ok"
  <2>1. Ring!Fail(Ring!Refused(call), 0, 0)
    BY <1>1 DEF Ring!Start
  <2> QED BY <1>1, <2>1, FailKeepsInv
<1>2. CASE Ring!Refused(call) = "ok"
  <2>1. /\ call' = call /\ e' = e /\ s' = s /\ r' = r /\ lasts' = lasts /\ result' = result
        /\ pc'.step = "open" /\ pc'.i = 1 /\ lasts = << >> /\ ~Ring!Returned
    BY <1>2 DEF Ring!Start, Ring!At, Ring!Inv
  <2>2. Ring!TypeOK'
    BY <2>1 DEF Ring!Inv, Ring!TypeOK, Ring!rings, Ring!IsTable
  <2>3. 1 \in DOMAIN Ring!rings
    BY <1>2, CallFacts DEF Ring!Inv, Signable
  <2> QED BY <1>2, <2>1, <2>2, <2>3, CallKept DEF Ring!Inv, Ring!NotRefused, Ring!Returned
<1> QED BY <1>1, <1>2

\* A step in the middle: the call was not refused, and nothing is returned.
LEMMA MidCall ==
  ASSUME Ring!BorromeanAssumption, Ring!Inv, pc.step \in {"open", "forge", "first", "walk"}
  PROVE  /\ ~Ring!Returned
         /\ Signable
<1>1. ~Ring!Returned
  BY DEF Ring!Inv
<1>2. Ring!Refused(call) = "ok" /\ Ring!TypeOK /\ Ring!KeysAreTheirs
  BY DEF Ring!Inv, Ring!NotRefused
<1> QED BY <1>1, <1>2, CallFacts

LEMMA OpenRingKeepsInv ==
  ASSUME Ring!BorromeanAssumption, Ring!Inv, Ring!OpenRing
  PROVE  Ring!Inv'
<1>0. PICK i : i = pc.i
  OBVIOUS
<1>1. /\ call' = call /\ e' = e /\ s' = s /\ lasts' = lasts /\ result' = result
      /\ r' = Ring!Mult(call.ks[i], Ring!G)
      /\ pc.step = "open" /\ pc'.step = "forge" /\ pc'.i = i /\ pc'.j = call.idx[i] + 1
  BY <1>0 DEF Ring!OpenRing, Ring!At, Ring!ForgedFrom
<1>2. ~Ring!Returned /\ Signable /\ Ring!TypeOK
  BY <1>1, MidCall DEF Ring!Inv
<1>3. i \in DOMAIN Ring!rings /\ Len(lasts) = i - 1 /\ \A i2 \in 1..(i - 1) : Ring!Closed(i2)
  BY <1>0, <1>1 DEF Ring!Inv
<1>4. PICK j : j = call.idx[i] + 1
  OBVIOUS
<1>5. call.ks[i] \in 1..(n - 1) /\ call.idx[i] \in 1..Len(Ring!rings[i])
        /\ Len(Ring!rings[i]) \in Nat
  BY <1>2, <1>3 DEF Signable
<1>6. r' \in Ring!Point
  <2>1. call.ks[i] * 1 \in Int
    BY <1>5
  <2> QED BY <1>1, <2>1, OrderPositive, ModRange DEF Ring!Mult, Ring!G, Ring!Point
<1>7. Ring!TypeOK'
  BY <1>1, <1>2, <1>6 DEF Ring!TypeOK, Ring!rings, Ring!IsTable
<1>8. \A i2 : Ring!Closed(i2)' = Ring!Closed(i2)
  BY <1>1 DEF Ring!Closed, Ring!ForgedTo, Ring!ForgedFrom, Ring!Forged, Ring!Before, Ring!PointAt, Ring!rings
<1>9. j \in (Ring!ForgedFrom(i))'..(Len(Ring!rings[i]) + 1)
  BY <1>1, <1>4, <1>5 DEF Ring!ForgedFrom
<1>10. Ring!ForgedTo(i, j - 1)'
  BY <1>1, <1>4, <1>5 DEF Ring!ForgedTo, Ring!ForgedFrom
<1>11. r' = Ring!Before(i, j)'
  BY <1>1, <1>4, <1>5 DEF Ring!Before
<1>12. Ring!rings' = Ring!rings /\ Ring!KeysAreTheirs' /\ Ring!NotRefused' /\ ~Ring!Returned'
  BY <1>1, <1>2, CallKept DEF Ring!Inv, Ring!NotRefused, Ring!Returned
<1> QED BY <1>1, <1>3, <1>4, <1>7, <1>8, <1>9, <1>10, <1>11, <1>12 DEF Ring!Inv

LEMMA ForgeKeepsInv ==
  ASSUME Ring!BorromeanAssumption, HashAssumption, Ring!Inv, Ring!Forge
  PROVE  Ring!Inv'
<1>0. PICK i, j : i = pc.i /\ j = pc.j
  OBVIOUS
<1> DEFINE c == Hash(call.m, r, i, j)
           R == Ring!RingPoint(c, Ring!rings[i][j], s[i][j])
<1>1. pc.step = "forge" /\ j <= Len(Ring!rings[i])
  BY <1>0 DEF Ring!Forge
<1>2. ~Ring!Returned /\ Signable /\ Ring!TypeOK
  BY <1>1, MidCall DEF Ring!Inv
<1>3. /\ i \in DOMAIN Ring!rings /\ Len(lasts) = i - 1 /\ \A i2 \in 1..(i - 1) : Ring!Closed(i2)
      /\ j \in Ring!ForgedFrom(i)..(Len(Ring!rings[i]) + 1)
      /\ Ring!ForgedTo(i, j - 1) /\ r = Ring!Before(i, j)
  BY <1>0, <1>1 DEF Ring!Inv
<1>4. CASE c = 0
  <2>1. Ring!Fail("zero challenge", i, j)
    BY <1>0, <1>4 DEF Ring!Forge
  <2> QED BY <2>1, FailKeepsInv
<1>5. CASE c # 0 /\ R = Ring!INF
  <2>1. Ring!Fail("infinity", i, j)
    BY <1>0, <1>5 DEF Ring!Forge
  <2> QED BY <2>1, FailKeepsInv
<1>6. CASE c # 0 /\ R # Ring!INF
  <2>1. /\ e' = [e EXCEPT ![i][j] = c] /\ r' = R /\ pc' = Ring!At("forge", i, j + 1)
        /\ call' = call /\ s' = s /\ lasts' = lasts /\ e0' = e0 /\ result' = result
    BY <1>0, <1>6 DEF Ring!Forge
  <2>2. /\ Len(Ring!rings[i]) \in Nat /\ DOMAIN Ring!rings[i] = 1..Len(Ring!rings[i])
        /\ call.idx[i] \in 1..Len(Ring!rings[i]) /\ Len(Ring!rings) \in Nat
        /\ DOMAIN Ring!rings = 1..Len(Ring!rings)
    BY <1>2, <1>3 DEF Signable
  <2>3. j \in (call.idx[i] + 1)..Len(Ring!rings[i]) /\ j \in DOMAIN Ring!rings[i] /\ j \in Nat
    BY <1>1, <1>3, <2>2 DEF Ring!ForgedFrom
  <2>4. c \in Scalar /\ s[i][j] \in Scalar /\ Ring!rings[i][j] \in Finite
    <3>1. s[i] \in [DOMAIN Ring!rings[i] -> Scalar]
      BY <1>2, <1>3 DEF Ring!TypeOK, Ring!IsTable, Ring!Scalar, Scalar
    <3> QED BY <1>2, <1>3, <2>3, <3>1 DEF Signable, HashAssumption
  <2>5. R \in Point
    <3>1. s[i][j] \in Int
      BY <2>4 DEF Scalar
    <3> QED BY <2>4, <3>1, RingPointIs
  <2>6. /\ Ring!IsTable(e') /\ e'[i][j] = c
        /\ \A i2 \in DOMAIN Ring!rings : \A j2 \in DOMAIN Ring!rings[i2] :
             i2 # i \/ j2 # j => e'[i2][j2] = e[i2][j2]
    <3>1. Ring!IsTable(e)
      BY <1>2 DEF Ring!TypeOK
    <3>2. PICK f, g, v : f = e /\ g = e' /\ v = c
      OBVIOUS
    <3>3. Ring!IsTable(f) /\ Written(f, i, j, v, g) /\ v \in Scalar
            /\ i \in DOMAIN Ring!rings /\ j \in DOMAIN Ring!rings[i]
      BY <1>3, <2>1, <2>3, <2>4, <3>1, <3>2 DEF Written
    <3>4. /\ Ring!IsTable(g) /\ g[i][j] = v
          /\ \A i2 \in DOMAIN Ring!rings : \A j2 \in DOMAIN Ring!rings[i2] :
               i2 # i \/ j2 # j => g[i2][j2] = f[i2][j2]
      BY <3>3, TableWrite
    <3> HIDE DEF c
    <3> QED BY <3>2, <3>4
  <2>7. Ring!TypeOK'
    BY <1>2, <2>1, <2>5, <2>6 DEF Ring!TypeOK, Ring!rings, Ring!IsTable, Ring!At, Ring!Point, Point
  <2>8. ASSUME NEW i2 \in 1..(i - 1) PROVE Ring!Closed(i2)'
    <3>1. i2 \in DOMAIN Ring!rings /\ i2 # i /\ Ring!Closed(i2)
      BY <1>3, <2>2
    <3>2. /\ Len(Ring!rings[i2]) \in Nat /\ DOMAIN Ring!rings[i2] = 1..Len(Ring!rings[i2])
          /\ call.idx[i2] \in 1..Len(Ring!rings[i2])
      BY <1>2, <3>1 DEF Signable
    <3>3. \A j2 \in (call.idx[i2] + 1)..Len(Ring!rings[i2]) :
            e'[i2][j2] = e[i2][j2] /\ s'[i2][j2] = s[i2][j2]
      BY <2>1, <2>6, <3>1, <3>2
    <3>4. PICK last : last = Len(Ring!rings[i2])
      OBVIOUS
    <3>5. last \in Nat /\ call.idx[i2] \in Nat /\ last >= call.idx[i2] /\ Ring!ForgedTo(i2, last)
      BY <3>1, <3>2, <3>4 DEF Ring!Closed
    <3>6. Ring!ForgedTo(i2, last)' /\ Ring!Before(i2, last + 1)' = Ring!Before(i2, last + 1)
      BY <2>1, <3>3, <3>4, <3>5, ForgedFrame
    <3> QED BY <2>1, <3>1, <3>4, <3>6, CallKept DEF Ring!Closed
  <2>9. Ring!ForgedTo(i, j - 1)' /\ Ring!Before(i, j)' = Ring!Before(i, j)
    <3>0. PICK last : last = j - 1
      OBVIOUS
    <3>1. last \in Nat /\ call.idx[i] \in Nat /\ last >= call.idx[i] /\ last + 1 = j
      BY <2>2, <2>3, <3>0
    <3>2. \A j2 \in (call.idx[i] + 1)..last : e'[i][j2] = e[i][j2] /\ s'[i][j2] = s[i][j2]
      BY <1>3, <2>1, <2>2, <2>3, <2>6, <3>0
    <3>3. Ring!ForgedTo(i, last)
      BY <1>3, <3>0
    <3> QED BY <2>1, <3>0, <3>1, <3>2, <3>3, ForgedFrame
  <2>10. Ring!PointAt(i, j)' = R
    BY <2>1, <2>6 DEF Ring!PointAt, Ring!rings
  <2>11. Ring!Forged(i, j)'
    BY <1>3, <1>6, <2>1, <2>6, <2>9, <2>10 DEF Ring!Forged
  <2>12. Ring!ForgedTo(i, j)'
    BY <2>2, <2>3, <2>9, <2>11 DEF Ring!ForgedTo, Ring!ForgedFrom
  <2>13. Ring!Before(i, j + 1)' = R
    BY <2>1, <2>2, <2>3, <2>10 DEF Ring!Before
  <2>14. Ring!rings' = Ring!rings /\ Ring!KeysAreTheirs' /\ Ring!NotRefused' /\ ~Ring!Returned'
    BY <1>1, <1>2, <2>1, CallKept DEF Ring!Inv, Ring!NotRefused, Ring!Returned
  <2>15. pc'.step = "forge" /\ pc'.i = i /\ pc'.j = j + 1 /\ j + 1 - 1 = j
    BY <2>1, <2>3 DEF Ring!At
  <2>16. j + 1 \in (Ring!ForgedFrom(i))'..(Len(Ring!rings[i]) + 1)
    BY <2>1, <2>2, <2>3 DEF Ring!ForgedFrom
  <2> HIDE DEF R, c
  <2> QED BY <1>3, <2>1, <2>7, <2>8, <2>12, <2>13, <2>14, <2>15, <2>16 DEF Ring!Inv
<1> QED BY <1>4, <1>5, <1>6

\* A ring closed in step 1 stays so while its signature is written elsewhere.
LEMMA ClosedFrame ==
  ASSUME Signable, NEW i \in DOMAIN Ring!rings, call' = call, lasts'[i] = lasts[i],
         \A j \in (call.idx[i] + 1)..Len(Ring!rings[i]) : e'[i][j] = e[i][j] /\ s'[i][j] = s[i][j],
         Ring!Closed(i)
  PROVE  Ring!Closed(i)'
<1>1. PICK last : last = Len(Ring!rings[i])
  OBVIOUS
<1>2. last \in Nat /\ call.idx[i] \in Nat /\ last >= call.idx[i] /\ Ring!ForgedTo(i, last)
  BY <1>1 DEF Signable, Ring!Closed
<1>3. \A j \in (call.idx[i] + 1)..last : e'[i][j] = e[i][j] /\ s'[i][j] = s[i][j]
  BY <1>1
<1>4. Ring!ForgedTo(i, last)' /\ Ring!Before(i, last + 1)' = Ring!Before(i, last + 1)
  BY <1>2, <1>3, ForgedFrame
<1> QED BY <1>1, <1>4, CallKept DEF Ring!Closed

LEMMA AllClosedFrame ==
  ASSUME Signable, call' = call, lasts' = lasts, e0' = e0, Ring!AllClosed,
         \A i \in DOMAIN Ring!rings : \A j \in (call.idx[i] + 1)..Len(Ring!rings[i]) :
           e'[i][j] = e[i][j] /\ s'[i][j] = s[i][j]
  PROVE  Ring!AllClosed'
<1>1. ASSUME NEW i \in DOMAIN Ring!rings PROVE Ring!Closed(i)'
  BY ClosedFrame DEF Ring!AllClosed
<1> QED BY <1>1, CallKept DEF Ring!AllClosed

\* A ring answered in step 2 as well.
LEMMA AnsweredFrame ==
  ASSUME Signable, NEW i \in DOMAIN Ring!rings, call' = call, e0' = e0,
         \A j \in 1..call.idx[i] : e'[i][j] = e[i][j] /\ s'[i][j] = s[i][j],
         Ring!Answered(i)
  PROVE  Ring!Answered(i)'
<1>1. PICK last : last = call.idx[i]
  OBVIOUS
<1>2. last \in Nat /\ last >= 1 /\ Ring!MetTo(i, last)
  BY <1>1 DEF Signable, Ring!Answered
<1>3. Ring!MetTo(i, last)'
  BY <1>1, <1>2, MetFrame
<1>4. s'[i][last] = s[i][last] /\ e'[i][last] = e[i][last]
  BY <1>1, <1>2
<1> QED BY <1>1, <1>3, <1>4 DEF Ring!Answered, Ring!SignerS

\* The types of what a step of step 1 or 2 writes.
LEMMA TypeKept ==
  ASSUME Ring!TypeOK, call' = call, Ring!IsTable(e'), Ring!IsTable(s'), r' \in Ring!Point,
         lasts' \in Seq(Ring!Point), pc'.step \in {"open", "forge", "first", "walk", "done"}
  PROVE  Ring!TypeOK'
BY DEF Ring!TypeOK, Ring!rings, Ring!IsTable

LEMMA CloseRingKeepsInv ==
  ASSUME Ring!BorromeanAssumption, Ring!Inv, Ring!CloseRing
  PROVE  Ring!Inv'
<1>0. PICK i, j : i = pc.i /\ j = pc.j
  OBVIOUS
<1>1. /\ pc.step = "forge" /\ j > Len(Ring!rings[i]) /\ lasts' = Append(lasts, r)
      /\ call' = call /\ e' = e /\ s' = s /\ r' = r /\ result' = result
      /\ IF i < Len(Ring!rings) THEN pc' = Ring!At("open", i + 1, 1)
         ELSE pc' = Ring!At("first", 1, 1) /\ e0' = <<lasts', call.m>>
  BY <1>0 DEF Ring!CloseRing
<1>2. ~Ring!Returned /\ Signable /\ Ring!TypeOK
  BY <1>1, MidCall DEF Ring!Inv
<1>3. /\ i \in DOMAIN Ring!rings /\ Len(lasts) = i - 1 /\ \A i2 \in 1..(i - 1) : Ring!Closed(i2)
      /\ j \in Ring!ForgedFrom(i)..(Len(Ring!rings[i]) + 1)
      /\ Ring!ForgedTo(i, j - 1) /\ r = Ring!Before(i, j)
  BY <1>0, <1>1 DEF Ring!Inv
<1>4. /\ Len(Ring!rings[i]) \in Nat /\ Len(Ring!rings) \in Nat
      /\ DOMAIN Ring!rings = 1..Len(Ring!rings)
  BY <1>2, <1>3 DEF Signable
<1>5. PICK last : last = Len(Ring!rings[i])
  OBVIOUS
<1>6. last + 1 = j /\ j - 1 = last /\ i \in Nat
  <2>1. call.idx[i] \in Nat
    BY <1>2, <1>3 DEF Signable
  <2> QED BY <1>1, <1>3, <1>4, <1>5, <2>1 DEF Ring!ForgedFrom
<1>7. /\ lasts \in Seq(Ring!Point) /\ r \in Ring!Point
      /\ lasts' \in Seq(Ring!Point) /\ Len(lasts') = i /\ lasts'[i] = r
      /\ \A i2 \in 1..(i - 1) : lasts'[i2] = lasts[i2]
  BY <1>1, <1>2, <1>3, <1>6 DEF Ring!TypeOK
<1>8. ASSUME NEW i2 \in 1..i PROVE Ring!Closed(i2)'
  <2>1. CASE i2 = i
    <3>1. Ring!ForgedTo(i, last)' /\ Ring!Before(i, last + 1)' = Ring!Before(i, last + 1)
      BY <1>1, <1>3, <1>6 DEF Ring!ForgedTo, Ring!ForgedFrom, Ring!Forged, Ring!Before, Ring!PointAt, Ring!rings
    <3> QED BY <1>1, <1>3, <1>5, <1>6, <1>7, <2>1, <3>1, CallKept DEF Ring!Closed
  <2>2. CASE i2 # i
    <3>1. i2 \in 1..(i - 1) /\ i2 \in DOMAIN Ring!rings
      BY <1>3, <1>4, <1>6, <2>2
    <3> QED BY <1>1, <1>2, <1>3, <1>7, <3>1, ClosedFrame
  <2> QED BY <2>1, <2>2
<1>9. Ring!rings' = Ring!rings /\ Ring!KeysAreTheirs' /\ Ring!NotRefused' /\ ~Ring!Returned'
  BY <1>1, <1>2, CallKept DEF Ring!Inv, Ring!NotRefused, Ring!Returned
<1>10. Ring!TypeOK'
  BY <1>1, <1>2, <1>7, TypeKept DEF Ring!TypeOK, Ring!At
<1>11. CASE i < Len(Ring!rings)
  <2>1. pc'.step = "open" /\ pc'.i = i + 1
    BY <1>1, <1>11 DEF Ring!At
  <2>2. i + 1 \in DOMAIN Ring!rings /\ (i + 1) - 1 = i
    BY <1>3, <1>4, <1>6, <1>11
  <2> QED BY <1>7, <1>8, <1>9, <1>10, <2>1, <2>2 DEF Ring!Inv
<1>12. CASE ~(i < Len(Ring!rings))
  <2>1. pc'.step = "first" /\ pc'.i = 1 /\ e0' = <<lasts', call'.m>>
    BY <1>1, <1>12 DEF Ring!At
  <2>2. i = Len(Ring!rings) /\ 1 \in DOMAIN Ring!rings
    BY <1>3, <1>4, <1>12
  <2>3. Ring!AllClosed'
    BY <1>4, <1>7, <1>8, <1>9, <2>1, <2>2 DEF Ring!AllClosed
  <2> QED BY <1>9, <1>10, <2>1, <2>2, <2>3 DEF Ring!Inv
<1> QED BY <1>11, <1>12

LEMMA FirstChallengeKeepsInv ==
  ASSUME Ring!BorromeanAssumption, HashAssumption, Ring!Inv, Ring!FirstChallenge
  PROVE  Ring!Inv'
<1>0. PICK i, v : i = pc.i /\ v = Hash(call.m, e0, i, 1)
  OBVIOUS
<1>1. pc.step = "first"
  BY DEF Ring!FirstChallenge
<1>2. ~Ring!Returned /\ Signable /\ Ring!TypeOK
  BY <1>1, MidCall DEF Ring!Inv
<1>3. i \in DOMAIN Ring!rings /\ Ring!AllClosed /\ \A i2 \in 1..(i - 1) : Ring!Answered(i2)
  BY <1>0, <1>1 DEF Ring!Inv
<1>4. CASE v = 0
  <2>1. Ring!Fail("zero challenge", i, 1)
    BY <1>0, <1>4 DEF Ring!FirstChallenge
  <2> QED BY <2>1, FailKeepsInv
<1>5. CASE v # 0
  <2>1. /\ Written(e, i, 1, v, e') /\ pc' = Ring!At("walk", i, 2)
        /\ call' = call /\ s' = s /\ r' = r /\ lasts' = lasts /\ e0' = e0 /\ result' = result
    BY <1>0, <1>5 DEF Ring!FirstChallenge, Written
  <2>2. call.idx[i] \in Nat \ {0} /\ 1 \in DOMAIN Ring!rings[i] /\ v \in Scalar
        /\ Ring!IsTable(e) /\ Ring!IsTable(s)
    BY <1>0, <1>2, <1>3 DEF Signable, HashAssumption, Ring!TypeOK
  <2>3. /\ Ring!IsTable(e') /\ e'[i][1] = v
        /\ \A i2 \in DOMAIN Ring!rings : \A j2 \in DOMAIN Ring!rings[i2] :
             i2 # i \/ j2 # 1 => e'[i2][j2] = e[i2][j2]
    <3>1. PICK f, g : f = e /\ g = e'
      OBVIOUS
    <3>2. Written(f, i, 1, v, g) /\ Ring!IsTable(f)
      BY <2>1, <2>2, <3>1
    <3>3. /\ Ring!IsTable(g) /\ g[i][1] = v
          /\ \A i2 \in DOMAIN Ring!rings : \A j2 \in DOMAIN Ring!rings[i2] :
               i2 # i \/ j2 # 1 => g[i2][j2] = f[i2][j2]
      BY <1>3, <2>2, <3>2, TableWrite
    <3> QED BY <3>1, <3>3
  <2>4. Ring!TypeOK'
    BY <1>2, <2>1, <2>2, <2>3, TypeKept DEF Ring!TypeOK, Ring!At
  <2>5. Ring!AllClosed'
    <3>1. ASSUME NEW i2 \in DOMAIN Ring!rings, NEW j2 \in (call.idx[i2] + 1)..Len(Ring!rings[i2])
          PROVE  e'[i2][j2] = e[i2][j2]
      <4>1. call.idx[i2] \in Nat \ {0} /\ DOMAIN Ring!rings[i2] = 1..Len(Ring!rings[i2])
              /\ Len(Ring!rings[i2]) \in Nat
        BY <1>2 DEF Signable
      <4>2. j2 # 1 /\ j2 \in DOMAIN Ring!rings[i2]
        BY <4>1
      <4> QED BY <2>3, <4>2
    <3> QED BY <1>2, <1>3, <2>1, <3>1, AllClosedFrame
  <2>6. ASSUME NEW i2 \in 1..(i - 1) PROVE Ring!Answered(i2)'
    <3>1. i2 \in DOMAIN Ring!rings /\ i2 # i
      BY <1>2, <1>3 DEF Signable
    <3>2. DOMAIN Ring!rings[i2] = 1..Len(Ring!rings[i2]) /\ call.idx[i2] \in 1..Len(Ring!rings[i2])
            /\ Len(Ring!rings[i2]) \in Nat
      BY <1>2, <3>1 DEF Signable
    <3>3. \A j2 \in 1..call.idx[i2] : j2 \in DOMAIN Ring!rings[i2]
      BY <3>2
    <3>4. \A j2 \in 1..call.idx[i2] : e'[i2][j2] = e[i2][j2] /\ s'[i2][j2] = s[i2][j2]
      BY <2>1, <2>3, <3>1, <3>3
    <3> QED BY <1>2, <1>3, <2>1, <3>1, <3>4, AnsweredFrame
  <2>7. Ring!MetTo(i, 1)'
    BY <1>0, <1>5, <2>1, <2>3 DEF Ring!MetTo, Ring!Met
  <2>8. Ring!rings' = Ring!rings /\ Ring!KeysAreTheirs' /\ Ring!NotRefused' /\ ~Ring!Returned'
    BY <1>1, <1>2, <2>1, CallKept DEF Ring!Inv, Ring!NotRefused, Ring!Returned
  <2>9. pc'.step = "walk" /\ pc'.i = i /\ pc'.j = 2 /\ 2 - 1 = 1 /\ 2 \in 2..(call'.idx[i] + 1)
    BY <2>1, <2>2 DEF Ring!At
  <2> QED BY <1>3, <2>4, <2>5, <2>6, <2>7, <2>8, <2>9 DEF Ring!Inv
<1> QED BY <1>4, <1>5

LEMMA WalkKeepsInv ==
  ASSUME Ring!BorromeanAssumption, HashAssumption, Ring!Inv, NEW drawn \in Scalar,
         Ring!Walk(drawn)
  PROVE  Ring!Inv'
<1>0. PICK i, j, R, v : /\ i = pc.i /\ j = pc.j
                        /\ R = Ring!RingPoint(e[i][j - 1], Ring!rings[i][j - 1], drawn)
                        /\ v = Hash(call.m, R, i, j)
  OBVIOUS
<1>1. pc.step = "walk" /\ j <= call.idx[i]
  BY <1>0 DEF Ring!Walk
<1>2. ~Ring!Returned /\ Signable /\ Ring!TypeOK
  BY <1>1, MidCall DEF Ring!Inv
<1>3. /\ i \in DOMAIN Ring!rings /\ Ring!AllClosed /\ \A i2 \in 1..(i - 1) : Ring!Answered(i2)
      /\ j \in 2..(call.idx[i] + 1) /\ Ring!MetTo(i, j - 1)
  BY <1>0, <1>1 DEF Ring!Inv
<1>4. CASE R = Ring!INF
  <2>1. Ring!Fail("infinity", i, j - 1)
    BY <1>0, <1>4 DEF Ring!Walk
  <2> QED BY <2>1, FailKeepsInv
<1>5. CASE R # Ring!INF /\ v = 0
  <2>1. Ring!Fail("zero challenge", i, j)
    BY <1>0, <1>5 DEF Ring!Walk
  <2> QED BY <2>1, FailKeepsInv
<1>6. CASE R # Ring!INF /\ v # 0
  <2>1. /\ Written(s, i, j - 1, drawn, s') /\ Written(e, i, j, v, e')
        /\ r' = R /\ pc' = Ring!At("walk", i, j + 1)
        /\ call' = call /\ lasts' = lasts /\ e0' = e0 /\ result' = result
    BY <1>0, <1>6 DEF Ring!Walk, Written
  <2>2. /\ Len(Ring!rings[i]) \in Nat /\ DOMAIN Ring!rings[i] = 1..Len(Ring!rings[i])
        /\ call.idx[i] \in 1..Len(Ring!rings[i])
        /\ \A j2 \in DOMAIN Ring!rings[i] : Ring!rings[i][j2] \in Finite
        /\ Ring!IsTable(e) /\ Ring!IsTable(s) /\ v \in Scalar
    BY <1>0, <1>2, <1>3 DEF Signable, HashAssumption, Ring!TypeOK
  <2>3. j \in 2..call.idx[i] /\ j \in DOMAIN Ring!rings[i] /\ j - 1 \in DOMAIN Ring!rings[i]
          /\ j # j - 1 /\ j - 1 \in Nat
    BY <1>1, <1>3, <2>2
  <2>4. /\ Ring!IsTable(e') /\ e'[i][j] = v
        /\ \A i2 \in DOMAIN Ring!rings : \A j2 \in DOMAIN Ring!rings[i2] :
             i2 # i \/ j2 # j => e'[i2][j2] = e[i2][j2]
    <3>1. PICK f, g : f = e /\ g = e'
      OBVIOUS
    <3>2. Written(f, i, j, v, g) /\ Ring!IsTable(f) /\ v \in Scalar
            /\ i \in DOMAIN Ring!rings /\ j \in DOMAIN Ring!rings[i]
      BY <1>3, <2>1, <2>2, <2>3, <3>1
    <3>3. /\ Ring!IsTable(g) /\ g[i][j] = v
          /\ \A i2 \in DOMAIN Ring!rings : \A j2 \in DOMAIN Ring!rings[i2] :
               i2 # i \/ j2 # j => g[i2][j2] = f[i2][j2]
      BY <3>2, TableWrite
    <3> QED BY <3>1, <3>3
  <2>5. /\ Ring!IsTable(s') /\ s'[i][j - 1] = drawn
        /\ \A i2 \in DOMAIN Ring!rings : \A j2 \in DOMAIN Ring!rings[i2] :
             i2 # i \/ j2 # j - 1 => s'[i2][j2] = s[i2][j2]
    <3>1. PICK f, g, at : f = s /\ g = s' /\ at = j - 1
      OBVIOUS
    <3>2. Written(f, i, at, drawn, g) /\ Ring!IsTable(f) /\ at \in DOMAIN Ring!rings[i]
      BY <2>1, <2>2, <2>3, <3>1
    <3>3. /\ Ring!IsTable(g) /\ g[i][at] = drawn
          /\ \A i2 \in DOMAIN Ring!rings : \A j2 \in DOMAIN Ring!rings[i2] :
               i2 # i \/ j2 # at => g[i2][j2] = f[i2][j2]
      BY <1>3, <3>2, TableWrite
    <3> QED BY <3>1, <3>3
  <2>6. r' \in Ring!Point
    <3>1. e[i] \in [DOMAIN Ring!rings[i] -> Scalar]
      BY <1>3, <2>2 DEF Ring!IsTable, Ring!Scalar, Scalar
    <3>2. e[i][j - 1] \in Scalar /\ Ring!rings[i][j - 1] \in Finite /\ drawn \in Int
      BY <2>2, <2>3, <3>1 DEF Scalar
    <3>3. R \in Point
      BY <1>0, <3>2, RingPointIs
    <3> QED BY <2>1, <3>3 DEF Ring!Point, Point
  <2>7. Ring!TypeOK'
    BY <1>2, <2>1, <2>4, <2>5, <2>6, TypeKept DEF Ring!TypeOK, Ring!At
  <2>8. Ring!AllClosed'
    <3>1. ASSUME NEW i2 \in DOMAIN Ring!rings, NEW j2 \in (call.idx[i2] + 1)..Len(Ring!rings[i2])
          PROVE  e'[i2][j2] = e[i2][j2] /\ s'[i2][j2] = s[i2][j2]
      <4>1. call.idx[i2] \in Nat \ {0} /\ DOMAIN Ring!rings[i2] = 1..Len(Ring!rings[i2])
              /\ Len(Ring!rings[i2]) \in Nat
        BY <1>2 DEF Signable
      <4>2. j2 \in DOMAIN Ring!rings[i2]
        BY <4>1
      <4>3. i2 # i \/ (j2 # j /\ j2 # j - 1)
        BY <2>3, <4>1
      <4> QED BY <2>4, <2>5, <4>2, <4>3
    <3> QED BY <1>2, <1>3, <2>1, <3>1, AllClosedFrame
  <2>9. ASSUME NEW i2 \in 1..(i - 1) PROVE Ring!Answered(i2)'
    <3>1. i2 \in DOMAIN Ring!rings /\ i2 # i
      BY <1>2, <1>3 DEF Signable
    <3>2. DOMAIN Ring!rings[i2] = 1..Len(Ring!rings[i2]) /\ call.idx[i2] \in 1..Len(Ring!rings[i2])
            /\ Len(Ring!rings[i2]) \in Nat
      BY <1>2, <3>1 DEF Signable
    <3>3. \A j2 \in 1..call.idx[i2] : j2 \in DOMAIN Ring!rings[i2]
      BY <3>2
    <3>4. \A j2 \in 1..call.idx[i2] : e'[i2][j2] = e[i2][j2] /\ s'[i2][j2] = s[i2][j2]
      BY <2>4, <2>5, <3>1, <3>3
    <3> QED BY <1>2, <1>3, <2>1, <3>1, <3>4, AnsweredFrame
  <2>10. Ring!MetTo(i, j)'
    <3>1. PICK last : last = j - 1
      OBVIOUS
    <3>2. last \in Nat /\ last + 1 = j /\ Ring!MetTo(i, last)
      BY <1>3, <2>3, <3>1
    <3>3. \A j2 \in 1..last : e'[i][j2] = e[i][j2]
      BY <1>3, <2>2, <2>3, <2>4, <3>1
    <3>4. \A j2 \in 1..(last - 1) : s'[i][j2] = s[i][j2]
      BY <1>3, <2>2, <2>3, <2>5, <3>1
    <3>5. Ring!MetTo(i, last)'
      BY <2>1, <3>2, <3>3, <3>4, MetFrame
    <3>6. e'[i][j - 1] = e[i][j - 1]
      BY <1>3, <2>3, <2>4
    <3>7. Ring!PointAt(i, j - 1)' = R
      BY <1>0, <2>1, <2>5, <3>6 DEF Ring!PointAt, Ring!rings
    <3>8. Ring!Met(i, j)'
      BY <1>0, <1>6, <2>1, <2>3, <2>4, <3>7 DEF Ring!Met
    <3>9. \A j2 \in 1..j : j2 = j \/ j2 \in 1..last
      BY <2>3, <3>1
    <3> QED BY <3>5, <3>8, <3>9 DEF Ring!MetTo
  <2>11. Ring!rings' = Ring!rings /\ Ring!KeysAreTheirs' /\ Ring!NotRefused' /\ ~Ring!Returned'
    BY <1>1, <1>2, <2>1, CallKept DEF Ring!Inv, Ring!NotRefused, Ring!Returned
  <2>12. pc'.step = "walk" /\ pc'.i = i /\ pc'.j = j + 1 /\ (j + 1) - 1 = j
           /\ j + 1 \in 2..(call'.idx[i] + 1)
    BY <2>1, <2>2, <2>3 DEF Ring!At
  <2> QED BY <1>3, <2>7, <2>8, <2>9, <2>10, <2>11, <2>12 DEF Ring!Inv
<1> QED BY <1>4, <1>5, <1>6

LEMMA CloseSignerKeepsInv ==
  ASSUME Ring!BorromeanAssumption, Ring!Inv, Ring!CloseSigner
  PROVE  Ring!Inv'
<1>0. PICK i, j, at, v : i = pc.i /\ j = pc.j /\ at = call.idx[i] /\ v = Ring!SignerS(i)
  OBVIOUS
<1>1. /\ pc.step = "walk" /\ j > at /\ Written(s, i, at, v, s')
      /\ call' = call /\ e' = e /\ r' = r /\ lasts' = lasts /\ e0' = e0
      /\ IF i < Len(Ring!rings) THEN pc' = Ring!At("first", i + 1, 1) /\ result' = result
         ELSE pc' = Ring!At("done", i, j) /\ result' = Ring!Outcome("ok", 0, 0)
  BY <1>0 DEF Ring!CloseSigner, Written
<1>2. ~Ring!Returned /\ Signable /\ Ring!TypeOK
  BY <1>1, MidCall DEF Ring!Inv
<1>3. /\ i \in DOMAIN Ring!rings /\ Ring!AllClosed /\ \A i2 \in 1..(i - 1) : Ring!Answered(i2)
      /\ j \in 2..(at + 1) /\ Ring!MetTo(i, j - 1)
  BY <1>0, <1>1 DEF Ring!Inv
<1>4. /\ Len(Ring!rings[i]) \in Nat /\ DOMAIN Ring!rings[i] = 1..Len(Ring!rings[i])
      /\ at \in 1..Len(Ring!rings[i]) /\ at \in Nat /\ at \in DOMAIN Ring!rings[i]
      /\ call.ks[i] \in Int /\ Ring!rings[i][at] \in Finite /\ call.qs[i] = Ring!rings[i][at]
      /\ Ring!IsTable(e) /\ Ring!IsTable(s)
      /\ Len(Ring!rings) \in Nat /\ DOMAIN Ring!rings = 1..Len(Ring!rings) /\ i \in Nat
  <2>1. PICK L, RR : L = Len(Ring!rings[i]) /\ RR = Ring!rings
    OBVIOUS
  <2>2. /\ L \in Nat /\ DOMAIN RR[i] = 1..L /\ at \in 1..L
        /\ \A k \in DOMAIN RR[i] : RR[i][k] \in Finite
        /\ call.ks[i] \in 1..(n - 1) /\ call.qs[i] = RR[i][at]
    BY <1>0, <1>2, <1>3, <2>1 DEF Signable
  <2>3. Len(RR) \in Nat /\ DOMAIN RR = 1..Len(RR) /\ i \in Nat
    BY <1>2, <1>3, <2>1 DEF Signable
  <2>4. at \in Nat /\ at \in DOMAIN RR[i] /\ RR[i][at] \in Finite /\ call.ks[i] \in Int
    BY <2>2, OrderPositive
  <2>5. Ring!IsTable(e) /\ Ring!IsTable(s)
    BY <1>2 DEF Ring!TypeOK
  <2> QED BY <2>1, <2>2, <2>3, <2>4, <2>5
<1>5. j = at + 1 /\ Ring!MetTo(i, at)
  <2>1. j = at + 1 /\ j - 1 = at
    BY <1>1, <1>3, <1>4
  <2> QED BY <1>3, <2>1
<1>6. v \in Scalar
  <2>1. e[i] \in [DOMAIN Ring!rings[i] -> Scalar]
    BY <1>3, <1>4 DEF Ring!IsTable, Ring!Scalar, Scalar
  <2>2. e[i][at] \in Int /\ call.qs[i] \in Int
    BY <1>4, <2>1 DEF Scalar, Finite, Point
  <2>3. call.ks[i] + call.qs[i] * e[i][at] \in Int
    BY <1>4, <2>2
  <2> QED BY <1>0, <2>3, OrderPositive, ModRange DEF Ring!SignerS, Scalar
<1>7. /\ Ring!IsTable(s') /\ s'[i][at] = v
      /\ \A i2 \in DOMAIN Ring!rings : \A j2 \in DOMAIN Ring!rings[i2] :
           i2 # i \/ j2 # at => s'[i2][j2] = s[i2][j2]
  <2>1. PICK f, g : f = s /\ g = s'
    OBVIOUS
  <2>2. Written(f, i, at, v, g) /\ Ring!IsTable(f) /\ v \in Scalar
          /\ i \in DOMAIN Ring!rings /\ at \in DOMAIN Ring!rings[i]
    BY <1>1, <1>3, <1>4, <1>6, <2>1
  <2>3. /\ Ring!IsTable(g) /\ g[i][at] = v
        /\ \A i2 \in DOMAIN Ring!rings : \A j2 \in DOMAIN Ring!rings[i2] :
             i2 # i \/ j2 # at => g[i2][j2] = f[i2][j2]
    BY <2>2, TableWrite
  <2> QED BY <2>1, <2>3
<1>8. Ring!IsTable(e') /\ r' \in Ring!Point /\ lasts' \in Seq(Ring!Point)
  BY <1>1, <1>2, <1>4 DEF Ring!TypeOK
<1>9. Ring!TypeOK'
  <2>1. pc'.step \in {"first", "done"}
    BY <1>1 DEF Ring!At
  <2> QED BY <1>1, <1>2, <1>7, <1>8, <2>1, TypeKept
<1>10. Ring!AllClosed'
  <2>1. ASSUME NEW i2 \in DOMAIN Ring!rings, NEW j2 \in (call.idx[i2] + 1)..Len(Ring!rings[i2])
        PROVE  e'[i2][j2] = e[i2][j2] /\ s'[i2][j2] = s[i2][j2]
    <3>1. call.idx[i2] \in Nat \ {0} /\ DOMAIN Ring!rings[i2] = 1..Len(Ring!rings[i2])
            /\ Len(Ring!rings[i2]) \in Nat
      BY <1>2 DEF Signable
    <3>2. j2 \in DOMAIN Ring!rings[i2]
      BY <3>1
    <3>3. i2 # i \/ j2 # at
      BY <1>0, <1>4, <3>1
    <3> QED BY <1>1, <1>7, <3>2, <3>3
  <2> QED BY <1>1, <1>2, <1>3, <2>1, AllClosedFrame
<1>11. ASSUME NEW i2 \in 1..i PROVE Ring!Answered(i2)'
  <2>1. CASE i2 = i
    <3>1. \A j2 \in 1..(at - 1) : s'[i][j2] = s[i][j2]
      BY <1>3, <1>4, <1>7
    <3>2. Ring!MetTo(i, at)'
      BY <1>1, <1>4, <1>5, <3>1, MetFrame
    <3>3. Ring!SignerS(i)' = v
      BY <1>0, <1>1 DEF Ring!SignerS
    <3> QED BY <1>0, <1>1, <1>7, <2>1, <3>2, <3>3 DEF Ring!Answered
  <2>2. CASE i2 # i
    <3>1. i2 \in DOMAIN Ring!rings /\ i2 \in 1..(i - 1)
      BY <1>3, <1>4, <2>2
    <3>2. DOMAIN Ring!rings[i2] = 1..Len(Ring!rings[i2]) /\ call.idx[i2] \in 1..Len(Ring!rings[i2])
            /\ Len(Ring!rings[i2]) \in Nat
      BY <1>2, <3>1 DEF Signable
    <3>3. \A j2 \in 1..call.idx[i2] : j2 \in DOMAIN Ring!rings[i2]
      BY <3>2
    <3>4. \A j2 \in 1..call.idx[i2] : e'[i2][j2] = e[i2][j2] /\ s'[i2][j2] = s[i2][j2]
      BY <1>1, <1>7, <2>2, <3>1, <3>3
    <3> QED BY <1>1, <1>2, <1>3, <3>1, <3>4, AnsweredFrame
  <2> QED BY <2>1, <2>2
<1>12. Ring!rings' = Ring!rings /\ Ring!KeysAreTheirs' /\ Ring!NotRefused'
  BY <1>1, <1>2, CallKept DEF Ring!Inv, Ring!NotRefused
<1>13. CASE i < Len(Ring!rings)
  <2>1. pc'.step = "first" /\ pc'.i = i + 1 /\ ~Ring!Returned'
    BY <1>1, <1>2, <1>13 DEF Ring!At, Ring!Returned
  <2>2. i + 1 \in DOMAIN Ring!rings /\ (i + 1) - 1 = i
    BY <1>3, <1>4, <1>13
  <2> QED BY <1>9, <1>10, <1>11, <1>12, <2>1, <2>2 DEF Ring!Inv
<1>14. CASE ~(i < Len(Ring!rings))
  <2>1. pc'.step = "done"
    BY <1>1, <1>14 DEF Ring!At
  <2>2. \A i2 \in DOMAIN Ring!rings : i2 \in 1..i
    BY <1>3, <1>4, <1>14
  <2> QED BY <1>9, <1>10, <1>11, <1>12, <2>1, <2>2 DEF Ring!Inv
<1> QED BY <1>13, <1>14

LEMMA StutterKeepsInv ==
  ASSUME Ring!Inv, UNCHANGED Ring!vars
  PROVE  Ring!Inv'
<1>1. /\ call' = call /\ e' = e /\ s' = s /\ r' = r /\ lasts' = lasts /\ e0' = e0
      /\ pc' = pc /\ result' = result
  BY DEF Ring!vars
<1>2. /\ Ring!rings' = Ring!rings /\ Ring!KeysAreTheirs' = Ring!KeysAreTheirs
      /\ Ring!Returned' = Ring!Returned /\ Ring!NotRefused' = Ring!NotRefused
  BY <1>1, CallKept DEF Ring!Returned, Ring!NotRefused
<1>3. Ring!TypeOK'
  BY <1>1 DEF Ring!Inv, Ring!TypeOK, Ring!rings, Ring!IsTable
<1>4. \A i, j : Ring!PointAt(i, j)' = Ring!PointAt(i, j)
  BY <1>1 DEF Ring!PointAt, Ring!rings
<1>5. \A i, j : Ring!Before(i, j)' = Ring!Before(i, j)
  BY <1>1, <1>4 DEF Ring!Before
<1>6. \A i, last : Ring!ForgedTo(i, last)' = Ring!ForgedTo(i, last)
  BY <1>1, <1>4, <1>5 DEF Ring!ForgedTo, Ring!ForgedFrom, Ring!Forged
<1>7. \A i : Ring!Closed(i)' = Ring!Closed(i)
  BY <1>1, <1>2, <1>5, <1>6 DEF Ring!Closed
<1>8. Ring!AllClosed' = Ring!AllClosed
  BY <1>1, <1>2, <1>7 DEF Ring!AllClosed
<1>9. \A i, last : Ring!MetTo(i, last)' = Ring!MetTo(i, last)
  BY <1>1, <1>4 DEF Ring!MetTo, Ring!Met
<1>10. \A i : Ring!Answered(i)' = Ring!Answered(i)
  BY <1>1, <1>9 DEF Ring!Answered, Ring!SignerS
<1>11. /\ Ring!ForgedTo(pc.i, pc.j - 1)' = Ring!ForgedTo(pc.i, pc.j - 1)
       /\ Ring!MetTo(pc.i, pc.j - 1)' = Ring!MetTo(pc.i, pc.j - 1)
       /\ Ring!Before(pc.i, pc.j)' = Ring!Before(pc.i, pc.j)
       /\ Ring!ForgedFrom(pc.i)' = Ring!ForgedFrom(pc.i)
  BY <1>1, <1>5, <1>6, <1>9 DEF Ring!ForgedFrom, Ring!ForgedTo, Ring!MetTo, Ring!Before
<1> QED BY <1>1, <1>2, <1>3, <1>7, <1>8, <1>10, <1>11 DEF Ring!Inv

\* The inductive invariant of one call of sign_: whatever has been walked of
\* the rings is a chain of challenges and points, each made from the one before.
THEOREM RingInvariant ==
  ASSUME Ring!BorromeanAssumption, HashAssumption
  PROVE  Ring!Spec => []Ring!Inv
<1>1. Ring!Init => Ring!Inv
  BY RingInit
<1>2. Ring!Inv /\ [Ring!Next]_Ring!vars => Ring!Inv'
  <2> SUFFICES ASSUME Ring!Inv, [Ring!Next]_Ring!vars PROVE Ring!Inv'
    OBVIOUS
  <2>1. CASE Ring!Start
    BY <2>1, StartKeepsInv
  <2>2. CASE Ring!OpenRing
    BY <2>2, OpenRingKeepsInv
  <2>3. CASE Ring!Forge
    BY <2>3, ForgeKeepsInv
  <2>4. CASE Ring!CloseRing
    BY <2>4, CloseRingKeepsInv
  <2>5. CASE Ring!FirstChallenge
    BY <2>5, FirstChallengeKeepsInv
  <2>6. CASE \E drawn \in Ring!Scalar : Ring!Walk(drawn)
    <3>1. PICK drawn \in Scalar : Ring!Walk(drawn)
      BY <2>6 DEF Ring!Scalar, Scalar
    <3> QED BY <3>1, WalkKeepsInv
  <2>7. CASE Ring!CloseSigner
    BY <2>7, CloseSignerKeepsInv
  <2>8. CASE UNCHANGED Ring!vars
    BY <2>8, StutterKeepsInv
  <2> QED BY <2>1, <2>2, <2>3, <2>4, <2>5, <2>6, <2>7, <2>8 DEF Ring!Next
<1> QED BY <1>1, <1>2, PTL DEF Ring!Spec

-----------------------------------------------------------------------------
\* The challenges of a walk are the one function its recursion admits.
IsWalk(m, ring, s_, e0_, i, last, f) ==
  \A j \in 1..last :
    f[j] = IF j = 1 THEN Hash(m, e0_, i, 1)
           ELSE Hash(m, Ring!RingPoint(f[j - 1], ring[j - 1], s_[j - 1]), i, j)

LEMMA ChallengesAre ==
  ASSUME NEW m, NEW ring, NEW s_, NEW e0_, NEW i, NEW last \in Nat, DOMAIN ring = 1..last,
         NEW X, NEW f \in [1..last -> X], IsWalk(m, ring, s_, e0_, i, last, f)
  PROVE  Ring!Challenges(m, ring, s_, e0_, i) = f
<1> DEFINE Unfold(c) == [j \in 1..last |->
                           IF j = 1 THEN Hash(m, e0_, i, 1)
                           ELSE Hash(m, Ring!RingPoint(c[j - 1], ring[j - 1], s_[j - 1]), i, j)]
<1>1. f = Unfold(f)
  BY DEF IsWalk
<1>2. Ring!Challenges(m, ring, s_, e0_, i) = CHOOSE c : c = Unfold(c)
  BY DEF Ring!Challenges
<1>3. ASSUME NEW c, c = Unfold(c) PROVE c = f
  <2> DEFINE S == {j \in Nat : j \in 1..last => c[j] = f[j]}
  <2>1. 0 \in S
    OBVIOUS
  <2>2. ASSUME NEW j \in Nat, j \in S PROVE j + 1 \in S
    <3>1. SUFFICES ASSUME j + 1 \in 1..last PROVE c[j + 1] = f[j + 1]
      OBVIOUS
    <3>2. c[j + 1] = Unfold(c)[j + 1]
      BY <1>3
    <3>3. CASE j = 0
      BY <3>1, <3>2, <3>3 DEF IsWalk
    <3>4. CASE j # 0
      <4>1. j \in 1..last /\ j + 1 # 1 /\ (j + 1) - 1 = j
        BY <3>1, <3>4
      <4>2. c[j] = f[j]
        BY <2>2, <4>1
      <4>3. c[j + 1] = Hash(m, Ring!RingPoint(c[j], ring[j], s_[j]), i, j + 1)
        BY <3>1, <3>2, <4>1
      <4>4. f[j + 1] = Hash(m, Ring!RingPoint(f[j], ring[j], s_[j]), i, j + 1)
        BY <3>1, <4>1 DEF IsWalk
      <4> QED BY <4>2, <4>3, <4>4
    <3> QED BY <3>3, <3>4
  <2>3. Nat \subseteq S
    <3> HIDE DEF S
    <3> QED BY <2>1, <2>2, SetInduction
  <2>4. \A j \in 1..last : c[j] = f[j]
    BY <2>3
  <2>5. DOMAIN c = 1..last /\ c = [j \in 1..last |-> c[j]]
    BY <1>3
  <2> QED BY <2>4, <2>5
<1> HIDE DEF Unfold
<1> QED BY <1>1, <1>2, <1>3

\* A ring of a signature that is returned: each challenge is made from the point
\* before it, and the last point is the one that was hashed.
LEMMA RingWalk ==
  ASSUME Ring!BorromeanAssumption, Ring!Inv, Ring!Returned, NEW i \in DOMAIN Ring!rings
  PROVE  /\ Ring!Challenges(call.m, Ring!rings[i], s[i], e0, i) = e[i]
         /\ lasts[i] = Ring!PointAt(i, Len(Ring!rings[i]))
         /\ \A j \in DOMAIN Ring!rings[i] :
              e[i][j] \in Scalar /\ e[i][j] # 0 /\ s[i][j] \in Scalar
                /\ Ring!PointAt(i, j) \in Finite
<1>1. Signable /\ Ring!TypeOK /\ Ring!Closed(i) /\ Ring!Answered(i)
  <2>1. Ring!Refused(call) = "ok" /\ Ring!TypeOK /\ Ring!KeysAreTheirs
    BY DEF Ring!Inv, Ring!NotRefused
  <2>2. Ring!Closed(i) /\ Ring!Answered(i)
    BY DEF Ring!Inv, Ring!AllClosed
  <2> QED BY <2>1, <2>2, CallFacts
<1>2. PICK last, at : last = Len(Ring!rings[i]) /\ at = call.idx[i]
  OBVIOUS
<1>3. /\ last \in Nat /\ DOMAIN Ring!rings[i] = 1..last /\ at \in 1..last /\ at \in Nat
      /\ \A j \in 1..last : Ring!rings[i][j] \in Finite
      /\ call.ks[i] \in 1..(n - 1) /\ call.qs[i] = Ring!rings[i][at]
  BY <1>1, <1>2 DEF Signable
<1>4. e[i] \in [1..last -> Scalar] /\ s[i] \in [1..last -> Scalar]
  BY <1>1, <1>3 DEF Ring!TypeOK, Ring!IsTable, Ring!Scalar, Scalar
<1>5. ASSUME NEW j \in 1..last PROVE e[i][j] \in Scalar /\ s[i][j] \in Scalar /\ Ring!PointAt(i, j) \in Point
  <2>1. e[i][j] \in Scalar /\ s[i][j] \in Scalar /\ s[i][j] \in Int /\ Ring!rings[i][j] \in Finite
    BY <1>3, <1>4 DEF Scalar
  <2> QED BY <2>1, RingPointIs DEF Ring!PointAt
<1>6. Ring!PointAt(i, at) = Ring!Mult(call.ks[i], Ring!G) /\ Ring!PointAt(i, at) # Ring!INF
  <2>1. s[i][at] = (call.ks[i] + Ring!rings[i][at] * e[i][at]) % n
    BY <1>1, <1>2, <1>3 DEF Ring!Answered, Ring!SignerS
  <2>2. e[i][at] \in Scalar /\ Ring!rings[i][at] \in Finite
    BY <1>3, <1>5
  <2> QED BY <1>3, <2>1, <2>2, SignerPoint DEF Ring!PointAt, Ring!INF, Finite, INF
<1>7. \A j \in (at + 1)..(last + 1) : Ring!Before(i, j) = Ring!PointAt(i, j - 1)
  BY <1>2, <1>3, <1>6 DEF Ring!Before
<1>8. ASSUME NEW j \in (at + 1)..last
      PROVE  e[i][j] = Hash(call.m, Ring!PointAt(i, j - 1), i, j) /\ e[i][j] # 0
               /\ Ring!PointAt(i, j) # Ring!INF
  <2>1. Ring!Forged(i, j)
    BY <1>1, <1>2 DEF Ring!Closed, Ring!ForgedTo, Ring!ForgedFrom
  <2>2. j \in (at + 1)..(last + 1)
    BY <1>3
  <2> QED BY <1>7, <2>1, <2>2 DEF Ring!Forged
<1>9. ASSUME NEW j \in 1..at PROVE Ring!Met(i, j)
  BY <1>1, <1>2 DEF Ring!Answered, Ring!MetTo
<1>10. ASSUME NEW j \in 1..last PROVE e[i][j] # 0 /\ Ring!PointAt(i, j) # Ring!INF
  <2>1. CASE j \in (at + 1)..last
    BY <1>8, <2>1
  <2>2. CASE j = at
    <3>1. e[i][at] # 0
      BY <1>3, <1>9 DEF Ring!Met
    <3> QED BY <1>6, <2>2, <3>1
  <2>3. CASE j \in 1..(at - 1)
    <3>1. e[i][j] # 0
      BY <1>3, <1>9, <2>3 DEF Ring!Met
    <3>2. j + 1 \in 1..at /\ j + 1 # 1 /\ (j + 1) - 1 = j
      BY <1>3, <2>3
    <3>3. Ring!PointAt(i, j) # Ring!INF
      BY <1>9, <3>2 DEF Ring!Met
    <3> QED BY <3>1, <3>3
  <2> QED BY <1>3, <2>1, <2>2, <2>3
<1>11. ASSUME NEW j \in 1..last
       PROVE  e[i][j] = IF j = 1 THEN Hash(call.m, e0, i, 1)
                        ELSE Hash(call.m, Ring!PointAt(i, j - 1), i, j)
  <2>1. CASE j = 1
    <3>1. 1 \in 1..at
      BY <1>3
    <3> QED BY <1>9, <2>1, <3>1 DEF Ring!Met
  <2>2. CASE j # 1 /\ j \in 1..at
    BY <1>9, <2>2 DEF Ring!Met
  <2>3. CASE j \in (at + 1)..last
    BY <1>3, <1>8, <2>3
  <2> QED BY <1>3, <2>1, <2>2, <2>3
<1>12. Ring!Challenges(call.m, Ring!rings[i], s[i], e0, i) = e[i]
  <2>1. \A j \in 1..last :
          e[i][j] = IF j = 1 THEN Hash(call.m, e0, i, 1)
                    ELSE Hash(call.m, Ring!RingPoint(e[i][j - 1], Ring!rings[i][j - 1], s[i][j - 1]), i, j)
    BY <1>11 DEF Ring!PointAt
  <2>2. PICK m, ring, s_, e0_, f : m = call.m /\ ring = Ring!rings[i] /\ s_ = s[i] /\ e0_ = e0 /\ f = e[i]
    OBVIOUS
  <2>3. /\ last \in Nat /\ DOMAIN ring = 1..last /\ f \in [1..last -> Scalar]
        /\ IsWalk(m, ring, s_, e0_, i, last, f)
    BY <1>3, <1>4, <2>1, <2>2 DEF IsWalk
  <2>4. Ring!Challenges(m, ring, s_, e0_, i) = f
    BY <2>3, ChallengesAre
  <2> QED BY <2>2, <2>4
<1>13. lasts[i] = Ring!PointAt(i, last)
  <2>1. last + 1 \in (at + 1)..(last + 1) /\ (last + 1) - 1 = last
    BY <1>3
  <2>2. lasts[i] = Ring!Before(i, last + 1)
    BY <1>1, <1>2 DEF Ring!Closed
  <2> QED BY <1>7, <2>1, <2>2
<1> QED BY <1>2, <1>3, <1>5, <1>10, <1>12, <1>13 DEF Ring!INF, Finite, INF

\* What assert_as_valid accepts.
LEMMA Accepted ==
  ASSUME NEW m, NEW sig, NEW rs, Ring!AssertValid(sig.s) = "ok",
         Ring!MatchesPubkRings(rs, sig.s), ~Ring!AnyBadKey(rs), NEW f, NEW z,
         f = [i \in DOMAIN rs |-> Ring!Challenges(m, rs[i], sig.s[i], sig.e0, i)],
         \A i \in DOMAIN rs : \A j \in DOMAIN rs[i] :
           f[i][j] # 0 /\ Ring!RingPoint(f[i][j], rs[i][j], sig.s[i][j]) # Ring!INF,
         z = [i \in DOMAIN rs |->
               Ring!RingPoint(f[i][Len(rs[i])], rs[i][Len(rs[i])], sig.s[i][Len(rs[i])])],
         sig.e0 = <<z, m>>
  PROVE  Ring!AssertAsValid(m, sig, rs) = [err |-> "ok", at |-> <<0, 0>>]
<1> DEFINE c == [i \in DOMAIN rs |-> Ring!Challenges(m, rs[i], sig.s[i], sig.e0, i)]
           R(i, j) == Ring!RingPoint(c[i][j], rs[i][j], sig.s[i][j])
           positions == UNION {{i} \X DOMAIN rs[i] : i \in DOMAIN rs}
           stops == {p \in positions : c[p[1]][p[2]] = 0 \/ R(p[1], p[2]) = Ring!INF}
           first == CHOOSE p \in stops :
                      \A q \in stops : p[1] < q[1] \/ (p[1] = q[1] /\ p[2] <= q[2])
           last == [i \in DOMAIN rs |-> R(i, Len(rs[i]))]
           ok == [err |-> "ok", at |-> <<0, 0>>]
<1>1. stops = {}
  <2>1. ASSUME NEW p \in positions PROVE c[p[1]][p[2]] # 0 /\ R(p[1], p[2]) # Ring!INF
    <3>1. PICK i \in DOMAIN rs : p \in {i} \X DOMAIN rs[i]
      OBVIOUS
    <3>2. p[1] = i /\ p[2] \in DOMAIN rs[i]
      BY <3>1
    <3> QED BY <3>2
  <2> HIDE DEF c, R, positions
  <2> QED BY <2>1
<1>2. last = z
  OBVIOUS
<1>3. Ring!AssertAsValid(m, sig, rs) =
        IF Ring!AssertValid(sig.s) # "ok" THEN [err |-> Ring!AssertValid(sig.s), at |-> <<0, 0>>]
        ELSE IF ~Ring!MatchesPubkRings(rs, sig.s) THEN [err |-> "shape", at |-> <<0, 0>>]
        ELSE IF Ring!AnyBadKey(rs) THEN [err |-> "ring key", at |-> <<0, 0>>]
        ELSE IF stops # {}
             THEN [err |-> IF c[first[1]][first[2]] = 0 THEN "zero challenge" ELSE "infinity",
                   at |-> first]
        ELSE IF <<last, m>> # sig.e0 THEN [err |-> "open", at |-> <<0, 0>>]
        ELSE ok
  BY Zenon DEF Ring!AssertAsValid
<1> HIDE DEF stops, last, c, first
<1> QED BY <1>1, <1>2, <1>3

\* The rings of a signature that is returned close on the e0 they start from.
LEMMA RingsClose ==
  ASSUME Ring!BorromeanAssumption, Ring!Inv
  PROVE  Ring!SignaturesClose
<1>1. SUFFICES ASSUME Ring!Returned
               PROVE  Ring!AssertAsValid(call.m, Ring!Sig, Ring!rings).err = "ok"
  BY DEF Ring!SignaturesClose
<1>2. Signable /\ Ring!TypeOK /\ Ring!AllClosed /\ Ring!Refused(call) = "ok"
  <2>1. Ring!Refused(call) = "ok" /\ Ring!TypeOK /\ Ring!KeysAreTheirs
    BY <1>1 DEF Ring!Inv, Ring!NotRefused
  <2>2. Ring!AllClosed
    BY <1>1 DEF Ring!Inv
  <2> QED BY <2>1, <2>2, CallFacts
<1>3. Ring!Sig.s = s /\ Ring!Sig.e0 = e0
  BY DEF Ring!Sig
<1>4. /\ DOMAIN s = DOMAIN Ring!rings /\ DOMAIN Ring!rings = 1..Len(Ring!rings)
      /\ Len(Ring!rings) \in Nat \ {0}
      /\ \A i \in DOMAIN Ring!rings : s[i] \in [DOMAIN Ring!rings[i] -> Scalar]
  BY <1>2 DEF Ring!TypeOK, Ring!IsTable, Ring!Scalar, Scalar, Signable
<1>5. \A i \in DOMAIN Ring!rings :
        /\ Len(Ring!rings[i]) \in Nat \ {0} /\ DOMAIN Ring!rings[i] = 1..Len(Ring!rings[i])
  BY <1>2 DEF Signable
<1>6. Ring!AssertValid(s) = "ok"
  <2>1. s # << >>
    BY <1>4
  <2>2. << >> \notin Ring!ToSet(s)
    BY <1>4, <1>5 DEF Ring!ToSet
  <2>3. ~ \E i \in DOMAIN s : \E j \in DOMAIN s[i] : s[i][j] \notin Ring!Scalar
    BY <1>4 DEF Ring!Scalar, Scalar
  <2> QED BY <2>1, <2>2, <2>3 DEF Ring!AssertValid
<1>7. Ring!MatchesPubkRings(Ring!rings, s)
  <2>1. ASSUME NEW i \in DOMAIN s PROVE Len(s[i]) = Len(Ring!rings[i])
    BY <1>4, <1>5
  <2> QED BY <1>4, <2>1 DEF Ring!MatchesPubkRings
<1>8. ~Ring!AnyBadKey(Ring!rings)
  BY <1>2 DEF Ring!Refused, Ring!rings
<1>9. PICK f, z, sig, m, rs :
        /\ sig = Ring!Sig /\ m = call.m /\ rs = Ring!rings
        /\ f = [i \in DOMAIN rs |-> Ring!Challenges(m, rs[i], sig.s[i], sig.e0, i)]
        /\ z = [i \in DOMAIN rs |->
                 Ring!RingPoint(f[i][Len(rs[i])], rs[i][Len(rs[i])], sig.s[i][Len(rs[i])])]
  OBVIOUS
<1>10. ASSUME NEW i \in DOMAIN rs
       PROVE  /\ f[i] = e[i] /\ lasts[i] = Ring!PointAt(i, Len(rs[i]))
              /\ \A j \in DOMAIN rs[i] :
                   /\ f[i][j] # 0
                   /\ Ring!RingPoint(f[i][j], rs[i][j], sig.s[i][j]) = Ring!PointAt(i, j)
                   /\ Ring!PointAt(i, j) # Ring!INF
  <2>1. f[i] = e[i]
    BY <1>1, <1>3, <1>9, RingWalk
  <2> QED BY <1>1, <1>3, <1>9, <2>1, RingWalk DEF Ring!PointAt, Ring!INF, Finite, INF
<1>11. z = lasts
  <2>1. DOMAIN lasts = DOMAIN rs /\ lasts \in Seq(Ring!Point)
    BY <1>2, <1>4, <1>9 DEF Ring!AllClosed, Ring!TypeOK
  <2>2. ASSUME NEW i \in DOMAIN rs PROVE z[i] = lasts[i]
    <3>1. Len(rs[i]) \in DOMAIN rs[i]
      BY <1>5, <1>9
    <3>2. z[i] = Ring!PointAt(i, Len(rs[i]))
      BY <1>9, <1>10, <3>1
    <3> QED BY <1>10, <3>2
  <2>3. z = [i \in DOMAIN rs |-> z[i]]
    BY <1>9
  <2> QED BY <2>1, <2>2, <2>3
<1>12. sig.e0 = <<z, m>>
  BY <1>2, <1>3, <1>9, <1>11 DEF Ring!AllClosed
<1>13. Ring!AssertAsValid(m, sig, rs) = [err |-> "ok", at |-> <<0, 0>>]
  <2>1. Ring!AssertValid(sig.s) = "ok" /\ Ring!MatchesPubkRings(rs, sig.s) /\ ~Ring!AnyBadKey(rs)
    BY <1>3, <1>6, <1>7, <1>8, <1>9
  <2>2. \A i \in DOMAIN rs : \A j \in DOMAIN rs[i] :
          f[i][j] # 0 /\ Ring!RingPoint(f[i][j], rs[i][j], sig.s[i][j]) # Ring!INF
    BY <1>10
  <2> QED BY <1>9, <1>12, <2>1, <2>2, Accepted
<1> QED BY <1>9, <1>13

\* Every member of every ring could have made the signature.
LEMMA MembersCouldSign ==
  ASSUME Ring!BorromeanAssumption, Ring!Inv
  PROVE  Ring!AnyMemberCouldSign
<1>1. SUFFICES ASSUME Ring!Returned, NEW i \in DOMAIN Ring!rings, NEW j \in DOMAIN Ring!rings[i]
               PROVE  \E k \in 1..(n - 1) :
                        s[i][j] = (k + Ring!rings[i][j] * Ring!Challenges(call.m, Ring!rings[i], s[i], e0, i)[j]) % n
  BY DEF Ring!AnyMemberCouldSign
<1>2. Signable
  <2>1. Ring!Refused(call) = "ok" /\ Ring!TypeOK /\ Ring!KeysAreTheirs
    BY <1>1 DEF Ring!Inv, Ring!NotRefused
  <2> QED BY <2>1, CallFacts
<1>3. PICK c, k : c = e[i][j] /\ k = Ring!PointAt(i, j)
  OBVIOUS
<1>4. /\ c \in Scalar /\ s[i][j] \in Scalar /\ k \in Finite /\ Ring!rings[i][j] \in Finite
      /\ Ring!Challenges(call.m, Ring!rings[i], s[i], e0, i)[j] = c
  BY <1>1, <1>2, <1>3, RingWalk DEF Signable
<1>5. s[i][j] = (k + Ring!rings[i][j] * c) % n
  BY <1>3, <1>4, MemberNonce DEF Ring!PointAt
<1>6. k \in 1..(n - 1)
  BY <1>4, OrderPositive DEF Finite, Point, INF
<1> QED BY <1>4, <1>5, <1>6

\* sign_ returns no signature that assert_as_valid refuses, whatever the rings,
\* the signing indexes, the nonces and the s values drawn.
THEOREM RingSignaturesClose ==
  ASSUME Ring!BorromeanAssumption, HashAssumption
  PROVE  Ring!Spec => []Ring!SignaturesClose
<1>1. Ring!Inv => Ring!SignaturesClose
  BY RingsClose
<1> QED BY <1>1, RingInvariant, PTL

\* A ring signature does not tell which member of each ring signed it.
THEOREM RingSignersAreHidden ==
  ASSUME Ring!BorromeanAssumption, HashAssumption
  PROVE  Ring!Spec => []Ring!AnyMemberCouldSign
<1>1. Ring!Inv => Ring!AnyMemberCouldSign
  BY MembersCouldSign
<1> QED BY <1>1, RingInvariant, PTL

-----------------------------------------------------------------------------
(***************************************************************************)
(* Envelopes: the cipher of a recipient runs on what was encrypted to him, *)
(* whatever becomes of the texts on the way, and then gives the message.   *)
(***************************************************************************)
CONSTANTS PrvKeys, EphPrvKeys, Magics, Messages, MaxSent
VARIABLES sent, text, opened

Env == INSTANCE Ecies

\* The order is a prime: every scalar but zero has an inverse.
Prime == \A k \in 1..(n - 1) : \E i \in 1..(n - 1) : (k * i) % n = 1

\* A compressed point is read back as itself.
LEMMA PointOfSec ==
  ASSUME NEW P \in Finite
  PROVE  /\ Env!IsSec(Env!Sec(P)) /\ Env!PointOf(Env!Sec(P)) = P
<1>1. Env!Finite = Finite /\ n \in Nat
  BY OrderPositive DEF Env!Finite, Env!Point, Env!INF, Finite, Point, INF
<1>2. ASSUME NEW Q \in Finite, Env!Sec(Q) = Env!Sec(P) PROVE Q = P
  <2>1. P \in Int /\ Q \in Int
    BY OrderPositive DEF Finite, Point
  <2>2. (P < n - P <=> Q < n - Q) /\ Env!XOf(P) = Env!XOf(Q)
    BY <1>2 DEF Env!Sec
  <2> QED BY <1>1, <2>1, <2>2 DEF Env!XOf
<1>3. Env!PointOf(Env!Sec(P)) \in Finite /\ Env!Sec(Env!PointOf(Env!Sec(P))) = Env!Sec(P)
  BY <1>1 DEF Env!PointOf
<1> QED BY <1>1, <1>2, <1>3 DEF Env!IsSec

\* The concatenation and the parts of sequences, position by position.
IsJoin(w, u, v) == w = u \o v
IsPiece(y, x, a, b) == y = SubSeq(x, a, b)
JoinFacts(w, u, v, X) ==
  /\ w \in Seq(X) /\ Len(w) = Len(u) + Len(v)
  /\ \A i \in 1..Len(u) : w[i] = u[i]
  /\ \A i \in 1..Len(v) : w[Len(u) + i] = v[i]
PieceFacts(y, x, a, b, X) ==
  /\ y \in Seq(X) /\ Len(y) = b - a + 1
  /\ \A i \in 1..(b - a + 1) : y[i] = x[a + i - 1]

LEMMA Joined ==
  ASSUME NEW X, NEW u \in Seq(X), NEW v \in Seq(X), NEW w, IsJoin(w, u, v)
  PROVE  JoinFacts(w, u, v, X)
<1>1. PICK k, m : k = Len(u) /\ m = Len(v)
  OBVIOUS
<1>2. k \in Nat /\ m \in Nat
  BY <1>1
<1>3. /\ w \in Seq(X) /\ Len(w) = Len(u) + Len(v)
      /\ \A i \in 1..(Len(u) + Len(v)) : w[i] = IF i <= Len(u) THEN u[i] ELSE v[i - Len(u)]
  BY ConcatProperties DEF IsJoin
<1>4. \A i \in 1..(k + m) : w[i] = IF i <= k THEN u[i] ELSE v[i - k]
  BY <1>1, <1>3
<1>5. \A i \in 1..k : w[i] = u[i]
  <2>1. \A i \in 1..k : i \in 1..(k + m) /\ i <= k
    BY <1>2
  <2> QED BY <1>4, <2>1
<1>6. \A i \in 1..m : w[k + i] = v[i]
  <2>1. \A i \in 1..m : k + i \in 1..(k + m) /\ ~(k + i <= k) /\ (k + i) - k = i
    BY <1>2
  <2> QED BY <1>4, <2>1
<1> QED BY <1>1, <1>3, <1>5, <1>6 DEF JoinFacts

LEMMA Piece ==
  ASSUME NEW X, NEW x \in Seq(X), NEW a \in 1..(Len(x) + 1), NEW b \in (a - 1)..Len(x),
         NEW y, IsPiece(y, x, a, b)
  PROVE  PieceFacts(y, x, a, b, X)
<1>1. a \in Int /\ b \in Int /\ b - a + 1 >= 0 /\ \A i \in a..b : x[i] \in X
  <2>1. Len(x) \in Nat
    OBVIOUS
  <2>2. a \in Int /\ b \in Int /\ a >= 1 /\ b <= Len(x) /\ b - a + 1 >= 0
    BY <2>1
  <2>3. \A i \in a..b : i \in 1..Len(x)
    BY <2>1, <2>2
  <2> QED BY <2>2, <2>3
<1>2. /\ SubSeq(x, a, b) \in Seq(X)
      /\ Len(SubSeq(x, a, b)) = IF a <= b THEN b - a + 1 ELSE 0
      /\ \A i \in 1..(b - a + 1) : SubSeq(x, a, b)[i] = x[a + i - 1]
  BY ONLY <1>1, SubSeqProperties
<1>3. (IF a <= b THEN b - a + 1 ELSE 0) = b - a + 1
  BY <1>1
<1> QED BY <1>2, <1>3 DEF IsPiece, PieceFacts

\* What an envelope is cut into is what it was joined from.
IsEnvelope(x, a, u, v, z) == x = ((<<a>> \o u) \o v) \o <<z>>

LEMMA CutJoined ==
  ASSUME NEW X, NEW a \in X, NEW u \in Seq(X), NEW v \in Seq(X), NEW z \in X, Len(u) = 2,
         NEW x, IsEnvelope(x, a, u, v, z)
  PROVE  /\ x \in Seq(X) /\ Len(x) = Len(v) + 4
         /\ x[1] = a /\ x[2] = u[1] /\ x[3] = u[2] /\ Env!Last(x) = z
         /\ SubSeq(x, 2, 3) = u /\ SubSeq(x, 4, Len(x) - 1) = v
         /\ \A i \in 1..Len(v) : x[i + 3] = v[i]
<1>1. PICK one, last, w, y, m : /\ one = <<a>> /\ last = <<z>> /\ w = one \o u /\ y = w \o v
                                /\ m = Len(v)
  OBVIOUS
<1>2. /\ one \in Seq(X) /\ Len(one) = 1 /\ one[1] = a
      /\ last \in Seq(X) /\ Len(last) = 1 /\ last[1] = z /\ m \in Nat
  BY <1>1
<1>3. w \in Seq(X) /\ Len(w) = 3 /\ w[1] = a /\ w[2] = u[1] /\ w[3] = u[2]
  <2>0. IsJoin(w, one, u) /\ one \in Seq(X)
    BY <1>1, <1>2 DEF IsJoin
  <2>1. /\ w \in Seq(X) /\ Len(w) = Len(one) + Len(u)
        /\ \A i \in 1..Len(one) : w[i] = one[i]
        /\ \A i \in 1..Len(u) : w[Len(one) + i] = u[i]
    <3>1. JoinFacts(w, one, u, X)
      BY <2>0, Joined
    <3> QED BY <3>1 DEF JoinFacts
  <2>2. w[1] = one[1] /\ w[1 + 1] = u[1] /\ w[1 + 2] = u[2]
    BY <1>2, <2>1
  <2> QED BY <1>2, <2>1, <2>2
<1>4. /\ y \in Seq(X) /\ Len(y) = m + 3
      /\ \A i \in 1..3 : y[i] = w[i]
      /\ \A i \in 1..m : y[3 + i] = v[i]
  <2>0. IsJoin(y, w, v)
    BY <1>1 DEF IsJoin
  <2>1. /\ y \in Seq(X) /\ Len(y) = Len(w) + Len(v)
        /\ \A i \in 1..Len(w) : y[i] = w[i]
        /\ \A i \in 1..Len(v) : y[Len(w) + i] = v[i]
    <3>1. JoinFacts(y, w, v, X)
      BY <1>3, <2>0, Joined
    <3> QED BY <3>1 DEF JoinFacts
  <2> QED BY <1>1, <1>2, <1>3, <2>1
<1>5. /\ x \in Seq(X) /\ Len(x) = m + 4 /\ x[m + 4] = z
      /\ \A i \in 1..(m + 3) : x[i] = y[i]
  <2>1. IsJoin(x, y, last) /\ last \in Seq(X) /\ y \in Seq(X)
    BY <1>1, <1>2, <1>4 DEF IsJoin, IsEnvelope
  <2>2. /\ x \in Seq(X) /\ Len(x) = Len(y) + Len(last)
        /\ \A i \in 1..Len(y) : x[i] = y[i]
        /\ \A i \in 1..Len(last) : x[Len(y) + i] = last[i]
    <3>1. JoinFacts(x, y, last, X)
      BY <2>1, Joined
    <3> QED BY <3>1 DEF JoinFacts
  <2>3. (m + 3) + 1 = m + 4 /\ 1 \in 1..1
    BY <1>2
  <2> QED BY <1>2, <1>4, <2>2, <2>3
<1>6. x[1] = a /\ x[2] = u[1] /\ x[3] = u[2]
  <2>1. \A i \in 1..3 : i \in 1..(m + 3)
    BY <1>2
  <2>2. \A i \in 1..3 : x[i] = w[i]
    BY <1>4, <1>5, <2>1
  <2>3. x[1] = w[1] /\ x[2] = w[2] /\ x[3] = w[3]
    BY <2>2
  <2> QED BY <1>3, <2>3
<1>7. \A i \in 1..m : x[i + 3] = v[i]
  <2>1. \A i \in 1..m : i + 3 \in 1..(m + 3) /\ i + 3 = 3 + i
    BY <1>2
  <2> QED BY <1>4, <1>5, <2>1
<1>8. PICK to, c1, c2 : to = Len(x) - 1 /\ c1 = SubSeq(x, 2, 3) /\ c2 = SubSeq(x, 4, to)
  OBVIOUS
<1>9. c1 = u
  <2>1. 2 \in 1..(Len(x) + 1) /\ 3 \in (2 - 1)..Len(x) /\ 3 - 2 + 1 = 2
    BY <1>2, <1>5
  <2>1a. IsPiece(c1, x, 2, 3) /\ x \in Seq(X)
    BY <1>5, <1>8 DEF IsPiece
  <2>2. c1 \in Seq(X) /\ Len(c1) = 3 - 2 + 1 /\ \A i \in 1..(3 - 2 + 1) : c1[i] = x[2 + i - 1]
    <3>1. PieceFacts(c1, x, 2, 3, X)
      BY <2>1, <2>1a, Piece
    <3> QED BY <3>1 DEF PieceFacts
  <2>3. c1[1] = u[1] /\ c1[2] = u[2] /\ Len(c1) = 2
    BY <1>6, <2>2
  <2>4. \A i \in 1..Len(c1) : c1[i] = u[i]
    BY <2>3
  <2> QED BY <2>2, <2>3, <2>4, SeqEqual
<1>10. c2 = v
  <2>1. 4 \in 1..(Len(x) + 1) /\ to \in (4 - 1)..Len(x) /\ to - 4 + 1 = m
    BY <1>2, <1>5, <1>8
  <2>1a. IsPiece(c2, x, 4, to) /\ x \in Seq(X)
    BY <1>5, <1>8 DEF IsPiece
  <2>2. c2 \in Seq(X) /\ Len(c2) = to - 4 + 1 /\ \A i \in 1..(to - 4 + 1) : c2[i] = x[4 + i - 1]
    <3>1. PieceFacts(c2, x, 4, to, X)
      BY <2>1, <2>1a, Piece
    <3> QED BY <3>1 DEF PieceFacts
  <2>3. \A i \in 1..m : 4 + i - 1 = i + 3
    BY <1>2
  <2>4. Len(c2) = m /\ \A i \in 1..m : c2[i] = v[i]
    BY <1>7, <2>1, <2>2, <2>3
  <2> QED BY <1>1, <2>2, <2>4, SeqEqual
<1> QED BY <1>1, <1>5, <1>6, <1>7, <1>8, <1>9, <1>10 DEF Env!Last

\* And the other way round.
LEMMA JoinedCut ==
  ASSUME NEW X, NEW x \in Seq(X), Len(x) >= 4
  PROVE  x = ((<<x[1]>> \o SubSeq(x, 2, 3)) \o SubSeq(x, 4, Len(x) - 1)) \o <<Env!Last(x)>>
<1>1. PICK m : m = Len(x)
  OBVIOUS
<1>2. m \in Nat /\ m >= 4 /\ \A i \in 1..m : x[i] \in X
  BY <1>1
<1>3. ASSUME NEW k \in 1..m PROVE SubSeq(x, k, k) = <<x[k]>>
  <2>1. PICK y : y = SubSeq(x, k, k)
    OBVIOUS
  <2>2. k \in 1..(Len(x) + 1) /\ k \in (k - 1)..Len(x) /\ k - k + 1 = 1 /\ k + 1 - 1 = k
    BY <1>1, <1>2
  <2>1a. IsPiece(y, x, k, k)
    BY <2>1 DEF IsPiece
  <2>3. y \in Seq(X) /\ Len(y) = k - k + 1 /\ \A i \in 1..(k - k + 1) : y[i] = x[k + i - 1]
    <3>1. PieceFacts(y, x, k, k, X)
      BY <2>2, <2>1a, Piece
    <3> QED BY <3>1 DEF PieceFacts
  <2>4. y \in Seq(X) /\ Len(y) = 1 /\ y[1] = x[k]
    BY <2>2, <2>3
  <2>5. y = <<x[k]>>
    <3>1. x[k] \in X
      BY <1>1, <1>2
    <3>2. PICK z : z = <<x[k]>>
      OBVIOUS
    <3>3. z \in Seq(X) /\ Len(z) = 1 /\ z[1] = x[k]
      BY <3>1, <3>2
    <3>4. Len(y) = Len(z) /\ \A i \in 1..Len(y) : y[i] = z[i]
      BY <2>4, <3>3
    <3>5. y = z
      BY <2>4, <3>3, <3>4, SeqEqual
    <3> QED BY <3>2, <3>5
  <2> QED BY <2>1, <2>5
<1>4. SubSeq(x, 1, 1) = <<x[1]>> /\ SubSeq(x, m, m) = <<x[m]>>
  BY <1>2, <1>3
<1>5. SubSeq(x, 1, 1) \o SubSeq(x, 2, 3) = SubSeq(x, 1, 3)
  <2>1. 1 \in 1..(Len(x) + 1) /\ 1 \in (1 - 1)..Len(x) /\ 3 \in 1..Len(x) /\ 1 + 1 = 2
    BY <1>1, <1>2
  <2>2. SubSeq(x, 1, 1) \o SubSeq(x, 1 + 1, 3) = SubSeq(x, 1, 3)
    BY <2>1, ConcatAdjacentSubSeq
  <2> QED BY <2>1, <2>2
<1>6. SubSeq(x, 1, 3) \o SubSeq(x, 4, m - 1) = SubSeq(x, 1, m - 1)
  <2>1. 1 \in 1..(Len(x) + 1) /\ 3 \in (1 - 1)..Len(x) /\ m - 1 \in 3..Len(x) /\ 3 + 1 = 4
    BY <1>1, <1>2
  <2>2. SubSeq(x, 1, 3) \o SubSeq(x, 3 + 1, m - 1) = SubSeq(x, 1, m - 1)
    BY <2>1, ConcatAdjacentSubSeq
  <2> QED BY <2>1, <2>2
<1>7. SubSeq(x, 1, m - 1) \o SubSeq(x, m, m) = x
  <2>1. 1 \in 1..(Len(x) + 1) /\ m - 1 \in (1 - 1)..Len(x) /\ m \in (m - 1)..Len(x) /\ (m - 1) + 1 = m
    BY <1>1, <1>2
  <2>2. SubSeq(x, 1, m - 1) \o SubSeq(x, (m - 1) + 1, m) = SubSeq(x, 1, m)
    BY <2>1, ConcatAdjacentSubSeq
  <2>3. SubSeq(x, 1, m) = x
    BY <1>1, SubSeqFull
  <2> QED BY <2>1, <2>2, <2>3
<1> QED BY <1>1, <1>4, <1>5, <1>6, <1>7 DEF Env!Last

\* What encrypt answers, by its parts: the shared point, the ephemeral key and
\* the ciphertext.
Keys(shared) == [iv |-> <<shared, "iv">>, e |-> <<shared, "e">>, m |-> <<shared, "m">>]
MacOf(shared, magic, u, v) == Env!MacFromKey(<<shared, "m">>, magic, u, v)
IsMade(enc, cipher, q, shared, u, v) ==
  /\ enc.msg \in Messages /\ enc.to \in PrvKeys /\ enc.magic \in Magics
  /\ cipher \in Env!Ciphers /\ q \in EphPrvKeys
  /\ shared = Env!Mult(q, Env!Mult(enc.to, Env!G))
  /\ u = Env!Sec(Env!Mult(q, Env!G))
  /\ v = Env!Ciphertext(cipher, Keys(shared), enc.msg)
  /\ Env!IsValid(u, v)
  /\ IsEnvelope(enc.octets, <<"magic", enc.magic>>, u, v, MacOf(shared, enc.magic, u, v))

LEMMA EncryptedIsMade ==
  ASSUME NEW enc, Env!WasEncrypted(enc)
  PROVE  \E cipher, q, shared, u, v : IsMade(enc, cipher, q, shared, u, v)
<1>1. /\ enc.msg \in Messages /\ enc.to \in PrvKeys /\ enc.magic \in Magics
      /\ \E cipher \in Env!Ciphers, q \in EphPrvKeys :
           enc.octets \in Env!Encrypt(enc.msg, Env!Mult(enc.to, Env!G), cipher, q, enc.magic)
  BY DEF Env!WasEncrypted
<1>2. PICK cipher \in Env!Ciphers, q \in EphPrvKeys :
        enc.octets \in Env!Encrypt(enc.msg, Env!Mult(enc.to, Env!G), cipher, q, enc.magic)
  BY <1>1
<1> DEFINE P == Env!Mult(enc.to, Env!G)
           shared == Env!Mult(q, P)
           u == Env!Sec(Env!Mult(q, Env!G))
           v == Env!Ciphertext(cipher, Keys(shared), enc.msg)
<1>3. Env!DeriveKeys(q, P) = Keys(shared) /\ Keys(shared).m = <<shared, "m">>
  BY DEF Env!DeriveKeys, Keys
<1>4. enc.octets \in IF Len(v) <= enc.msg.length \/ ~Env!IsValid(u, v) THEN {}
                   ELSE {((<<<<"magic", enc.magic>>>> \o u) \o v) \o <<MacOf(shared, enc.magic, u, v)>>}
  BY ONLY <1>2, <1>3 DEF Env!Encrypt, MacOf
<1>5. shared = Env!Mult(q, Env!Mult(enc.to, Env!G))
  OBVIOUS
<1>6. u = Env!Sec(Env!Mult(q, Env!G)) /\ v = Env!Ciphertext(cipher, Keys(shared), enc.msg)
  OBVIOUS
<1> HIDE DEF shared, u, v
<1>7. Env!IsValid(u, v) /\ enc.octets = ((<<<<"magic", enc.magic>>>> \o u) \o v) \o <<MacOf(shared, enc.magic, u, v)>>
  BY <1>4
<1>8. IsMade(enc, cipher, q, shared, u, v)
  BY <1>1, <1>5, <1>6, <1>7 DEF IsMade, IsEnvelope
<1> QED BY <1>8

\* The octets of an envelope are its magic, its ephemeral key, its ciphertext
\* and, at the end and nowhere else, its MAC.
HasParts(x, magic, u, v, z) ==
  /\ Len(v) \in Nat /\ Len(v) >= 2 /\ Len(x) = Len(v) + 4
  /\ x[1] = <<"magic", magic>> /\ SubSeq(x, 2, 3) = u /\ SubSeq(x, 4, Len(x) - 1) = v
  /\ Env!Last(x) = z
  /\ \A i \in 1..(Len(x) - 1) : x[i][1] # "mac"

LEMMA PartsOfMade ==
  ASSUME Env!EciesAssumption,
         NEW enc, NEW cipher, NEW q, NEW shared, NEW u, NEW v, IsMade(enc, cipher, q, shared, u, v)
  PROVE  /\ HasParts(enc.octets, enc.magic, u, v, MacOf(shared, enc.magic, u, v))
         /\ \E X : enc.octets \in Seq(X)
         /\ Env!IsSec(u) /\ 1 \in DOMAIN v
         /\ v[1] = <<"octet", <<shared, "e">>, <<shared, "iv">>, cipher, enc.msg, 1>>
<1>1. PICK length, k, x, z, a :
        /\ length = enc.msg.length /\ k = Env!CipherLength(cipher, length)
        /\ x = enc.octets /\ z = MacOf(shared, enc.magic, u, v) /\ a = <<"magic", enc.magic>>
  OBVIOUS
<1>2. length \in Nat /\ cipher \in {"pkcs7", "zeros", "none", "tagged"}
  BY <1>1 DEF IsMade, Env!EciesAssumption, Env!Ciphers
<1>3. k \in Nat
  <2>1. 2 * (length \div 2 + 1) \in Nat /\ 2 * ((length + 2 - 1) \div 2) \in Nat /\ length + 1 \in Nat
    <3>1. length \div 2 \in Nat /\ (length + 2 - 1) \div 2 \in Nat
      BY <1>2
    <3>2. \A h \in Nat : 2 * (h + 1) \in Nat /\ 2 * h \in Nat
      OBVIOUS
    <3> QED BY <1>2, <3>1, <3>2
  <2> QED BY <1>1, <1>2, <2>1 DEF Env!CipherLength, Env!BlockSize
<1>4. v = [i \in 1..k |-> <<"octet", <<shared, "e">>, <<shared, "iv">>, cipher, enc.msg, i>>]
  <2>1. Keys(shared).e = <<shared, "e">> /\ Keys(shared).iv = <<shared, "iv">>
    BY DEF Keys
  <2> QED BY <1>1, <2>1 DEF IsMade, Env!Ciphertext
<1>5. /\ \A i \in 1..k : v[i] = <<"octet", <<shared, "e">>, <<shared, "iv">>, cipher, enc.msg, i>>
      /\ DOMAIN v = 1..k
  BY <1>4
<1>6. \A i \in 1..k : v[i][1] = "octet"
  BY <1>5
<1>7. PICK P \in Env!Finite : u = Env!Sec(P)
  BY DEF IsMade, Env!IsValid, Env!IsSec
<1>8. u = <<<<"prefix", IF P < n - P THEN 2 ELSE 3>>, <<"x", Env!XOf(P)>>>>
  BY <1>7 DEF Env!Sec
<1>9. Len(u) = 2 /\ u[1][1] = "prefix" /\ u[2][1] = "x"
  BY <1>8
<1>10. a[1] = "magic"
  BY <1>1
<1>11. PICK X : X = {a, u[1], u[2], z} \cup {v[i] : i \in 1..k}
  OBVIOUS
<1>12. v \in Seq(X) /\ Len(v) = k
  <2>1. \A i \in 1..k : v[i] \in X
    BY <1>11
  <2>2. v \in [1..k -> X]
    BY <1>4, <1>5, <2>1
  <2> QED BY <1>3, <2>2
<1>13. u \in Seq(X)
  <2>1. u[1] \in X /\ u[2] \in X
    BY <1>11
  <2>2. u = <<u[1], u[2]>>
    BY <1>8
  <2>3. <<u[1], u[2]>> \in Seq(X)
    BY <2>1
  <2> QED BY <2>2, <2>3
<1>14. a \in X /\ z \in X /\ IsEnvelope(x, a, u, v, z)
  BY <1>1, <1>11 DEF IsMade
<1>15. /\ x \in Seq(X) /\ Len(x) = Len(v) + 4
       /\ x[1] = a /\ x[2] = u[1] /\ x[3] = u[2] /\ Env!Last(x) = z
       /\ SubSeq(x, 2, 3) = u /\ SubSeq(x, 4, Len(x) - 1) = v
       /\ \A i \in 1..Len(v) : x[i + 3] = v[i]
  BY <1>9, <1>12, <1>13, <1>14, CutJoined
<1>16. k >= 2
  BY <1>12 DEF IsMade, Env!IsValid, Env!BlockSize
<1>17. \A i \in 1..(Len(x) - 1) : x[i][1] # "mac"
  <2> SUFFICES ASSUME NEW i \in 1..(Len(x) - 1) PROVE x[i][1] # "mac"
    OBVIOUS
  <2>1. i = 1 \/ i = 2 \/ i = 3 \/ (i - 3 \in 1..k /\ (i - 3) + 3 = i)
    BY <1>3, <1>12, <1>15
  <2>2. CASE i = 1
    BY <1>10, <1>15, <2>2
  <2>3. CASE i = 2
    BY <1>9, <1>15, <2>3
  <2>4. CASE i = 3
    BY <1>9, <1>15, <2>4
  <2>5. CASE i - 3 \in 1..k /\ (i - 3) + 3 = i
    <3>1. x[(i - 3) + 3] = v[i - 3] /\ v[i - 3][1] = "octet"
      BY <1>6, <1>12, <1>15, <2>5
    <3> QED BY <2>5, <3>1
  <2> QED BY <2>1, <2>2, <2>3, <2>4, <2>5
<1>18. HasParts(x, enc.magic, u, v, z)
  BY <1>1, <1>3, <1>12, <1>15, <1>16, <1>17 DEF HasParts
<1>19. Env!IsSec(u)
  BY DEF IsMade, Env!IsValid
<1>20. 1 \in DOMAIN v /\ v[1] = <<"octet", <<shared, "e">>, <<shared, "iv">>, cipher, enc.msg, 1>>
  BY <1>3, <1>5, <1>16
<1> QED BY <1>1, <1>15, <1>18, <1>19, <1>20

\* Who reaches the point another reached, through one ephemeral key, holds the
\* same private key.
LEMMA SameSharedSameKey ==
  ASSUME Prime, Env!EciesAssumption, NEW k \in PrvKeys, NEW to \in PrvKeys, NEW q \in EphPrvKeys,
         Env!Mult(k, Env!Mult(q, Env!G)) = Env!Mult(q, Env!Mult(to, Env!G))
  PROVE  k = to
<1>1. /\ k \in 1..(n - 1) /\ to \in 1..(n - 1) /\ q \in 1..(n - 1)
      /\ k \in Int /\ to \in Int /\ q \in Int /\ n \in Nat \ {0} /\ n > 2
  BY OrderPositive DEF Env!EciesAssumption
<1>2. q % n = q /\ to % n = to /\ k % n = k
  BY <1>1
<1>3. Env!Mult(q, Env!G) = q /\ Env!Mult(to, Env!G) = to
  BY <1>1, <1>2 DEF Env!Mult, Env!G
<1>4. (k * q) % n = (q * to) % n
  BY <1>3 DEF Env!Mult
<1>5. PICK i \in 1..(n - 1) : (q * i) % n = 1
  BY <1>1 DEF Prime
<1>6. i \in Int /\ k * q \in Int /\ q * to \in Int /\ q * i \in Int /\ 1 \in Int
  BY <1>1, <1>5
<1>7. Cong(n, k * q, q * to) /\ Cong(n, q * i, 1) /\ Cong(n, i, i) /\ Cong(n, k, k) /\ Cong(n, to, to)
  <2>1. 1 % n = 1
    BY <1>1
  <2> QED BY <1>4, <1>5, <2>1 DEF Cong
<1>8. Cong(n, (k * q) * i, (q * to) * i)
  BY <1>1, <1>6, <1>7, CongMul
<1>9. Cong(n, k * (q * i), k * 1) /\ Cong(n, to * (q * i), to * 1)
  BY <1>1, <1>6, <1>7, CongMul
<1>10. (k * q) * i = k * (q * i) /\ (q * to) * i = to * (q * i) /\ k * 1 = k /\ to * 1 = to
  <2>1. \A x, y, z \in Int : (x * y) * z = x * (y * z) /\ (y * x) * z = x * (y * z)
    OBVIOUS
  <2> QED BY <1>1, <1>6, <2>1
<1>11. Cong(n, k, to)
  BY <1>8, <1>9, <1>10 DEF Cong
<1> QED BY <1>2, <1>11 DEF Cong

\* Wherever an atom of what was sent is a MAC, it is one that encrypt made.
LEMMA MacsAreMade ==
  ASSUME Env!EciesAssumption, \A enc \in sent : Env!WasEncrypted(enc),
         NEW atom \in Env!Atoms, atom[1] = "mac"
  PROVE  \E enc \in sent : \E cipher, q, shared, u, v :
           IsMade(enc, cipher, q, shared, u, v) /\ atom = MacOf(shared, enc.magic, u, v)
<1>1. \E enc \in sent : atom \in Env!ToSet(enc.octets)
  <2>1. <<"prefix", 4>>[1] # "mac" /\ <<"x", 0>>[1] # "mac"
    OBVIOUS
  <2> QED BY <2>1 DEF Env!Atoms
<1>2. PICK enc \in sent : atom \in Env!ToSet(enc.octets)
  BY <1>1
<1>3. PICK cipher, q, shared, u, v : IsMade(enc, cipher, q, shared, u, v)
  BY <1>2, EncryptedIsMade
<1>4. PICK x, z : x = enc.octets /\ z = MacOf(shared, enc.magic, u, v)
  OBVIOUS
<1>5. HasParts(x, enc.magic, u, v, z) /\ \E X : x \in Seq(X)
  BY <1>3, <1>4, PartsOfMade
<1>6. PICK i : i \in DOMAIN x /\ atom = x[i]
  BY <1>2, <1>4 DEF Env!ToSet
<1>7. DOMAIN x = 1..Len(x) /\ Len(x) \in Nat
  BY <1>5
<1>8. i \in 1..(Len(x) - 1) \/ i = Len(x)
  BY <1>6, <1>7
<1>9. atom = z
  BY <1>5, <1>6, <1>8 DEF HasParts, Env!Last
<1> QED BY <1>3, <1>4, <1>9

\* An envelope with its MAC, under a recipient's key, is the envelope that was
\* encrypted to him.
LEMMA MacNamesEnvelope ==
  ASSUME Prime, Env!EciesAssumption, \A enc \in sent : Env!WasEncrypted(enc),
         NEW x \in Seq(Env!Atoms), NEW k \in PrvKeys, NEW magic,
         NEW envelope \in Env!Parse(x, magic),
         Env!HasItsMac(envelope, magic, Env!DeriveKeys(k, Env!PointOf(envelope.eph)).m)
  PROVE  \E enc \in sent : enc.to = k /\ enc.magic = magic /\ enc.octets = x
<1>1. PICK A, c1, c2, z, P : /\ A = Env!Atoms /\ c1 = SubSeq(x, 2, 3) /\ c2 = SubSeq(x, 4, Len(x) - 1)
                             /\ z = Env!Last(x) /\ P = Env!PointOf(c1)
  OBVIOUS
<1>2. /\ Len(x) >= 6 /\ x[1] = <<"magic", magic>> /\ envelope = [eph |-> c1, ciphertext |-> c2, mac |-> z]
      /\ Env!IsSec(c1)
  <2>1. ~(Len(x) < 6)
    BY DEF Env!Parse, Env!BlockSize
  <2>2. Len(x) \in Nat
    OBVIOUS
  <2>3. envelope = Env!Fields(x) /\ x[1] = <<"magic", magic>> /\ Env!IsValid(envelope.eph, envelope.ciphertext)
    BY <2>1 DEF Env!Parse, Env!BlockSize
  <2>4. envelope = [eph |-> c1, ciphertext |-> c2, mac |-> z]
    BY <1>1, <2>3 DEF Env!Fields
  <2> QED BY <2>1, <2>2, <2>3, <2>4 DEF Env!IsValid
<1>3. PICK point : point = Env!Mult(k, P)
  OBVIOUS
<1>4. z = MacOf(point, magic, c1, c2)
  <2>1. envelope.eph = c1 /\ envelope.ciphertext = c2 /\ envelope.mac = z
    BY <1>2
  <2>2. Env!DeriveKeys(k, P).m = <<point, "m">>
    BY <1>3 DEF Env!DeriveKeys
  <2> QED BY <1>1, <2>1, <2>2 DEF Env!HasItsMac, MacOf
<1>5. z = <<"mac", <<point, "m">>, (<<<<"magic", magic>>>> \o c1) \o c2>>
  BY <1>4 DEF MacOf, Env!MacFromKey
<1>6. z[1] = "mac"
  BY <1>5
<1>7. z \in Env!Atoms
  <2>1. Len(x) \in 1..Len(x)
    BY <1>2
  <2> QED BY <1>1, <2>1, ElementOfSeq DEF Env!Last
<1>8. PICK enc \in sent : \E cipher, q, shared, u, v :
        IsMade(enc, cipher, q, shared, u, v) /\ z = MacOf(shared, enc.magic, u, v)
  BY <1>6, <1>7, MacsAreMade
<1>9. PICK cipher, q, shared, u, v : IsMade(enc, cipher, q, shared, u, v) /\ z = MacOf(shared, enc.magic, u, v)
  BY <1>8
<1>10. z = <<"mac", <<shared, "m">>, (<<<<"magic", enc.magic>>>> \o u) \o v>>
  BY <1>9 DEF MacOf, Env!MacFromKey
<1>11. PICK body, body2 : /\ body = (<<<<"magic", magic>>>> \o c1) \o c2
                          /\ body2 = (<<<<"magic", enc.magic>>>> \o u) \o v
  OBVIOUS
<1>12. point = shared /\ body = body2
  <2>1. z = <<"mac", <<point, "m">>, body>> /\ z = <<"mac", <<shared, "m">>, body2>>
    BY <1>5, <1>10, <1>11
  <2>2. z[2] = <<point, "m">> /\ z[2] = <<shared, "m">> /\ z[3] = body /\ z[3] = body2
    BY <2>1
  <2>3. z[2][1] = point /\ z[2][1] = shared
    BY <2>2
  <2> QED BY <2>2, <2>3
<1>13. x = body \o <<z>>
  <2>1. x = ((<<x[1]>> \o SubSeq(x, 2, 3)) \o SubSeq(x, 4, Len(x) - 1)) \o <<Env!Last(x)>>
    <3>1. Len(x) >= 4 /\ x \in Seq(A)
      BY <1>1, <1>2
    <3> QED BY <3>1, JoinedCut
  <2> QED BY <1>1, <1>2, <1>11, <2>1
<1>14. enc.octets = body2 \o <<z>>
  BY <1>9, <1>11 DEF IsMade, IsEnvelope
<1>15. x = enc.octets
  BY <1>12, <1>13, <1>14
<1>16. HasParts(x, enc.magic, u, v, z)
  <2>1. HasParts(enc.octets, enc.magic, u, v, MacOf(shared, enc.magic, u, v))
    BY <1>9, PartsOfMade
  <2> QED BY <1>9, <1>15, <2>1
<1>17. magic = enc.magic /\ c1 = u
  <2>1. <<"magic", magic>> = <<"magic", enc.magic>> /\ c1 = u
    BY <1>1, <1>2, <1>16 DEF HasParts
  <2>2. <<"magic", magic>>[2] = magic /\ <<"magic", enc.magic>>[2] = enc.magic
    OBVIOUS
  <2> QED BY <2>1, <2>2
<1>18. k = enc.to
  <2>1. /\ enc.to \in PrvKeys /\ q \in EphPrvKeys /\ shared = Env!Mult(q, Env!Mult(enc.to, Env!G))
        /\ u = Env!Sec(Env!Mult(q, Env!G))
    BY <1>9 DEF IsMade
  <2>2. Env!Mult(q, Env!G) = q /\ q \in Finite
    <3>1. q \in 1..(n - 1) /\ q % n = q /\ q * 1 = q
      BY <2>1, OrderPositive DEF Env!EciesAssumption
    <3> QED BY <3>1, OrderPositive DEF Env!Mult, Env!G, Finite, Point, INF
  <2>3. P = Env!Mult(q, Env!G)
    BY <1>1, <1>17, <2>1, <2>2, PointOfSec
  <2>4. Env!Mult(k, Env!Mult(q, Env!G)) = Env!Mult(q, Env!Mult(enc.to, Env!G))
    BY <1>3, <1>12, <2>1, <2>3
  <2> QED BY <2>1, <2>4, SameSharedSameKey
<1> QED BY <1>15, <1>17, <1>18

\* What was encrypted is opened, by who it was encrypted to, and gives its message.
LEMMA OpensWhatWasSent ==
  ASSUME Env!EciesAssumption, NEW enc, Env!WasEncrypted(enc)
  PROVE  {Env!Opened(Env!DeriveKeys(enc.to, Env!PointOf(c.eph)), enc.magic, c) : c \in Env!Parse(enc.octets, enc.magic)}
           = {[ran |-> TRUE, msgs |-> {enc.msg}]}
<1>1. PICK cipher, q, shared, u, v : IsMade(enc, cipher, q, shared, u, v)
  BY EncryptedIsMade
<1>2. PICK x, z : x = enc.octets /\ z = MacOf(shared, enc.magic, u, v)
  OBVIOUS
<1>3. HasParts(x, enc.magic, u, v, z)
  BY <1>1, <1>2, PartsOfMade
<1>4. Env!IsValid(u, v)
  BY <1>1 DEF IsMade
<1>5. Env!Fields(x) = [eph |-> u, ciphertext |-> v, mac |-> z]
  BY <1>3 DEF HasParts, Env!Fields
<1>6. PICK made : made = [eph |-> u, ciphertext |-> v, mac |-> z]
  OBVIOUS
<1>7. made.eph = u /\ made.ciphertext = v /\ made.mac = z
  BY <1>6
<1>8. Env!Parse(x, enc.magic) = {made}
  <2>1. ~(Len(x) < 1 + 2 + Env!BlockSize + 1) /\ x[1] = <<"magic", enc.magic>>
    BY <1>3 DEF HasParts, Env!BlockSize
  <2> QED BY <1>4, <1>5, <1>6, <1>7, <2>1 DEF Env!Parse
<1>9. Env!DeriveKeys(enc.to, Env!PointOf(u)) = Keys(shared)
  <2>1. /\ enc.to \in PrvKeys /\ q \in EphPrvKeys /\ shared = Env!Mult(q, Env!Mult(enc.to, Env!G))
        /\ u = Env!Sec(Env!Mult(q, Env!G))
    BY <1>1 DEF IsMade
  <2>2. /\ enc.to \in 1..(n - 1) /\ q \in 1..(n - 1)
        /\ enc.to % n = enc.to /\ enc.to * 1 = enc.to /\ q % n = q /\ q * 1 = q
    <3>1. enc.to \in 1..(n - 1) /\ q \in 1..(n - 1)
      BY <2>1 DEF Env!EciesAssumption
    <3>2. \A i \in 1..(n - 1) : i % n = i /\ i * 1 = i
      BY OrderPositive
    <3> QED BY <3>1, <3>2
  <2>3. Env!Mult(q, Env!G) = q /\ q \in Finite /\ Env!Mult(enc.to, Env!G) = enc.to
    BY <2>2, OrderPositive DEF Env!Mult, Env!G, Finite, Point, INF
  <2>4. Env!PointOf(u) = q
    BY <2>1, <2>3, PointOfSec
  <2>5. Env!Mult(enc.to, q) = shared
    <3>1. enc.to * q = q * enc.to
      BY <2>2
    <3> QED BY <2>1, <2>3, <3>1 DEF Env!Mult
  <2> QED BY <2>4, <2>5 DEF Env!DeriveKeys, Keys
<1>10. Env!HasItsMac(made, enc.magic, Keys(shared).m)
  <2>1. Keys(shared).m = <<shared, "m">>
    BY DEF Keys
  <2> QED BY <1>2, <1>7, <2>1 DEF Env!HasItsMac, MacOf
<1>11. Env!Plaintexts(Keys(shared), v) = {enc.msg}
  <2>1. enc.msg \in Messages /\ cipher \in Env!Ciphers /\ v = Env!Ciphertext(cipher, Keys(shared), enc.msg)
    BY <1>1 DEF IsMade
  <2>2. ASSUME NEW msg \in Messages, NEW c \in Env!Ciphers, v = Env!Ciphertext(c, Keys(shared), msg)
        PROVE  msg = enc.msg
    <3>1. v[1] = <<"octet", <<shared, "e">>, <<shared, "iv">>, cipher, enc.msg, 1>>
      BY <1>1, PartsOfMade
    <3>2. PICK k : k = Env!CipherLength(c, msg.length)
      OBVIOUS
    <3>3. v = [i \in 1..k |-> <<"octet", Keys(shared).e, Keys(shared).iv, c, msg, i>>]
      BY <2>2, <3>2 DEF Env!Ciphertext
    <3>4. 1 \in DOMAIN v
      BY <1>1, PartsOfMade
    <3>5. v[1] = <<"octet", Keys(shared).e, Keys(shared).iv, c, msg, 1>>
      BY <3>3, <3>4
    <3>6. v[1][5] = enc.msg /\ v[1][5] = msg
      BY <3>1, <3>5
    <3> QED BY <3>6
  <2> QED BY <2>1, <2>2 DEF Env!Plaintexts
<1>12. Env!Opened(Keys(shared), enc.magic, made) = [ran |-> TRUE, msgs |-> {enc.msg}]
  BY <1>7, <1>10, <1>11 DEF Env!Opened
<1> QED BY <1>2, <1>7, <1>8, <1>9, <1>12

\* What was sent is a sequence of its atoms.
LEMMA SentAtoms ==
  ASSUME Env!EciesAssumption, \A enc \in sent : Env!WasEncrypted(enc), NEW enc \in sent
  PROVE  /\ enc.octets \in Seq(Env!Atoms) /\ Len(enc.octets) \in Nat
         /\ DOMAIN enc.octets = 1..Len(enc.octets)
         /\ \A i \in DOMAIN enc.octets : enc.octets[i] \in Env!Atoms
<1>1. PICK y, A : y = enc.octets /\ A = Env!Atoms
  OBVIOUS
<1>2. PICK cipher, q, shared, u, v : IsMade(enc, cipher, q, shared, u, v)
  BY EncryptedIsMade
<1>3. \E X : enc.octets \in Seq(X)
  BY <1>2, PartsOfMade
<1>4. PICK X : y \in Seq(X)
  BY <1>1, <1>3
<1>5. DOMAIN y = 1..Len(y) /\ Len(y) \in Nat /\ y \in [1..Len(y) -> X]
  BY <1>4
<1>6. \A i \in DOMAIN y : y[i] \in A
  <2>1. \A i \in DOMAIN y : y[i] \in Env!ToSet(enc.octets)
    BY <1>1 DEF Env!ToSet
  <2> QED BY <1>1, <2>1 DEF Env!Atoms
<1>7. y \in Seq(A)
  <2>1. y \in [1..Len(y) -> A]
    BY <1>5, <1>6
  <2> QED BY <1>5, <2>1
<1> QED BY <1>1, <1>5, <1>6, <1>7

\* What becomes of a text is made of the atoms it and the others are made of.
LEMMA EditedAtoms ==
  ASSUME Env!EciesAssumption, \A enc \in sent : Env!WasEncrypted(enc),
         NEW t \in sent, NEW octets \in Env!Edited(t.octets)
  PROVE  octets \in Seq(Env!Atoms)
<1>1. PICK A : A = Env!Atoms
  OBVIOUS
<1>2. ASSUME NEW enc \in sent
      PROVE  /\ enc.octets \in Seq(A) /\ Len(enc.octets) \in Nat
             /\ DOMAIN enc.octets = 1..Len(enc.octets)
             /\ \A i \in DOMAIN enc.octets : enc.octets[i] \in A
  BY <1>1, SentAtoms
<1>3. PICK x : x = t.octets
  OBVIOUS
<1>4. /\ x \in Seq(A) /\ Len(x) \in Nat /\ DOMAIN x = 1..Len(x)
      /\ \A i \in DOMAIN x : x[i] \in A
  BY <1>2, <1>3
<1>5. ASSUME NEW y, y \in Seq(A), NEW a \in Int, NEW b \in Int, a >= 1, b <= Len(y)
      PROVE  SubSeq(y, a, b) \in Seq(A)
  <2>1. \A i \in a..b : y[i] \in A
    <3>1. \A i \in a..b : i \in 1..Len(y)
      BY <1>5
    <3> QED BY <1>5, <3>1
  <2> QED BY ONLY <1>5, <2>1, SubSeqProperties
<1>6. ASSUME NEW y \in Seq(A), NEW w \in Seq(A)
      PROVE  y \o w \in Seq(A)
  BY ConcatProperties
<1>7. ASSUME NEW i \in DOMAIN x PROVE Env!RemoveAt(x, i) \in Seq(A)
  <2>1. i \in 1..Len(x) /\ i - 1 \in Int /\ i + 1 \in Int /\ i - 1 <= Len(x) /\ i + 1 >= 1
    BY <1>4, <1>7
  <2>2. SubSeq(x, 1, i - 1) \in Seq(A) /\ SubSeq(x, i + 1, Len(x)) \in Seq(A)
    BY <1>4, <1>5, <2>1
  <2> QED BY <1>6, <2>2 DEF Env!RemoveAt
<1>8. ASSUME NEW i \in DOMAIN x PROVE Env!InsertAt(x, i, x[i]) \in Seq(A)
  <2>1. i \in 1..Len(x) /\ i - 1 \in Int /\ i - 1 <= Len(x) /\ x[i] \in A
    BY <1>4, <1>8
  <2>2. SubSeq(x, 1, i - 1) \in Seq(A) /\ SubSeq(x, i, Len(x)) \in Seq(A)
    BY <1>4, <1>5, <2>1
  <2>3. <<x[i]>> \in Seq(A)
    BY <2>1
  <2>4. SubSeq(x, 1, i - 1) \o <<x[i]>> \in Seq(A)
    BY <1>6, <2>2, <2>3
  <2> QED BY <1>6, <2>2, <2>4 DEF Env!InsertAt
<1>9. ASSUME NEW i \in DOMAIN x, NEW atom \in A PROVE Env!ReplaceAt(x, i, atom) \in Seq(A)
  <2>1. i \in 1..Len(x)
    BY <1>4, <1>9
  <2> QED BY <1>4, <2>1, ExceptSeq DEF Env!ReplaceAt
<1>10. ASSUME NEW enc \in sent, NEW i \in DOMAIN x, NEW j \in DOMAIN enc.octets
       PROVE  SubSeq(x, 1, i) \o SubSeq(enc.octets, j, Len(enc.octets)) \in Seq(A)
  <2>1. i \in 1..Len(x) /\ j \in 1..Len(enc.octets) /\ enc.octets \in Seq(A) /\ Len(enc.octets) \in Nat
    BY <1>2, <1>4, <1>10
  <2>2. SubSeq(x, 1, i) \in Seq(A)
    BY <1>4, <1>5, <2>1
  <2>3. PICK y : y = enc.octets
    OBVIOUS
  <2>4. SubSeq(y, j, Len(y)) \in Seq(A)
    BY <1>5, <2>1, <2>3
  <2> QED BY <1>6, <2>2, <2>3, <2>4
<1>11. octets \in Env!Edited(x)
  BY <1>3
<1>12. \/ \E i \in DOMAIN x : octets = Env!RemoveAt(x, i)
       \/ \E i \in DOMAIN x : octets = Env!InsertAt(x, i, x[i])
       \/ \E i \in DOMAIN x : \E atom \in A : octets = Env!ReplaceAt(x, i, atom)
       \/ \E enc \in sent : \E i \in DOMAIN x : \E j \in DOMAIN enc.octets :
            octets = SubSeq(x, 1, i) \o SubSeq(enc.octets, j, Len(enc.octets))
  <2> DEFINE B == {Env!RemoveAt(x, i) : i \in DOMAIN x}
             C == {Env!InsertAt(x, i, x[i]) : i \in DOMAIN x}
             D == {Env!ReplaceAt(x, i, atom) : i \in DOMAIN x, atom \in A}
             E == UNION {Env!Splices(x, enc.octets) : enc \in sent}
  <2>2. Env!Edited(x) = ((B \cup C) \cup D) \cup E
    BY ONLY <1>1 DEF Env!Edited
  <2>4. octets \in B => \E i \in DOMAIN x : octets = Env!RemoveAt(x, i)
    OBVIOUS
  <2>5. octets \in C => \E i \in DOMAIN x : octets = Env!InsertAt(x, i, x[i])
    OBVIOUS
  <2>6. octets \in D => \E i \in DOMAIN x : \E atom \in A : octets = Env!ReplaceAt(x, i, atom)
    OBVIOUS
  <2>7. ASSUME octets \in E
        PROVE  \E enc \in sent : \E i \in DOMAIN x : \E j \in DOMAIN enc.octets :
                 octets = SubSeq(x, 1, i) \o SubSeq(enc.octets, j, Len(enc.octets))
    <3>1. PICK enc \in sent : octets \in Env!Splices(x, enc.octets)
      BY <2>7
    <3>2. \E i \in DOMAIN x : \E j \in DOMAIN enc.octets :
            octets = Env!Spliced(x, i, enc.octets, j)
      BY <3>1 DEF Env!Splices
    <3> QED BY <3>2 DEF Env!Spliced
  <2> HIDE DEF B, C, D, E
  <2>3. octets \in B \/ octets \in C \/ octets \in D \/ octets \in E
    BY <1>11, <2>2
  <2> QED BY <2>3, <2>4, <2>5, <2>6, <2>7
<1> QED BY <1>1, <1>3, <1>4, <1>7, <1>8, <1>9, <1>10, <1>12

LEMMA EnvInit == Env!EciesAssumption /\ Env!Init => Env!Inv
<1> SUFFICES ASSUME Env!Init PROVE Env!Inv
  OBVIOUS
<1>1. sent = {} /\ text = Env!NoText /\ opened = <<>>
  BY DEF Env!Init
<1>2. text.octets = <<>>
  BY <1>1 DEF Env!NoText
<1>3. text.octets \in Seq(Env!Atoms)
  BY <1>2
<1> QED BY <1>1, <1>3 DEF Env!Inv, Env!SentWasEncrypted, Env!ReadOfSent

\* What is sent is what encrypt answers.
LEMMA SendKeepsInv ==
  ASSUME Env!EciesAssumption, Env!Inv, Env!Send
  PROVE  Env!Inv'
<1>1. PICK msg \in Messages, to \in PrvKeys, cipher \in Env!Ciphers, q \in EphPrvKeys, magic \in Magics :
        \E octets \in Env!Encrypt(msg, Env!Mult(to, Env!G), cipher, q, magic) :
          sent' = sent \cup {[msg |-> msg, to |-> to, magic |-> magic, octets |-> octets]}
  BY DEF Env!Send
<1>2. PICK octets \in Env!Encrypt(msg, Env!Mult(to, Env!G), cipher, q, magic) :
        sent' = sent \cup {[msg |-> msg, to |-> to, magic |-> magic, octets |-> octets]}
  BY <1>1
<1>3. PICK new : new = [msg |-> msg, to |-> to, magic |-> magic, octets |-> octets]
  OBVIOUS
<1>4. new.msg = msg /\ new.to = to /\ new.magic = magic /\ new.octets = octets
  BY <1>3
<1>5. Env!WasEncrypted(new)
  BY <1>2, <1>4 DEF Env!WasEncrypted
<1>6. sent' = sent \cup {new} /\ text' = text /\ text = Env!NoText /\ opened' = opened
  BY <1>2, <1>3 DEF Env!Send
<1>7. opened' = <<>>
  BY <1>6 DEF Env!Inv, Env!SentWasEncrypted, Env!ReadOfSent
<1>8. \A t \in sent' : Env!WasEncrypted(t)
  BY <1>5, <1>6 DEF Env!Inv, Env!SentWasEncrypted, Env!ReadOfSent
<1>9. (text.octets)' \in Seq(Env!Atoms')
  <2>1. text'.octets = <<>>
    BY <1>6 DEF Env!NoText
  <2> QED BY <2>1
<1> QED BY <1>7, <1>8, <1>9 DEF Env!Inv, Env!SentWasEncrypted, Env!ReadOfSent, Env!WasEncrypted

\* What arrives is made of what was sent.
LEMMA ArriveKeepsInv ==
  ASSUME Env!EciesAssumption, Env!Inv, Env!Arrive
  PROVE  Env!Inv'
<1>1. PICK t \in sent : \/ \E armor \in Env!Armors : text' = [octets |-> t.octets, armor |-> armor]
                        \/ \E octets \in Env!Edited(t.octets) : text' = [octets |-> octets, armor |-> "canonical"]
  BY DEF Env!Arrive
<1>2. sent' = sent /\ opened' = opened /\ opened = <<>>
  BY DEF Env!Arrive, Env!Inv, Env!SentWasEncrypted, Env!ReadOfSent
<1>3. \A enc \in sent : Env!WasEncrypted(enc)
  BY DEF Env!Inv, Env!SentWasEncrypted, Env!ReadOfSent
<1>4. text'.octets = t.octets \/ text'.octets \in Env!Edited(t.octets)
  BY <1>1
<1>5. text'.octets \in Seq(Env!Atoms)
  <2>1. CASE text'.octets \in Env!Edited(t.octets)
    BY <1>3, <2>1, EditedAtoms
  <2>2. CASE text'.octets = t.octets
    BY <1>3, <2>2, SentAtoms
  <2> QED BY <1>4, <2>1, <2>2
<1>6. Env!Atoms' = Env!Atoms
  BY <1>2 DEF Env!Atoms
<1> QED BY <1>2, <1>3, <1>5, <1>6 DEF Env!Inv, Env!SentWasEncrypted, Env!ReadOfSent, Env!WasEncrypted

\* What is made of a text depends on the text alone, which stays.
LEMMA DecryptKeepsInv ==
  ASSUME Env!EciesAssumption, Env!Inv, Env!Decrypt
  PROVE  Env!Inv'
<1>1. PICK prvKey \in PrvKeys, magic \in Magics : opened' = <<prvKey, magic, Env!Results(prvKey, magic)>>
  BY DEF Env!Decrypt
<1>2. sent' = sent /\ text' = text /\ text # Env!NoText
  BY DEF Env!Decrypt
<1>3. Env!Results(prvKey, magic)' = Env!Results(prvKey, magic)
  BY <1>2 DEF Env!Results, Env!B64Decode
<1>4. Env!Atoms' = Env!Atoms
  BY <1>2 DEF Env!Atoms
<1>5. opened' = <<prvKey, magic, Env!Results(prvKey, magic)'>>
  BY <1>1, <1>3
<1> QED BY <1>2, <1>4, <1>5 DEF Env!Inv, Env!SentWasEncrypted, Env!ReadOfSent, Env!WasEncrypted

\* Every step keeps what the properties rest on.
LEMMA EnvNextKeepsInv ==
  ASSUME Env!EciesAssumption, Env!Inv, [Env!Next]_Env!vars
  PROVE  Env!Inv'
<1>1. CASE Env!Send
  BY <1>1, SendKeepsInv
<1>2. CASE Env!Arrive
  BY <1>2, ArriveKeepsInv
<1>3. CASE Env!Decrypt
  BY <1>3, DecryptKeepsInv
<1>4. CASE UNCHANGED Env!vars
  <2>1. sent' = sent /\ text' = text /\ opened' = opened
    BY <1>4 DEF Env!vars
  <2>2. Env!Atoms' = Env!Atoms
    BY <2>1 DEF Env!Atoms
  <2>3. \A k, magic : Env!Results(k, magic)' = Env!Results(k, magic)
    BY <2>1 DEF Env!Results, Env!B64Decode
  <2> QED BY <2>1, <2>2, <2>3 DEF Env!Inv, Env!SentWasEncrypted, Env!ReadOfSent, Env!WasEncrypted
<1> QED BY <1>1, <1>2, <1>3, <1>4 DEF Env!Next

\* What is read of a text is read of what it carries, under an armor that b64decode puts up with.
LEMMA InvReadsOnlyIts ==
  ASSUME Prime, Env!EciesAssumption, Env!Inv
  PROVE  Env!CipherOnlyAfterItsMac
<1>1. SUFFICES ASSUME opened # <<>>, NEW res \in opened[3], res.ran
               PROVE  /\ text.armor \in {"canonical", "blanks around"}
                      /\ \E enc \in sent : enc.to = opened[1] /\ enc.magic = opened[2] /\ enc.octets = text.octets
  BY DEF Env!CipherOnlyAfterItsMac, Env!Ran
<1>2. PICK k \in PrvKeys, magic \in Magics : opened = <<k, magic, Env!Results(k, magic)>>
  BY <1>1 DEF Env!Inv, Env!SentWasEncrypted, Env!ReadOfSent
<1>3. opened[1] = k /\ opened[2] = magic /\ res \in Env!Results(k, magic)
  BY <1>1, <1>2
<1>4. PICK octets \in Env!B64Decode(text) : \E envelope \in Env!Parse(octets, magic) :
        res = Env!Opened(Env!DeriveKeys(k, Env!PointOf(envelope.eph)), magic, envelope)
  BY <1>3 DEF Env!Results
<1>5. PICK envelope \in Env!Parse(octets, magic) :
        res = Env!Opened(Env!DeriveKeys(k, Env!PointOf(envelope.eph)), magic, envelope)
  BY <1>4
<1>6. text.armor \in {"canonical", "blanks around"} /\ octets = text.octets
  BY <1>4 DEF Env!B64Decode
<1>7. Env!HasItsMac(envelope, magic, Env!DeriveKeys(k, Env!PointOf(envelope.eph)).m)
  BY <1>1, <1>5 DEF Env!Opened
<1>8. octets \in Seq(Env!Atoms) /\ \A enc \in sent : Env!WasEncrypted(enc)
  BY <1>6 DEF Env!Inv, Env!SentWasEncrypted, Env!ReadOfSent
<1>9. \E enc \in sent : enc.to = k /\ enc.magic = magic /\ enc.octets = octets
  BY <1>5, <1>7, <1>8, MacNamesEnvelope
<1> QED BY <1>3, <1>6, <1>9

LEMMA InvReadsWhatWasSent ==
  ASSUME Env!EciesAssumption, Env!Inv
  PROVE  Env!SentIsRead
<1>1. SUFFICES ASSUME opened # <<>>, text.armor \in {"canonical", "blanks around"}, NEW enc \in sent,
                      enc.octets = text.octets, enc.to = opened[1], enc.magic = opened[2]
               PROVE  opened[3] = {[ran |-> TRUE, msgs |-> {enc.msg}]}
  BY DEF Env!SentIsRead
<1>2. PICK k \in PrvKeys, magic \in Magics : opened = <<k, magic, Env!Results(k, magic)>>
  BY <1>1 DEF Env!Inv, Env!SentWasEncrypted, Env!ReadOfSent
<1>3. opened[3] = Env!Results(enc.to, enc.magic)
  BY <1>1, <1>2
<1>4. Env!B64Decode(text) = {enc.octets}
  BY <1>1 DEF Env!B64Decode
<1>5. UNION {Env!Parse(octets, enc.magic) : octets \in {enc.octets}} = Env!Parse(enc.octets, enc.magic)
  OBVIOUS
<1>6. Env!Results(enc.to, enc.magic) =
        {Env!Opened(Env!DeriveKeys(enc.to, Env!PointOf(c.eph)), enc.magic, c) : c \in Env!Parse(enc.octets, enc.magic)}
  BY <1>4, <1>5 DEF Env!Results
<1>7. Env!WasEncrypted(enc)
  BY DEF Env!Inv, Env!SentWasEncrypted, Env!ReadOfSent
<1> QED BY <1>3, <1>6, <1>7, OpensWhatWasSent

\* In every reachable state what is sent was encrypted, a text is made of what
\* was sent, and what was read of it depends on the text alone.
THEOREM EnvelopeInvariant == Env!EciesAssumption => (Env!Spec => []Env!Inv)
<1> SUFFICES ASSUME Env!EciesAssumption PROVE Env!Spec => []Env!Inv
  OBVIOUS
<1>1. Env!Init => Env!Inv
  BY EnvInit
<1>2. Env!Inv /\ [Env!Next]_Env!vars => Env!Inv'
  BY EnvNextKeepsInv
<1> QED BY <1>1, <1>2, PTL DEF Env!Spec

\* However many envelopes were sent, to whomever, and whatever is lost of
\* them, doubled, moved or mixed, the cipher of a recipient runs on an envelope
\* that was encrypted to him and on nothing else (ecies.py:230-245, 413-421).
THEOREM OnlyItsMacReachesTheCipher ==
  Env!EciesAssumption /\ Prime => (Env!Spec => []Env!CipherOnlyAfterItsMac)
<1> SUFFICES ASSUME Env!EciesAssumption, Prime PROVE Env!Spec => []Env!CipherOnlyAfterItsMac
  OBVIOUS
<1>1. Env!Spec => []Env!Inv
  BY EnvelopeInvariant
<1>2. Env!Inv => Env!CipherOnlyAfterItsMac
  BY InvReadsOnlyIts
<1> QED BY <1>1, <1>2, PTL

\* What encrypt answered is read by its recipient, whatever cipher made it
\* (ecies.py:309-322, 387-401).
THEOREM WhatIsSentIsRead == Env!EciesAssumption => (Env!Spec => []Env!SentIsRead)
<1> SUFFICES ASSUME Env!EciesAssumption PROVE Env!Spec => []Env!SentIsRead
  OBVIOUS
<1>1. Env!Spec => []Env!Inv
  BY EnvelopeInvariant
<1>2. Env!Inv => Env!SentIsRead
  BY InvReadsWhatWasSent
<1> QED BY <1>1, <1>2, PTL

-----------------------------------------------------------------------------
(***************************************************************************)
(* Keying data: no block of it comes twice (KeyDerivation).                *)
(***************************************************************************)
CONSTANTS HfSize, O, AnsiOctets, Secrets, Salts, Infos, Sizes, PrkSizes, MaxCalls
VARIABLE calls

Kdf == INSTANCE KeyDerivation

\* Two sequences whose fronts have one length are joined of the same parts.
LEMMA SameParts ==
  ASSUME NEW X, NEW s1 \in Seq(X), NEW s2 \in Seq(X), NEW t1 \in Seq(X), NEW t2 \in Seq(X),
         Len(s1) = Len(s2), s1 \o t1 = s2 \o t2
  PROVE  s1 = s2 /\ t1 = t2
<1>1. /\ Len(s1) \in Nat /\ Len(t1) \in Nat /\ Len(t2) \in Nat
      /\ Len(s1 \o t1) = Len(s1) + Len(t1) /\ Len(s2 \o t2) = Len(s2) + Len(t2)
  <2>1. Len(s1) \in Nat /\ Len(t1) \in Nat /\ Len(t2) \in Nat
    BY LenProperties
  <2>2. Len(s1 \o t1) = Len(s1) + Len(t1)
    BY ConcatProperties
  <2>3. Len(s2 \o t2) = Len(s2) + Len(t2)
    BY ConcatProperties
  <2> QED BY <2>1, <2>2, <2>3
<1>2. Len(t1) = Len(t2)
  BY <1>1
<1>3. ASSUME NEW i \in 1..Len(s1) PROVE s1[i] = s2[i]
  <2>1. (s1 \o t1)[i] = s1[i] /\ (s2 \o t2)[i] = s2[i]
    BY <1>1, <1>2, ConcatProperties
  <2> QED BY <2>1
<1>4. ASSUME NEW i \in 1..Len(t1) PROVE t1[i] = t2[i]
  <2>1. i + Len(s1) \in 1..(Len(s1) + Len(t1)) /\ ~(i + Len(s1) <= Len(s1))
        /\ (i + Len(s1)) - Len(s1) = i
    BY <1>1
  <2>2. (s1 \o t1)[i + Len(s1)] = t1[i] /\ (s2 \o t2)[i + Len(s1)] = t2[i]
    BY <1>1, <1>2, <2>1, ConcatProperties
  <2> QED BY <2>2
<1>5. s1 = s2
  BY <1>3, SeqEqual
<1> QED BY <1>2, <1>4, <1>5, SeqEqual

\* A counter in octets is a sequence of so many, and is known by it.
LEMMA CounterOctets ==
  ASSUME Doubling, Kdf!KeyDerivationAssumption, NEW k \in Nat, NEW x \in Nat
  PROVE  Kdf!ToBytes(x, k) \in Seq(0..(2^O - 1)) /\ Len(Kdf!ToBytes(x, k)) = k
<1>1. O \in Nat \ {0} /\ 2^O \in Nat \ {0}
  BY PowerPositive DEF Kdf!KeyDerivationAssumption
<1>2. ASSUME NEW i \in 1..k PROVE (x \div 2^(O * (k - i))) % 2^O \in 0..(2^O - 1)
  <2>1. O * (k - i) \in Nat
    BY <1>1
  <2>2. x \div 2^(O * (k - i)) \in Int
    BY <2>1, PowerPositive, DivMod
  <2> QED BY <1>1, <2>2, ModRange
<1> QED BY <1>2 DEF Kdf!ToBytes

LEMMA CounterTells ==
  ASSUME Doubling, Kdf!KeyDerivationAssumption, NEW k \in Nat,
         NEW x \in 0..(2^(O * k) - 1), NEW y \in 0..(2^(O * k) - 1),
         Kdf!ToBytes(x, k) = Kdf!ToBytes(y, k)
  PROVE  x = y
<1>1. O \in Nat \ {0}
  BY DEF Kdf!KeyDerivationAssumption
<1>2. ASSUME NEW i \in 1..k
      PROVE  (x \div 2^(O * (k - i))) % 2^O = (y \div 2^(O * (k - i))) % 2^O
  <2>1. Kdf!ToBytes(x, k)[i] = (x \div 2^(O * (k - i))) % 2^O
    BY DEF Kdf!ToBytes
  <2>2. Kdf!ToBytes(y, k)[i] = (y \div 2^(O * (k - i))) % 2^O
    BY DEF Kdf!ToBytes
  <2> QED BY <2>1, <2>2
<1> QED BY <1>1, <1>2, DigitsTell

\* What calls holds is what the arguments of the calls are answered.
LEMMA KdfNext ==
  ASSUME Kdf!KeyDerivationAssumption, Kdf!Inv, [Kdf!Next]_calls
  PROVE  Kdf!Inv'
<1> DEFINE Answers ==
      {Kdf!AnsiAnswer(z, info, size) : z \in Secrets, info \in Infos, size \in Sizes}
      \cup {Kdf!HkdfAnswer(prk, info, size) : prk \in Kdf!Prks, info \in Infos, size \in Sizes}
<1>1. calls \in Seq(Answers)
  BY DEF Kdf!Inv, Kdf!Answers
<1>2. SUFFICES calls' \in Seq(Answers)
  BY DEF Kdf!Inv, Kdf!Answers
<1>3. ASSUME NEW prk \in Kdf!Prks, Kdf!HkdfExpand(prk) PROVE calls' \in Seq(Answers)
  <2>1. PICK info \in Infos, size \in Sizes : Kdf!Answer(Kdf!HkdfAnswer(prk, info, size))
    BY <1>3 DEF Kdf!HkdfExpand
  <2>2. Kdf!HkdfAnswer(prk, info, size) \in Answers
    OBVIOUS
  <2> QED BY <1>1, <2>1, <2>2, AppendProperties DEF Kdf!Answer
<1>4. CASE Kdf!AnsiX963Kdf
  <2>1. PICK z \in Secrets, info \in Infos, size \in Sizes :
          Kdf!Answer(Kdf!AnsiAnswer(z, info, size))
    BY <1>4 DEF Kdf!AnsiX963Kdf
  <2>2. Kdf!AnsiAnswer(z, info, size) \in Answers
    OBVIOUS
  <2> QED BY <1>1, <2>1, <2>2, AppendProperties DEF Kdf!Answer
<1>5. CASE Kdf!Expand
  <2>1. PICK size \in PrkSizes : Kdf!HkdfExpand([salt |-> <<>>, ikm |-> <<>>, size |-> size])
    BY <1>5 DEF Kdf!Expand
  <2>2. [salt |-> <<>>, ikm |-> <<>>, size |-> size] \in Kdf!Prks
    BY DEF Kdf!Prks
  <2> HIDE DEF Answers
  <2> QED BY <1>3, <2>1, <2>2
<1>6. CASE Kdf!Hkdf
  <2>1. PICK ikm \in Secrets, salt \in Salts : Kdf!HkdfExpand(Kdf!HkdfExtract(ikm, salt))
    BY <1>6 DEF Kdf!Hkdf
  <2>2. Kdf!HkdfExtract(ikm, salt) \in Kdf!Prks
    BY DEF Kdf!Prks
  <2> HIDE DEF Answers
  <2> QED BY <1>3, <2>1, <2>2
<1>7. CASE UNCHANGED calls
  BY <1>1, <1>7
<1> QED BY <1>4, <1>5, <1>6, <1>7 DEF Kdf!Next

\* The octets a call's counter has.
CounterSize(c) == IF c.kdf = "ansi" THEN AnsiOctets ELSE 1

\* What is known of a call.
KdfCall(c) ==
  /\ c.kdf \in {"ansi", "hkdf"} /\ c.info \in Infos /\ c.size \in Sizes
  /\ c.kdf = "ansi" => c.key \in Secrets /\ c.outcome = Kdf!Outcome(c.size, AnsiOctets)
  /\ c.kdf = "hkdf" =>
       /\ c.key \in Kdf!Prks
       /\ c.outcome = IF Kdf!Outcome(c.size, 1) = "derived" /\ c.key.size < HfSize
                      THEN "refused" ELSE Kdf!Outcome(c.size, 1)

LEMMA CallsAreKnown ==
  ASSUME Kdf!Inv, NEW k \in DOMAIN calls
  PROVE  KdfCall(calls[k])
<1> DEFINE AnsiAnswers == {Kdf!AnsiAnswer(z, info, size) : z \in Secrets, info \in Infos, size \in Sizes}
           HkdfAnswers == {Kdf!HkdfAnswer(prk, info, size) : prk \in Kdf!Prks, info \in Infos, size \in Sizes}
<1>1. calls[k] \in AnsiAnswers \cup HkdfAnswers
  BY DEF Kdf!Inv, Kdf!Answers
<1>2. CASE calls[k] \in AnsiAnswers
  <2>1. PICK z \in Secrets, info \in Infos, size \in Sizes :
          calls[k] = Kdf!AnsiAnswer(z, info, size)
    BY <1>2
  <2> QED BY <2>1 DEF KdfCall, Kdf!AnsiAnswer, Kdf!Record
<1>3. CASE calls[k] \in HkdfAnswers
  <2>1. PICK prk \in Kdf!Prks, info \in Infos, size \in Sizes :
          calls[k] = Kdf!HkdfAnswer(prk, info, size)
    BY <1>3
  <2> QED BY <2>1 DEF KdfCall, Kdf!HkdfAnswer, Kdf!Record
<1> QED BY <1>1, <1>2, <1>3

\* A size is derived where a counter reaches its last block, and no size is
\* begun that a counter does not.
LEMMA OutcomeIs ==
  ASSUME Doubling, Kdf!KeyDerivationAssumption, NEW size \in Int, NEW k \in Nat \ {0}
  PROVE  LET most == HfSize * (2^(O * k) - 1)
         IN  /\ size \in 1..most => Kdf!Outcome(size, k) = "derived"
             /\ size \notin 1..most => Kdf!Outcome(size, k) = "refused"
             /\ size \in 1..most =>
                  /\ Kdf!CeilDiv(size, HfSize) \in Nat
                  /\ Kdf!CeilDiv(size, HfSize) <= 2^(O * k) - 1
<1>1. HfSize \in Nat \ {0} /\ O \in Nat \ {0} /\ O * k \in Nat
  BY DEF Kdf!KeyDerivationAssumption
<1>2. PICK X \in Nat \ {0} : X = 2^(O * k)
  BY <1>1, PowerPositive
<1>3. X - 1 \in Int /\ HfSize * (X - 1) = (X - 1) * HfSize
  BY <1>1, <1>2
<1>4. size \in 1..(HfSize * (X - 1)) =>
        /\ (size + HfSize - 1) \div HfSize \in Int
        /\ (size + HfSize - 1) \div HfSize <= X - 1
        /\ (size + HfSize - 1) \div HfSize >= 1
  <2> SUFFICES ASSUME size \in 1..(HfSize * (X - 1))
               PROVE  /\ (size + HfSize - 1) \div HfSize \in Int
                      /\ (size + HfSize - 1) \div HfSize <= X - 1
                      /\ (size + HfSize - 1) \div HfSize >= 1
    OBVIOUS
  <2>1. size <= (X - 1) * HfSize /\ size > 0
    BY <1>3
  <2> QED BY <1>1, <1>3, <2>1, CeilReaches
<1> QED BY <1>2, <1>3, <1>4 DEF Kdf!Outcome, Kdf!IsSize, Kdf!BlocksOf, Kdf!CeilDiv

\* Blocks of ANSI-X9.63-KDF: one hash has one counter, one secret, one info.
LEMMA AnsiInputsDiffer ==
  ASSUME Doubling, Kdf!KeyDerivationAssumption,
         NEW y \in Secrets, NEW z \in Secrets, NEW f \in Infos, NEW g \in Infos,
         NEW i \in 0..(2^(O * AnsiOctets) - 1), NEW j \in 0..(2^(O * AnsiOctets) - 1),
         Kdf!AnsiInput(y, i, f) = Kdf!AnsiInput(z, j, g)
  PROVE  i = j /\ y = z /\ f = g
<1> DEFINE X == 0..(2^O - 1)
           u == Kdf!ToBytes(i, AnsiOctets)
           v == Kdf!ToBytes(j, AnsiOctets)
<1>1. y \in Seq(X) /\ z \in Seq(X) /\ f \in Seq(X) /\ g \in Seq(X) /\ Len(y) = Len(z)
      /\ AnsiOctets \in Nat
  BY DEF Kdf!KeyDerivationAssumption
<1>2. i \in Nat /\ j \in Nat
  OBVIOUS
<1>3. u \in Seq(X) /\ v \in Seq(X) /\ Len(u) = Len(v)
  BY <1>1, <1>2, CounterOctets
<1>4. (y \o u) \o f = (z \o v) \o g
  BY DEF Kdf!AnsiInput
<1> HIDE DEF X, u, v
<1>5. y \o u \in Seq(X) /\ z \o v \in Seq(X) /\ Len(y \o u) = Len(y) + Len(u)
      /\ Len(z \o v) = Len(z) + Len(v)
  BY <1>1, <1>3, ConcatProperties
<1>6. y \o u = z \o v /\ f = g
  <2>1. PICK p, q : p = y \o u /\ q = z \o v
    OBVIOUS
  <2>2. p \in Seq(X) /\ q \in Seq(X) /\ Len(p) = Len(q) /\ p \o f = q \o g
    BY <1>1, <1>3, <1>4, <1>5, <2>1
  <2>3. p = q /\ f = g
    BY <1>1, <2>2, SameParts
  <2> QED BY <2>1, <2>3
<1>7. y = z /\ u = v
  BY <1>1, <1>3, <1>6, SameParts
<1>8. i = j
  BY <1>1, <1>7, CounterTells DEF u, v
<1> QED BY <1>6, <1>7, <1>8

\* The blocks of HKDF-Expand, from the nothing that the first is chained to.
HkdfChain(prk, info, m, block) ==
  /\ block = [i \in 0..m |-> block[i]] /\ block[0] = <<>>
  /\ \A i \in 1..m : block[i] = <<prk, block[i - 1], info, i % 2^O>>

LEMMA HkdfChainExists ==
  ASSUME NEW prk, NEW info, NEW m \in Nat
  PROVE  \E block : HkdfChain(prk, info, m, block)
<1> DEFINE T == {k \in Nat : \E block : HkdfChain(prk, info, k, block)}
<1>1. 0 \in T
  <2> DEFINE b == [i \in 0..0 |-> <<>>]
  <2>1. HkdfChain(prk, info, 0, b)
    BY DEF HkdfChain
  <2> QED BY <2>1
<1>2. ASSUME NEW k \in Nat, k \in T PROVE k + 1 \in T
  <2>1. PICK b : HkdfChain(prk, info, k, b)
    BY <1>2
  <2> DEFINE d == [i \in 0..(k + 1) |-> IF i = k + 1 THEN <<prk, b[k], info, (k + 1) % 2^O>> ELSE b[i]]
  <2>2. DOMAIN d = 0..(k + 1) /\ d[0] = <<>>
    BY <2>1 DEF HkdfChain
  <2>3. ASSUME NEW i \in 1..(k + 1) PROVE d[i] = <<prk, d[i - 1], info, i % 2^O>>
    <3>1. i - 1 \in 0..(k + 1) /\ i - 1 # k + 1 /\ d[i - 1] = b[i - 1]
      OBVIOUS
    <3>2. CASE i = k + 1
      <4>1. i - 1 = k
        BY <3>2
      <4> QED BY <3>1, <3>2, <4>1
    <3>3. CASE i # k + 1
      <4>1. i \in 1..k
        BY <3>3
      <4>2. d[i] = b[i]
        BY <3>3
      <4>3. b[i] = <<prk, b[i - 1], info, i % 2^O>>
        BY <2>1, <4>1 DEF HkdfChain
      <4> HIDE DEF d
      <4> QED BY <3>1, <4>2, <4>3
    <3> QED BY <3>2, <3>3
  <2>5. d = [i \in 0..(k + 1) |-> d[i]]
    OBVIOUS
  <2> HIDE DEF d
  <2>4. HkdfChain(prk, info, k + 1, d)
    BY <2>2, <2>3, <2>5 DEF HkdfChain
  <2> QED BY <2>4
<1>3. Nat \subseteq T
  <2> HIDE DEF T
  <2> QED BY <1>1, <1>2, SetInduction
<1> QED BY <1>3

LEMMA HkdfBlocksAre ==
  ASSUME NEW prk, NEW info, NEW size, NEW m \in Nat, Kdf!CeilDiv(size, HfSize) = m
  PROVE  \E block : /\ HkdfChain(prk, info, m, block)
                    /\ Kdf!HkdfBlocks(prk, info, size) = [i \in 1..m |-> block[i]]
<1> DEFINE F(b) == [i \in 0..m |-> IF i = 0 THEN <<>> ELSE <<prk, b[i - 1], info, i % 2^O>>]
           c == CHOOSE b : b = F(b)
<1>1. PICK b : HkdfChain(prk, info, m, b)
  BY HkdfChainExists
<1>2. b = F(b)
  <2>1. ASSUME NEW i \in 0..m
        PROVE  b[i] = IF i = 0 THEN <<>> ELSE <<prk, b[i - 1], info, i % 2^O>>
    <3>1. i # 0 => i \in 1..m
      OBVIOUS
    <3> QED BY <1>1, <3>1 DEF HkdfChain
  <2>2. b = [i \in 0..m |-> b[i]]
    BY <1>1 DEF HkdfChain
  <2> QED BY <2>1, <2>2
<1>3. c = F(c)
  BY <1>2
<1> HIDE DEF c
<1>4. c = [i \in 0..m |-> c[i]]
  BY <1>3
<1>5. c[0] = <<>>
  BY <1>3
<1>6. ASSUME NEW i \in 1..m PROVE c[i] = <<prk, c[i - 1], info, i % 2^O>>
  <2>1. i \in 0..m /\ i # 0
    OBVIOUS
  <2> QED BY <1>3, <2>1
<1>7. HkdfChain(prk, info, m, c)
  BY <1>4, <1>5, <1>6 DEF HkdfChain
<1>8. Kdf!HkdfBlocks(prk, info, size) = [i \in 1..m |-> c[i]]
  BY DEF Kdf!HkdfBlocks, c
<1> QED BY <1>7, <1>8

\* Two chains meet at one place only, and there they are one.
LEMMA HkdfChainsDiffer ==
  ASSUME NEW f, NEW g, NEW u, NEW v, NEW k \in Nat, NEW l \in Nat, NEW a, NEW b,
         HkdfChain(f, u, k, a), HkdfChain(g, v, l, b)
  PROVE  \A i \in 1..k, j \in 1..l : a[i] = b[j] => i = j /\ f = g /\ u = v
<1> DEFINE T == {i \in Nat : i <= k => \A j \in 0..l : a[i] = b[j] => i = j}
<1>0. \A w, x, y, z : <<w, x, y, z>> # <<>>
  OBVIOUS
<1>1. ASSUME NEW j \in 1..l PROVE b[j] # <<>> /\ b[j] = <<g, b[j - 1], v, j % 2^O>>
  <2>1. b[j] = <<g, b[j - 1], v, j % 2^O>>
    BY DEF HkdfChain
  <2> QED BY <2>1, <1>0
<1>2. ASSUME NEW i \in 1..k PROVE a[i] # <<>> /\ a[i] = <<f, a[i - 1], u, i % 2^O>>
  <2>1. a[i] = <<f, a[i - 1], u, i % 2^O>>
    BY DEF HkdfChain
  <2> QED BY <2>1, <1>0
<1>3. a[0] = <<>> /\ b[0] = <<>>
  BY DEF HkdfChain
<1>4. 0 \in T
  BY <1>1, <1>3
<1>5. ASSUME NEW i \in Nat, i \in T PROVE i + 1 \in T
  <2> SUFFICES ASSUME i + 1 <= k, NEW j \in 0..l, a[i + 1] = b[j] PROVE i + 1 = j
    OBVIOUS
  <2>1. i + 1 \in 1..k /\ i + 1 - 1 = i
    OBVIOUS
  <2>2. a[i + 1] # <<>> /\ a[i + 1] = <<f, a[i], u, (i + 1) % 2^O>>
    BY <1>2, <2>1
  <2>3. j # 0
    BY <1>3, <2>2
  <2>6. j \in 1..l /\ j - 1 \in 0..l
    BY <2>3
  <2>4. a[i] = b[j - 1]
    <3>1. <<f, a[i], u, (i + 1) % 2^O>> = <<g, b[j - 1], v, j % 2^O>>
      BY <1>1, <2>2, <2>6
    <3> QED BY <3>1
  <2>5. i = j - 1
    BY <1>5, <2>4, <2>6
  <2> QED BY <2>5, <2>6
<1>6. Nat \subseteq T
  <2> HIDE DEF T
  <2> QED BY <1>4, <1>5, SetInduction
<1>7. ASSUME NEW i \in 1..k, NEW j \in 1..l, a[i] = b[j] PROVE i = j /\ f = g /\ u = v
  <2>1. i \in T /\ j \in 0..l
    BY <1>6
  <2>2. i = j
    BY <1>7, <2>1
  <2>3. <<f, a[i - 1], u, i % 2^O>> = <<g, b[j - 1], v, j % 2^O>>
    BY <1>1, <1>2, <1>7
  <2> QED BY <2>2, <2>3
<1> QED BY <1>7

LEMMA CallSizes ==
  ASSUME Kdf!KeyDerivationAssumption, NEW c, KdfCall(c)
  PROVE  c.size \in Int /\ CounterSize(c) \in Nat \ {0}
<1>1. Sizes \subseteq Int /\ AnsiOctets \in Nat \ {0}
  BY DEF Kdf!KeyDerivationAssumption
<1>2. c.size \in Sizes
  BY DEF KdfCall
<1>3. c.size \in Int
  BY <1>1, <1>2
<1>4. CounterSize(c) \in {AnsiOctets, 1}
  BY DEF CounterSize
<1> QED BY <1>1, <1>3, <1>4

\* A derived call's blocks are as many as its counter counts.
LEMMA DerivedSize ==
  ASSUME Doubling, Kdf!KeyDerivationAssumption, NEW c, KdfCall(c), c.outcome = "derived"
  PROVE  /\ Kdf!CeilDiv(c.size, HfSize) \in Nat
         /\ Kdf!CeilDiv(c.size, HfSize) <= 2^(O * CounterSize(c)) - 1
<1>1. c.size \in Int /\ CounterSize(c) \in Nat \ {0}
  BY CallSizes
<1>2. Kdf!Outcome(c.size, CounterSize(c)) = "derived"
  BY DEF KdfCall, CounterSize
<1>3. c.size \in 1..(HfSize * (2^(O * CounterSize(c)) - 1))
  BY <1>1, <1>2, OutcomeIs
<1> QED BY <1>1, <1>3, OutcomeIs

LEMMA BlocksDiffer ==
  ASSUME Doubling, Kdf!KeyDerivationAssumption, NEW c, NEW d, KdfCall(c), KdfCall(d),
         c.outcome = "derived", d.outcome = "derived", c.kdf = d.kdf,
         NEW i \in DOMAIN Kdf!Blocks(c), NEW j \in DOMAIN Kdf!Blocks(d),
         Kdf!Blocks(c)[i] = Kdf!Blocks(d)[j]
  PROVE  i = j /\ c.key = d.key /\ c.info = d.info
<1>1. PICK k \in Nat : k = Kdf!CeilDiv(c.size, HfSize) /\ k <= 2^(O * CounterSize(c)) - 1
  BY DerivedSize
<1>2. PICK l \in Nat : l = Kdf!CeilDiv(d.size, HfSize) /\ l <= 2^(O * CounterSize(d)) - 1
  BY DerivedSize
<1>3. CASE c.kdf = "ansi"
  <2>1. Kdf!Blocks(c) = [q \in 1..k |-> <<"hash", Kdf!AnsiInput(c.key, q, c.info)>>]
    BY <1>1, <1>3 DEF Kdf!Blocks, Kdf!AnsiBlocks
  <2>2. Kdf!Blocks(d) = [q \in 1..l |-> <<"hash", Kdf!AnsiInput(d.key, q, d.info)>>]
    BY <1>2, <1>3 DEF Kdf!Blocks, Kdf!AnsiBlocks
  <2>3. i \in 1..k /\ j \in 1..l
    BY <2>1, <2>2
  <2>4. Kdf!AnsiInput(c.key, i, c.info) = Kdf!AnsiInput(d.key, j, d.info)
    <3>1. Kdf!Blocks(c)[i] = <<"hash", Kdf!AnsiInput(c.key, i, c.info)>>
      BY <2>1, <2>3
    <3>2. Kdf!Blocks(d)[j] = <<"hash", Kdf!AnsiInput(d.key, j, d.info)>>
      BY <2>2, <2>3
    <3>3. PICK x, y : x = Kdf!AnsiInput(c.key, i, c.info) /\ y = Kdf!AnsiInput(d.key, j, d.info)
      OBVIOUS
    <3>4. <<"hash", x>> = <<"hash", y>>
      BY <3>1, <3>2, <3>3
    <3>5. x = y
      BY <3>4
    <3> QED BY <3>3, <3>5
  <2>5. O * AnsiOctets \in Nat
    BY DEF Kdf!KeyDerivationAssumption
  <2>6. 2^(O * AnsiOctets) \in Nat
    BY <2>5, PowerPositive
  <2>7. i \in 0..(2^(O * AnsiOctets) - 1) /\ j \in 0..(2^(O * AnsiOctets) - 1)
    BY <1>1, <1>2, <1>3, <2>3, <2>6 DEF CounterSize
  <2>8. c.key \in Secrets /\ d.key \in Secrets /\ c.info \in Infos /\ d.info \in Infos
    BY <1>3 DEF KdfCall
  <2> QED BY <2>4, <2>7, <2>8, AnsiInputsDiffer
<1>4. CASE c.kdf = "hkdf"
  <2>1. PICK a : HkdfChain(c.key, c.info, k, a) /\ Kdf!HkdfBlocks(c.key, c.info, c.size) = [q \in 1..k |-> a[q]]
    BY <1>1, HkdfBlocksAre
  <2>2. PICK b : HkdfChain(d.key, d.info, l, b) /\ Kdf!HkdfBlocks(d.key, d.info, d.size) = [q \in 1..l |-> b[q]]
    BY <1>2, HkdfBlocksAre
  <2>3. Kdf!Blocks(c) = [q \in 1..k |-> a[q]] /\ Kdf!Blocks(d) = [q \in 1..l |-> b[q]]
    BY <1>4, <2>1, <2>2 DEF Kdf!Blocks
  <2>4. i \in 1..k /\ j \in 1..l /\ a[i] = b[j]
    BY <2>3
  <2>5. \A p \in 1..k, q \in 1..l : a[p] = b[q] => p = q /\ c.key = d.key /\ c.info = d.info
    <3>1. PICK f, g, u, v : f = c.key /\ g = d.key /\ u = c.info /\ v = d.info
      OBVIOUS
    <3>2. HkdfChain(f, u, k, a) /\ HkdfChain(g, v, l, b)
      BY <2>1, <2>2, <3>1
    <3>3. \A p \in 1..k, q \in 1..l : a[p] = b[q] => p = q /\ f = g /\ u = v
      BY <3>2, HkdfChainsDiffer
    <3> QED BY <3>1, <3>3
  <2> QED BY <2>4, <2>5
<1> QED BY <1>3, <1>4 DEF KdfCall

\* In every reachable state what was answered is what its arguments are answered.
THEOREM DerivationsAreAnswers == Kdf!KeyDerivationAssumption => (Kdf!Spec => []Kdf!Inv)
<1> SUFFICES ASSUME Kdf!KeyDerivationAssumption PROVE Kdf!Spec => []Kdf!Inv
  OBVIOUS
<1>1. Kdf!Init => Kdf!Inv
  BY DEF Kdf!Init, Kdf!Inv, Kdf!Answers
<1>2. Kdf!Inv /\ [Kdf!Next]_calls => Kdf!Inv'
  BY KdfNext
<1> QED BY <1>1, <1>2, PTL DEF Kdf!Spec

\* No block of keying data comes twice, in one answer or in two, but for the
\* same key and the same info (kdf.py:73-125, 158-204).
THEOREM NoBlockComesTwice ==
  Kdf!KeyDerivationAssumption /\ Doubling => (Kdf!Spec => []Kdf!NoBlockTwice)
<1> SUFFICES ASSUME Kdf!KeyDerivationAssumption, Doubling PROVE Kdf!Spec => []Kdf!NoBlockTwice
  OBVIOUS
<1>1. Kdf!Spec => []Kdf!Inv
  BY DerivationsAreAnswers
<1>2. Kdf!Inv => Kdf!NoBlockTwice
  BY CallsAreKnown, BlocksDiffer DEF Kdf!NoBlockTwice
<1> QED BY <1>1, <1>2, PTL

\* Every size a counter can number is derived, and no other: a counter never
\* overflows its octets (kdf.py:48-70, 94-97, 186-191).
THEOREM EverySizeAnswered ==
  Kdf!KeyDerivationAssumption /\ Doubling => (Kdf!Spec => []Kdf!EverySizeIsAnswered)
<1> SUFFICES ASSUME Kdf!KeyDerivationAssumption, Doubling
             PROVE  Kdf!Spec => []Kdf!EverySizeIsAnswered
  OBVIOUS
<1>1. Kdf!Spec => []Kdf!Inv
  BY DerivationsAreAnswers
<1>2. Kdf!Inv => Kdf!EverySizeIsAnswered
  <2> SUFFICES ASSUME Kdf!Inv, NEW k \in DOMAIN calls
               PROVE  LET c == calls[k]
                          most == HfSize * (2^(O * (IF c.kdf = "ansi" THEN AnsiOctets ELSE 1)) - 1)
                      IN  /\ c.outcome # "overflow"
                          /\ c.kdf = "ansi" \/ c.key.size >= HfSize =>
                               (c.outcome = "derived" <=> c.size \in 1..most)
    BY DEF Kdf!EverySizeIsAnswered
  <2>1. PICK c : c = calls[k] /\ KdfCall(c)
    BY CallsAreKnown
  <2>2. c.size \in Int /\ CounterSize(c) \in Nat \ {0}
    BY <2>1, CallSizes
  <2> DEFINE most == HfSize * (2^(O * CounterSize(c)) - 1)
  <2>3. /\ c.size \in 1..most => Kdf!Outcome(c.size, CounterSize(c)) = "derived"
        /\ c.size \notin 1..most => Kdf!Outcome(c.size, CounterSize(c)) = "refused"
    BY <2>2, OutcomeIs
  <2> HIDE DEF most
  <2>4. /\ c.kdf = "ansi" => c.outcome = Kdf!Outcome(c.size, CounterSize(c))
        /\ c.kdf = "hkdf" =>
             c.outcome = IF Kdf!Outcome(c.size, CounterSize(c)) = "derived" /\ c.key.size < HfSize
                         THEN "refused" ELSE Kdf!Outcome(c.size, CounterSize(c))
    BY <2>1 DEF KdfCall, CounterSize
  <2>5. c.kdf = "hkdf" => c.key.size \in Nat
    <3>1. HfSize \in Nat /\ PrkSizes \subseteq Nat
      BY DEF Kdf!KeyDerivationAssumption
    <3>2. \A prk \in Kdf!Prks : prk.size \in Nat
      BY <3>1 DEF Kdf!Prks, Kdf!HkdfExtract
    <3> QED BY <2>1, <3>2 DEF KdfCall
  <2>6. HfSize \in Nat
    BY DEF Kdf!KeyDerivationAssumption
  <2>7. /\ c.outcome # "overflow"
        /\ c.kdf = "ansi" \/ c.key.size >= HfSize => (c.outcome = "derived" <=> c.size \in 1..most)
    <3>1. CASE c.kdf = "ansi"
      BY <2>3, <2>4, <3>1
    <3>2. CASE c.kdf = "hkdf"
      <4>1. c.key.size >= HfSize => ~(c.key.size < HfSize)
        BY <2>5, <2>6, <3>2
      <4> QED BY <2>3, <2>4, <3>2, <4>1
    <3> QED BY <2>1, <3>1, <3>2 DEF KdfCall
  <2> QED BY <2>1, <2>7 DEF most, CounterSize
<1> QED BY <1>1, <1>2, PTL

-----------------------------------------------------------------------------
(***************************************************************************)
(* Numbers drawn from hashes: no candidate comes twice (Nonces).           *)
(***************************************************************************)
CONSTANTS NLen, ExtraBits, Calls, MaxRejected
VARIABLES state, tried, number, past

Non == INSTANCE Nonces

\* What is appended to a sequence is in it.
LEMMA SequencesGrow ==
  ASSUME NEW f, Non!IsSequence(f), NEW x
  PROVE  /\ Len(f) \in Nat /\ DOMAIN f = 1..Len(f)
         /\ Non!IsSequence(Append(f, x))
         /\ Len(Append(f, x)) = Len(f) + 1 /\ Append(f, x)[Len(f) + 1] = x
         /\ \A i \in 1..Len(f) : Append(f, x)[i] = f[i]
<1> DEFINE X == {f[i] : i \in DOMAIN f} \cup {x}
           h == Append(f, x)
<1>1. f \in Seq({f[i] : i \in DOMAIN f})
  BY DEF Non!IsSequence
<1>2. Len(f) \in Nat /\ DOMAIN f = 1..Len(f)
  BY <1>1, LenProperties
<1>3. /\ h \in Seq(X) /\ Len(h) = Len(f) + 1 /\ h[Len(f) + 1] = x
      /\ \A i \in 1..Len(f) : h[i] = f[i]
  <2>1. f \in Seq(X)
    BY <1>1, <1>2
  <2>2. x \in X
    OBVIOUS
  <2> QED BY <2>1, <2>2, AppendProperties
<1>4. h \in [1..Len(h) -> {h[i] : i \in DOMAIN h}] /\ Len(h) \in Nat
  <2>1. DOMAIN h = 1..Len(h) /\ Len(h) \in Nat /\ h = [i \in 1..Len(h) |-> h[i]]
    BY <1>3, LenProperties
  <2> HIDE DEF h
  <2> QED BY <2>1
<1>5. Non!IsSequence(h)
  <2> HIDE DEF h
  <2> QED BY <1>4 DEF Non!IsSequence
<1> QED BY <1>2, <1>3, <1>5

\* Octets and tags tell.
LEMMA FrontsTell ==
  ASSUME NEW X, NEW u \in Seq(X), NEW v \in Seq(X), NEW a, NEW b,
         <<a>> \o u = <<b>> \o v
  PROVE  a = b /\ u = v
<1> DEFINE Y == X \cup {a, b}
<1>1. u \in Seq(Y) /\ v \in Seq(Y)
  OBVIOUS
<1>2. <<a>> \in Seq(Y) /\ <<b>> \in Seq(Y) /\ Len(<<a>>) = 1 /\ Len(<<b>>) = 1
  OBVIOUS
<1>3. PICK p, q : p = <<a>> /\ q = <<b>>
  OBVIOUS
<1> HIDE DEF Y
<1>4. p = q /\ u = v
  BY <1>1, <1>2, <1>3, SameParts
<1> QED BY <1>3, <1>4

-----------------------------------------------------------------------------
(* The generator *)

\* The outputs of one call of generate.
Outputs(drbg, hf, m, out) ==
  /\ out = [i \in 1..m |-> out[i]]
  /\ \A i \in 1..m : out[i] = Non!NextV(hf, drbg[1], IF i = 1 THEN drbg[2] ELSE out[i - 1])

LEMMA OutputsExist ==
  ASSUME NEW drbg, NEW hf, NEW m \in Nat
  PROVE  \E out : Outputs(drbg, hf, m, out)
<1> DEFINE T == {k \in Nat : \E out : Outputs(drbg, hf, k, out)}
<1>1. 0 \in T
  <2> DEFINE b == [i \in 1..0 |-> <<>>]
  <2>1. b = [i \in 1..0 |-> b[i]] /\ 1..0 = {}
    OBVIOUS
  <2> HIDE DEF b
  <2>2. Outputs(drbg, hf, 0, b)
    BY <2>1 DEF Outputs
  <2> QED BY <2>2
<1>2. ASSUME NEW k \in Nat, k \in T PROVE k + 1 \in T
  <2>1. PICK b : Outputs(drbg, hf, k, b)
    BY <1>2
  <2> DEFINE last == IF k = 0 THEN drbg[2] ELSE b[k]
             d == [i \in 1..(k + 1) |-> IF i = k + 1 THEN Non!NextV(hf, drbg[1], last) ELSE b[i]]
  <2>2. d = [i \in 1..(k + 1) |-> d[i]]
    OBVIOUS
  <2>3. ASSUME NEW i \in 1..(k + 1)
        PROVE  d[i] = Non!NextV(hf, drbg[1], IF i = 1 THEN drbg[2] ELSE d[i - 1])
    <3>1. i # 1 => i - 1 \in 1..(k + 1) /\ i - 1 # k + 1 /\ d[i - 1] = b[i - 1]
      OBVIOUS
    <3>2. CASE i = k + 1
      <4>1. i - 1 = k /\ (i = 1 <=> k = 0)
        BY <3>2
      <4>2. d[i] = Non!NextV(hf, drbg[1], last)
        BY <3>2
      <4>3. last = IF i = 1 THEN drbg[2] ELSE d[i - 1]
        <5>1. CASE i = 1
          BY <4>1, <5>1
        <5>2. CASE i # 1
          BY <3>1, <4>1, <5>2
        <5> QED BY <5>1, <5>2
      <4> HIDE DEF d, last
      <4> QED BY <4>2, <4>3
    <3>3. CASE i # k + 1
      <4>1. i \in 1..k /\ d[i] = b[i]
        BY <3>3
      <4>2. b[i] = Non!NextV(hf, drbg[1], IF i = 1 THEN drbg[2] ELSE b[i - 1])
        BY <2>1, <4>1 DEF Outputs
      <4> HIDE DEF d
      <4>3. CASE i = 1
        BY <4>1, <4>2, <4>3
      <4>4. CASE i # 1
        BY <3>1, <4>1, <4>2, <4>4
      <4> QED BY <4>3, <4>4
    <3> QED BY <3>2, <3>3
  <2> HIDE DEF d
  <2>4. Outputs(drbg, hf, k + 1, d)
    BY <2>2, <2>3 DEF Outputs
  <2> QED BY <2>4
<1>3. Nat \subseteq T
  <2> HIDE DEF T
  <2> QED BY <1>1, <1>2, SetInduction
<1> QED BY <1>3

LEMMA GenerateIs ==
  ASSUME NEW drbg, NEW hf, NEW size, NEW m \in Nat, Non!CeilDiv(size, hf) = m
  PROVE  /\ Non!IsSequence(Non!Generate(drbg, size, hf))
         /\ Len(Non!Generate(drbg, size, hf)) = m
         /\ DOMAIN Non!Generate(drbg, size, hf) = 1..m
         /\ m > 0 => Non!Generate(drbg, size, hf)[1] = Non!NextV(hf, drbg[1], drbg[2])
<1> DEFINE F(b) == [i \in 1..m |-> Non!NextV(hf, drbg[1], IF i = 1 THEN drbg[2] ELSE b[i - 1])]
           c == CHOOSE b : b = F(b)
<1>1. PICK b : Outputs(drbg, hf, m, b)
  BY OutputsExist
<1>2. b = F(b)
  <2>1. \A i \in 1..m : b[i] = Non!NextV(hf, drbg[1], IF i = 1 THEN drbg[2] ELSE b[i - 1])
    BY <1>1 DEF Outputs
  <2>2. b = [i \in 1..m |-> b[i]]
    BY <1>1 DEF Outputs
  <2> QED BY <2>1, <2>2
<1>3. c = F(c)
  BY <1>2
<1>4. Non!Generate(drbg, size, hf) = [i \in 1..m |-> c[i]]
  BY DEF Non!Generate, c
<1> HIDE DEF c
<1>5. m > 0 => c[1] = Non!NextV(hf, drbg[1], drbg[2])
  BY <1>3
<1>6. PICK t : t = Non!Generate(drbg, size, hf)
  OBVIOUS
<1>7. t = [i \in 1..m |-> c[i]]
  BY <1>4, <1>6
<1>8. DOMAIN t = 1..m /\ t \in [1..m -> {t[i] : i \in DOMAIN t}]
  BY <1>7
<1>10. t \in Seq({t[i] : i \in DOMAIN t}) /\ Len(t) = m
  BY <1>8
<1>9. m > 0 => t[1] = Non!NextV(hf, drbg[1], drbg[2])
  BY <1>5, <1>7
<1> QED BY <1>6, <1>8, <1>9, <1>10 DEF Non!IsSequence

\* A generator after a block and its reseeding.
Reseeded(drbg, hf) ==
  Non!Reseed(Non!AfterGenerate(drbg, Non!Generate(drbg, Non!NSize, hf)), hf)

DrbgChain(seed, hf, m, drbg) ==
  /\ drbg = [j \in 0..m |-> drbg[j]] /\ drbg[0] = Non!Seeded(seed, hf)
  /\ \A j \in 1..m : drbg[j] = Reseeded(drbg[j - 1], hf)

LEMMA DrbgChainExists ==
  ASSUME NEW seed, NEW hf, NEW m \in Nat
  PROVE  \E drbg : DrbgChain(seed, hf, m, drbg)
<1> DEFINE T == {k \in Nat : \E drbg : DrbgChain(seed, hf, k, drbg)}
<1>1. 0 \in T
  <2> DEFINE b == [j \in 0..0 |-> Non!Seeded(seed, hf)]
  <2>1. DrbgChain(seed, hf, 0, b)
    BY DEF DrbgChain
  <2> QED BY <2>1
<1>2. ASSUME NEW k \in Nat, k \in T PROVE k + 1 \in T
  <2>1. PICK b : DrbgChain(seed, hf, k, b)
    BY <1>2
  <2> DEFINE d == [j \in 0..(k + 1) |-> IF j = k + 1 THEN Reseeded(b[k], hf) ELSE b[j]]
  <2>2. d = [j \in 0..(k + 1) |-> d[j]] /\ d[0] = Non!Seeded(seed, hf)
    BY <2>1 DEF DrbgChain
  <2>3. ASSUME NEW j \in 1..(k + 1) PROVE d[j] = Reseeded(d[j - 1], hf)
    <3>1. j - 1 \in 0..(k + 1) /\ j - 1 # k + 1 /\ d[j - 1] = b[j - 1]
      OBVIOUS
    <3>2. CASE j = k + 1
      <4>1. j - 1 = k /\ d[j] = Reseeded(b[k], hf)
        BY <3>2
      <4> HIDE DEF d
      <4> QED BY <3>1, <4>1
    <3>3. CASE j # k + 1
      <4>1. j \in 1..k /\ d[j] = b[j]
        BY <3>3
      <4>2. b[j] = Reseeded(b[j - 1], hf)
        BY <2>1, <4>1 DEF DrbgChain
      <4> HIDE DEF d
      <4> QED BY <3>1, <4>1, <4>2
    <3> QED BY <3>2, <3>3
  <2> HIDE DEF d
  <2>4. DrbgChain(seed, hf, k + 1, d)
    BY <2>2, <2>3 DEF DrbgChain
  <2> QED BY <2>4
<1>3. Nat \subseteq T
  <2> HIDE DEF T
  <2> QED BY <1>1, <1>2, SetInduction
<1> QED BY <1>3

\* Chains of one seed agree, however long they are.
LEMMA DrbgChainsAgree ==
  ASSUME NEW seed, NEW hf, NEW k \in Nat, NEW l \in Nat, k <= l, NEW a, NEW b,
         DrbgChain(seed, hf, k, a), DrbgChain(seed, hf, l, b)
  PROVE  a[k] = b[k]
<1> DEFINE T == {j \in Nat : j <= k => a[j] = b[j]}
<1>1. 0 \in T
  BY DEF DrbgChain
<1>2. ASSUME NEW j \in Nat, j \in T PROVE j + 1 \in T
  <2> SUFFICES ASSUME j + 1 <= k PROVE a[j + 1] = b[j + 1]
    OBVIOUS
  <2>1. j + 1 \in 1..k /\ j + 1 \in 1..l /\ (j + 1) - 1 = j /\ a[j] = b[j]
    BY <1>2
  <2>2. a[j + 1] = Reseeded(a[j], hf)
    BY <2>1 DEF DrbgChain
  <2>3. b[j + 1] = Reseeded(b[j], hf)
    BY <2>1 DEF DrbgChain
  <2> QED BY <2>1, <2>2, <2>3
<1>3. Nat \subseteq T
  <2> HIDE DEF T
  <2> QED BY <1>1, <1>2, SetInduction
<1> QED BY <1>3

LEMMA GeneratorIs ==
  ASSUME NEW seed, NEW hf, NEW m \in Nat
  PROVE  \E drbg : DrbgChain(seed, hf, m, drbg) /\ Non!Generator(seed, hf, m) = drbg[m]
<1> DEFINE F(b) == [j \in 0..m |-> IF j = 0 THEN Non!Seeded(seed, hf) ELSE Reseeded(b[j - 1], hf)]
           c == CHOOSE b : b = F(b)
<1>1. PICK b : DrbgChain(seed, hf, m, b)
  BY DrbgChainExists
<1>2. b = F(b)
  <2>1. ASSUME NEW j \in 0..m
        PROVE  b[j] = IF j = 0 THEN Non!Seeded(seed, hf) ELSE Reseeded(b[j - 1], hf)
    <3>1. j # 0 => j \in 1..m
      OBVIOUS
    <3> QED BY <1>1, <3>1 DEF DrbgChain
  <2>2. b = [j \in 0..m |-> b[j]]
    BY <1>1 DEF DrbgChain
  <2> QED BY <2>1, <2>2
<1>3. c = F(c)
  BY <1>2
<1>4. Non!Generator(seed, hf, m) = c[m]
  BY DEF Non!Generator, Reseeded, c
<1> HIDE DEF c
<1>5. c = [j \in 0..m |-> c[j]] /\ c[0] = Non!Seeded(seed, hf)
  BY <1>3
<1>6. ASSUME NEW j \in 1..m PROVE c[j] = Reseeded(c[j - 1], hf)
  <2>1. j \in 0..m /\ j # 0
    OBVIOUS
  <2> QED BY <1>3, <2>1
<1>7. DrbgChain(seed, hf, m, c)
  BY <1>5, <1>6 DEF DrbgChain
<1> QED BY <1>4, <1>7

LEMMA GeneratorSteps ==
  ASSUME NEW seed, NEW hf
  PROVE  /\ Non!Generator(seed, hf, 0) = Non!Seeded(seed, hf)
         /\ \A i \in Nat : Non!Generator(seed, hf, i + 1) = Reseeded(Non!Generator(seed, hf, i), hf)
<1>1. PICK d : DrbgChain(seed, hf, 0, d) /\ Non!Generator(seed, hf, 0) = d[0]
  BY GeneratorIs
<1>2. Non!Generator(seed, hf, 0) = Non!Seeded(seed, hf)
  BY <1>1 DEF DrbgChain
<1>3. ASSUME NEW i \in Nat
      PROVE  Non!Generator(seed, hf, i + 1) = Reseeded(Non!Generator(seed, hf, i), hf)
  <2>1. PICK a : DrbgChain(seed, hf, i, a) /\ Non!Generator(seed, hf, i) = a[i]
    BY GeneratorIs
  <2>2. PICK k \in Nat : k = i + 1
    OBVIOUS
  <2>3. PICK b : DrbgChain(seed, hf, k, b) /\ Non!Generator(seed, hf, k) = b[k]
    BY GeneratorIs
  <2>4. a[i] = b[i]
    <3>1. i <= k
      BY <2>2
    <3> QED BY <2>1, <2>3, <3>1, DrbgChainsAgree
  <2>5. b[k] = Reseeded(b[i], hf)
    <3>1. k \in 1..k /\ k - 1 = i
      BY <2>2
    <3> QED BY <2>3, <3>1 DEF DrbgChain
  <2> QED BY <2>1, <2>2, <2>3, <2>4, <2>5
<1> QED BY <1>2, <1>3

LEMMA SeededKey ==
  ASSUME NEW seed, NEW hf
  PROVE  \E a, b : Non!Generator(seed, hf, 0)[1] = Non!Hmac(hf, a, <<b, Non!Octet(1)>> \o seed)
<1> DEFINE k1 == Non!Hmac(hf, <<"zeros">>, <<<<"ones">>, Non!Octet(0)>> \o seed)
           v1 == Non!NextV(hf, k1, <<"ones">>)
           k2 == Non!Hmac(hf, k1, <<v1, Non!Octet(1)>> \o seed)
<1>1. Non!Generator(seed, hf, 0) = <<k2, Non!NextV(hf, k2, v1)>>
  BY GeneratorSteps DEF Non!Seeded
<1> HIDE DEF k1, v1
<1>2. Non!Generator(seed, hf, 0)[1] = k2
  BY <1>1
<1> QED BY <1>2

LEMMA HmacTells ==
  ASSUME NEW p, NEW q, NEW h, NEW u, NEW x, NEW y, Non!Hmac(p, h, x) = Non!Hmac(q, u, y)
  PROVE  p = q /\ h = u /\ x = y
BY DEF Non!Hmac

\* Two generators with one key are one generator of one seed, after as many
\* blocks: what seeds a key is told by the octet that its message has second.
LEMMA KeysDiffer ==
  ASSUME NEW X, NEW f \in Seq(X), NEW g \in Seq(X), NEW hf, NEW hg, NEW k \in Nat, NEW l \in Nat,
         Non!Generator(f, hf, k)[1] = Non!Generator(g, hg, l)[1]
  PROVE  k = l /\ f = g /\ hf = hg
<1> DEFINE A(i) == Non!Generator(f, hf, i)[1]
           B(j) == Non!Generator(g, hg, j)[1]
           T == {i \in Nat : \A j \in Nat : A(i) = B(j) => i = j /\ f = g /\ hf = hg}
<1>1. PICK a, b : A(0) = Non!Hmac(hf, a, <<b, Non!Octet(1)>> \o f)
  BY SeededKey
<1>2. PICK c, d : B(0) = Non!Hmac(hg, c, <<d, Non!Octet(1)>> \o g)
  BY SeededKey
<1>3. ASSUME NEW i \in Nat
      PROVE  \E v : A(i + 1) = Non!Hmac(hf, A(i), <<v, Non!Octet(0)>>)
  <2>1. PICK p, q : p = Non!Generator(f, hf, i) /\ q = Non!Generate(p, Non!NSize, hf)
    OBVIOUS
  <2>2. Non!Generator(f, hf, i + 1) = Non!Reseed(<<p[1], q[Len(q)]>>, hf)
    BY <2>1, GeneratorSteps DEF Reseeded, Non!AfterGenerate
  <2>3. A(i + 1) = Non!Hmac(hf, A(i), <<q[Len(q)], Non!Octet(0)>>)
    BY <2>1, <2>2 DEF Non!Reseed
  <2> QED BY <2>3
<1>4. ASSUME NEW j \in Nat
      PROVE  \E v : B(j + 1) = Non!Hmac(hg, B(j), <<v, Non!Octet(0)>>)
  <2>1. PICK p, q : p = Non!Generator(g, hg, j) /\ q = Non!Generate(p, Non!NSize, hg)
    OBVIOUS
  <2>2. Non!Generator(g, hg, j + 1) = Non!Reseed(<<p[1], q[Len(q)]>>, hg)
    BY <2>1, GeneratorSteps DEF Reseeded, Non!AfterGenerate
  <2>3. B(j + 1) = Non!Hmac(hg, B(j), <<q[Len(q)], Non!Octet(0)>>)
    BY <2>1, <2>2 DEF Non!Reseed
  <2> QED BY <2>3
<1> HIDE DEF A, B
<1>6. ASSUME NEW p, NEW q, NEW w \in Seq(X) PROVE <<p, Non!Octet(1)>> \o w # <<q, Non!Octet(0)>>
  <2> DEFINE Y == X \cup {p, Non!Octet(1)}
  <2>1. w \in Seq(Y) /\ <<p, Non!Octet(1)>> \in Seq(Y)
    OBVIOUS
  <2>2. PICK z : z = <<p, Non!Octet(1)>>
    OBVIOUS
  <2>3. Len(z) = 2 /\ z[2] = Non!Octet(1) /\ z \in Seq(Y)
    BY <2>1, <2>2
  <2> HIDE DEF Y
  <2>4. (z \o w)[2] = Non!Octet(1)
    <3>1. Len(w) \in Nat
      BY LenProperties
    <3>2. 2 \in 1..(Len(z) + Len(w)) /\ 2 <= Len(z)
      BY <2>3, <3>1
    <3>3. (z \o w)[2] = z[2]
      BY <2>1, <2>3, <3>2, ConcatProperties
    <3> QED BY <2>3, <3>3
  <2>5. <<q, Non!Octet(0)>>[2] = Non!Octet(0)
    OBVIOUS
  <2>6. Non!Octet(0) # Non!Octet(1)
    BY DEF Non!Octet
  <2> QED BY <2>2, <2>4, <2>5, <2>6
<1>7. 0 \in T
  <2> SUFFICES ASSUME NEW j \in Nat, A(0) = B(j) PROVE 0 = j /\ f = g /\ hf = hg
    OBVIOUS
  <2>1. CASE j = 0
    <3>1. hf = hg /\ <<b, Non!Octet(1)>> \o f = <<d, Non!Octet(1)>> \o g
      <4>1. PICK x, y : x = <<b, Non!Octet(1)>> \o f /\ y = <<d, Non!Octet(1)>> \o g
        OBVIOUS
      <4>2. Non!Hmac(hf, a, x) = Non!Hmac(hg, c, y)
        BY <1>1, <1>2, <2>1, <4>1
      <4>3. hf = hg /\ x = y
        BY <4>2, HmacTells
      <4> QED BY <4>1, <4>3
    <3> DEFINE Y == X \cup {b, d, Non!Octet(1)}
    <3>2. f \in Seq(Y) /\ g \in Seq(Y)
      OBVIOUS
    <3>3. PICK p, q : p = <<b, Non!Octet(1)>> /\ q = <<d, Non!Octet(1)>>
      OBVIOUS
    <3>4. p \in Seq(Y) /\ q \in Seq(Y) /\ Len(p) = 2 /\ Len(q) = 2
      BY <3>3
    <3> HIDE DEF Y
    <3>6. p \o f = q \o g /\ Len(p) = Len(q)
      BY <3>1, <3>3, <3>4
    <3>5. f = g
      BY <3>2, <3>4, <3>6, SameParts
    <3> QED BY <2>1, <3>1, <3>5
  <2>2. CASE j # 0
    <3>1. PICK i \in Nat : j = i + 1
      BY <2>2
    <3>2. PICK v : B(j) = Non!Hmac(hg, B(i), <<v, Non!Octet(0)>>)
      BY <1>4, <3>1
    <3>3. PICK x, y, z : x = <<b, Non!Octet(1)>> \o f /\ y = <<v, Non!Octet(0)>> /\ z = B(i)
      OBVIOUS
    <3>4. Non!Hmac(hf, a, x) = Non!Hmac(hg, z, y)
      BY <1>1, <3>2, <3>3
    <3>5. x = y
      BY <3>4, HmacTells
    <3> QED BY <1>6, <3>3, <3>5
  <2> QED BY <2>1, <2>2
<1>8. ASSUME NEW i \in Nat, i \in T PROVE i + 1 \in T
  <2> SUFFICES ASSUME NEW j \in Nat, A(i + 1) = B(j) PROVE i + 1 = j /\ f = g /\ hf = hg
    OBVIOUS
  <2>1. PICK v : A(i + 1) = Non!Hmac(hf, A(i), <<v, Non!Octet(0)>>)
    BY <1>3
  <2>2. PICK y, z : y = <<v, Non!Octet(0)>> /\ z = A(i)
    OBVIOUS
  <2>3. CASE j = 0
    <3>1. PICK x : x = <<d, Non!Octet(1)>> \o g
      OBVIOUS
    <3>2. Non!Hmac(hf, z, y) = Non!Hmac(hg, c, x)
      BY <1>2, <2>1, <2>2, <2>3, <3>1
    <3>3. x = y
      BY <3>2, HmacTells
    <3> QED BY <1>6, <2>2, <3>1, <3>3
  <2>4. CASE j # 0
    <3>1. PICK m \in Nat : j = m + 1
      BY <2>4
    <3>2. PICK w : B(j) = Non!Hmac(hg, B(m), <<w, Non!Octet(0)>>)
      BY <1>4, <3>1
    <3>3. PICK p, q : p = <<w, Non!Octet(0)>> /\ q = B(m)
      OBVIOUS
    <3>4. Non!Hmac(hf, z, y) = Non!Hmac(hg, q, p)
      BY <2>1, <2>2, <3>2, <3>3
    <3>5. A(i) = B(m)
      <4>1. z = q
        BY <3>4, HmacTells
      <4> QED BY <2>2, <3>3, <4>1
    <3> QED BY <1>8, <3>1, <3>5
  <2> QED BY <2>3, <2>4
<1>9. Nat \subseteq T
  <2> HIDE DEF T
  <2> QED BY <1>7, <1>8, SetInduction
<1> QED BY <1>9 DEF A, B

-----------------------------------------------------------------------------
(* Octets and what is hashed first *)

LEMMA EndsTell ==
  ASSUME NEW X, NEW u \in Seq(X), NEW v \in Seq(X), NEW w \in Seq(X), u \o w = v \o w
  PROVE  u = v
<1>1. Len(u) \in Nat /\ Len(v) \in Nat /\ Len(w) \in Nat
  BY LenProperties
<1>2. Len(u \o w) = Len(u) + Len(w) /\ Len(v \o w) = Len(v) + Len(w)
  BY ConcatProperties
<1>3. Len(u) = Len(v)
  BY <1>1, <1>2
<1> QED BY <1>3, SameParts

LEMMA JoinedLength ==
  ASSUME NEW X, NEW u \in Seq(X), NEW v \in Seq(X)
  PROVE  u \o v \in Seq(X) /\ Len(u \o v) = Len(u) + Len(v)
<1>1. u \o v \in Seq(X)
  BY ConcatProperties
<1>2. Len(u \o v) = Len(u) + Len(v)
  BY ConcatProperties
<1> QED BY <1>1, <1>2

LEMMA Regrouped ==
  ASSUME NEW X, NEW u \in Seq(X), NEW v \in Seq(X), NEW w \in Seq(X)
  PROVE  (u \o v) \o w = u \o (v \o w)
BY ConcatAssociative

AllOctets == {Non!Octet(i) : i \in 0..(2^O - 1)}

\* The order's octets hold every scalar.
LEMMA NSizeHolds ==
  ASSUME Doubling, Non!NoncesAssumption
  PROVE  /\ NLen > 0 /\ Non!NSize \in Nat \ {0}
         /\ Non!NSize * O >= NLen /\ 2^(O * Non!NSize) \in Nat /\ n < 2^(O * Non!NSize)
<1>1. /\ n \in Nat /\ n > 2 /\ NLen \in Nat /\ n < 2^NLen /\ O \in Nat \ {0}
  BY DEF Non!NoncesAssumption
<1>2. NLen > 0
  <2>1. 2^0 = 1
    OBVIOUS
  <2>2. ASSUME NLen = 0 PROVE FALSE
    <3>1. 2^NLen = 1
      BY <2>1, <2>2, Zenon
    <3> QED BY <1>1, <3>1
  <2> QED BY <1>1, <2>2
<1>3. Non!NSize \in Int /\ Non!NSize * O >= NLen /\ Non!NSize >= 1
  BY <1>1, <1>2, CeilReaches DEF Non!NSize, Non!CeilDiv
<1>4. PICK N \in Nat \ {0} : N = Non!NSize /\ N * O >= NLen
  BY <1>3
<1>5. PICK k \in Nat : O * N = NLen + k
  <2>1. O * N \in Int /\ O * N = N * O
    BY <1>1, <1>4
  <2> QED BY <1>1, <1>4, <2>1
<1>6. PICK a \in Nat \ {0}, b \in Nat \ {0} : a = 2^NLen /\ b = 2^k /\ 2^(O * N) = a * b
  <2>1. 2^NLen \in Nat \ {0} /\ 2^k \in Nat \ {0}
    BY <1>1, PowerPositive
  <2>2. 2^(O * N) = 2^NLen * 2^k
    BY <1>1, <1>5, PowerOfSum
  <2> QED BY <2>1, <2>2
<1>7. a * b \in Nat /\ a * b >= a
  OBVIOUS
<1>8. n < a
  BY <1>1, <1>6
<1> QED BY <1>1, <1>2, <1>3, <1>4, <1>6, <1>7, <1>8

LEMMA OctetsOf ==
  ASSUME Doubling, Non!NoncesAssumption, NEW k \in Nat, NEW x \in Nat
  PROVE  Non!ToBytes(x, k) \in Seq(AllOctets) /\ Len(Non!ToBytes(x, k)) = k
<1>1. O \in Nat \ {0} /\ 2^O \in Nat \ {0}
  BY PowerPositive DEF Non!NoncesAssumption
<1>2. ASSUME NEW i \in 1..k
      PROVE  Non!Octet((x \div 2^(O * (k - i))) % 2^O) \in AllOctets
  <2>1. O * (k - i) \in Nat
    BY <1>1
  <2>2. x \div 2^(O * (k - i)) \in Int
    BY <2>1, PowerPositive, DivMod
  <2>3. (x \div 2^(O * (k - i))) % 2^O \in 0..(2^O - 1)
    BY <1>1, <2>2, ModRange
  <2> QED BY <2>3 DEF AllOctets
<1> QED BY <1>2 DEF Non!ToBytes

LEMMA OctetsTell ==
  ASSUME Doubling, Non!NoncesAssumption, NEW k \in Nat,
         NEW x \in 0..(2^(O * k) - 1), NEW y \in 0..(2^(O * k) - 1),
         Non!ToBytes(x, k) = Non!ToBytes(y, k)
  PROVE  x = y
<1>1. O \in Nat \ {0}
  BY DEF Non!NoncesAssumption
<1>2. ASSUME NEW i \in 1..k
      PROVE  (x \div 2^(O * (k - i))) % 2^O = (y \div 2^(O * (k - i))) % 2^O
  <2>1. Non!ToBytes(x, k)[i] = Non!Octet((x \div 2^(O * (k - i))) % 2^O)
    BY DEF Non!ToBytes
  <2>2. Non!ToBytes(y, k)[i] = Non!Octet((y \div 2^(O * (k - i))) % 2^O)
    BY DEF Non!ToBytes
  <2>3. PICK u, v : u = (x \div 2^(O * (k - i))) % 2^O /\ v = (y \div 2^(O * (k - i))) % 2^O
    OBVIOUS
  <2>4. Non!Octet(u) = Non!Octet(v)
    BY <2>1, <2>2, <2>3
  <2>5. u = v
    BY <2>4 DEF Non!Octet
  <2> QED BY <2>3, <2>5
<1> QED BY <1>1, <1>2, DigitsTell

\* Octets of a number below the order, and the octets of its opposite.
LEMMA ScalarsTell ==
  ASSUME Doubling, Non!NoncesAssumption
  PROVE  /\ \A x \in 0..n : /\ Non!ToBytes(x, Non!NSize) \in Seq(AllOctets)
                            /\ Len(Non!ToBytes(x, Non!NSize)) = Non!NSize
         /\ \A x, y \in 0..n :
              Non!ToBytes(x, Non!NSize) = Non!ToBytes(y, Non!NSize) => x = y
<1>1. PICK N \in Nat, M \in Nat : N = Non!NSize /\ M = 2^(O * N) /\ n < M /\ n \in Nat
  BY NSizeHolds DEF Non!NoncesAssumption
<1>2. \A x \in 0..n : x \in Nat /\ x \in 0..(2^(O * N) - 1)
  BY <1>1
<1>3. ASSUME NEW x \in 0..n
      PROVE  Non!ToBytes(x, N) \in Seq(AllOctets) /\ Len(Non!ToBytes(x, N)) = N
  BY <1>2, OctetsOf
<1>4. ASSUME NEW x \in 0..n, NEW y \in 0..n, Non!ToBytes(x, N) = Non!ToBytes(y, N)
      PROVE  x = y
  BY <1>2, <1>4, OctetsTell
<1> QED BY <1>1, <1>3, <1>4

\* The arguments of a call.
LEMMA ArgumentsOf ==
  ASSUME Non!NoncesAssumption, NEW c \in Calls
  PROVE  /\ c.kind \in {"rfc6979", "bip340", "tweak"} /\ c.hf \in Nat \ {0}
         /\ c.kind = "rfc6979" => c.q \in 1..(n - 1) /\ c.c \in 0..(n - 1) /\ c.extra \in Seq(AllOctets)
         /\ c.kind = "bip340" =>
              c.q \in 1..(n - 1) /\ c.aux \in Seq(AllOctets) /\ c.msg \in Seq(AllOctets)
         /\ c.kind = "tweak" => c.receipt \in 1..(n - 1) /\ c.commit \in Seq(AllOctets)
<1>1. c \in Non!Call
  BY DEF Non!NoncesAssumption
<1> QED BY <1>1 DEF Non!Call, Non!Octets, AllOctets

\* What two calls have the same of where they take one number.
SameArguments(c, d) ==
  /\ c.kind = "rfc6979" => c.q = d.q /\ c.c = d.c /\ c.extra = d.extra
  /\ c.kind = "bip340" => c.q \in {d.q, n - d.q} /\ c.aux = d.aux /\ c.msg = d.msg
  /\ c.kind = "tweak" => c.receipt = d.receipt /\ c.commit = d.commit

\* The half of the scalars whose points are even holds one of two opposites.
LEMMA EvenOf ==
  ASSUME Non!NoncesAssumption, NEW q \in 1..(n - 1)
  PROVE  (IF Non!EvenY(q) THEN q ELSE n - q) \in 0..n
BY DEF Non!NoncesAssumption

LEMMA XOctetsIs ==
  ASSUME Doubling, Non!NoncesAssumption, NEW q \in 1..(n - 1)
  PROVE  /\ Non!XOctets(q) \in Seq(AllOctets) /\ Len(Non!XOctets(q)) = Non!NSize
         /\ \A z \in 1..(n - 1) : Non!XOctets(q) = Non!XOctets(z) => q \in {z, n - z}
<1>1. n \in Nat
  BY DEF Non!NoncesAssumption
<1>2. PICK y \in 0..n : y = IF Non!EvenY(q) THEN q ELSE n - q
  BY EvenOf
<1>3. Non!XOctets(q) = Non!ToBytes(y, Non!NSize)
  BY <1>2 DEF Non!XOctets
<1>4. ASSUME NEW z \in 1..(n - 1), Non!XOctets(q) = Non!XOctets(z) PROVE q \in {z, n - z}
  <2>1. PICK x \in 0..n : x = IF Non!EvenY(z) THEN z ELSE n - z
    BY EvenOf
  <2>2. Non!XOctets(z) = Non!ToBytes(x, Non!NSize)
    BY <2>1 DEF Non!XOctets
  <2>3. x = y
    BY <1>3, <1>4, <2>2, ScalarsTell
  <2>4. y \in {q, n - q} /\ x \in {z, n - z}
    BY <1>2, <2>1
  <2> QED BY <1>1, <2>3, <2>4
<1> QED BY <1>3, <1>4, ScalarsTell

\* What is hashed first tells the arguments of a call.
LEMMA Rfc6979InputTells ==
  ASSUME Doubling, Non!NoncesAssumption, NEW c \in Calls, c.kind = "rfc6979"
  PROVE  /\ Non!FirstInput(c) \in Seq(AllOctets)
         /\ \A d \in Calls : d.kind = "rfc6979" /\ Non!FirstInput(c) = Non!FirstInput(d) =>
              SameArguments(c, d)
<1> DEFINE N == Non!NSize
           Q(d) == Non!ToBytes(d.q, N)
           C(d) == Non!ToBytes(d.c, N)
<1>1. ASSUME NEW d \in Calls, d.kind = "rfc6979"
      PROVE  /\ d.q \in 0..n /\ d.c \in 0..n /\ d.extra \in Seq(AllOctets)
             /\ Q(d) \in Seq(AllOctets) /\ C(d) \in Seq(AllOctets)
             /\ Len(Q(d)) = N /\ Len(C(d)) = N
             /\ Non!FirstInput(d) = (Q(d) \o C(d)) \o d.extra
  <2>1. d.q \in 0..n /\ d.c \in 0..n /\ d.extra \in Seq(AllOctets)
    <3>1. n \in Nat
      BY DEF Non!NoncesAssumption
    <3>2. d.q \in 1..(n - 1) /\ d.c \in 0..(n - 1) /\ d.extra \in Seq(AllOctets)
      BY <1>1, ArgumentsOf
    <3> QED BY <3>1, <3>2
  <2>2. Non!FirstInput(d) = (Q(d) \o C(d)) \o d.extra
    BY <1>1 DEF Non!FirstInput, Non!Rfc6979Input, Non!NSizeBytes
  <2> QED BY <2>1, <2>2, ScalarsTell
<1>2. N \in Nat
  BY NSizeHolds
<1> HIDE DEF N, Q, C
<1>3. ASSUME NEW d \in Calls, d.kind = "rfc6979"
      PROVE  Q(d) \o C(d) \in Seq(AllOctets) /\ Len(Q(d) \o C(d)) = N + N
  <2>1. PICK x \in Seq(AllOctets), y \in Seq(AllOctets) :
          x = Q(d) /\ y = C(d) /\ Len(x) = N /\ Len(y) = N
    BY <1>1, <1>3
  <2>2. x \o y \in Seq(AllOctets) /\ Len(x \o y) = N + N
    BY <2>1, JoinedLength
  <2> QED BY <2>1, <2>2
<1>4. Non!FirstInput(c) \in Seq(AllOctets)
  BY <1>1, <1>3, ConcatProperties
<1>5. ASSUME NEW d \in Calls, d.kind = "rfc6979", Non!FirstInput(c) = Non!FirstInput(d)
      PROVE  SameArguments(c, d)
  <2>1. PICK x, y : x = Q(c) \o C(c) /\ y = Q(d) \o C(d)
    OBVIOUS
  <2>2. x \o c.extra = y \o d.extra /\ x \in Seq(AllOctets) /\ y \in Seq(AllOctets) /\ Len(x) = Len(y)
    BY <1>1, <1>3, <1>5, <2>1
  <2>3. c.extra \in Seq(AllOctets) /\ d.extra \in Seq(AllOctets)
    BY <1>1, <1>5
  <2>4. x = y /\ c.extra = d.extra
    BY <2>2, <2>3, SameParts
  <2>5. Q(c) = Q(d) /\ C(c) = C(d)
    <3>1. Q(c) \in Seq(AllOctets) /\ C(c) \in Seq(AllOctets) /\ Q(d) \in Seq(AllOctets)
          /\ C(d) \in Seq(AllOctets) /\ Len(Q(c)) = Len(Q(d)) /\ Q(c) \o C(c) = Q(d) \o C(d)
      BY <1>1, <1>5, <2>1, <2>4
    <3> QED BY <3>1, SameParts
  <2>6. c.q = d.q /\ c.c = d.c
    <3>1. c.q \in 0..n /\ c.c \in 0..n /\ d.q \in 0..n /\ d.c \in 0..n
      BY <1>1, <1>5
    <3> QED BY <2>5, <3>1, ScalarsTell DEF N, Q, C
  <2> QED BY <2>4, <2>6 DEF SameArguments
<1> QED BY <1>4, <1>5

\* Whether the digests of a call are stretched.
LEMMA RandomizerTells ==
  ASSUME Doubling, Non!NoncesAssumption, NEW c \in Calls, NEW d \in Calls,
         c.kind = "bip340", d.kind = "bip340", c.hf = d.hf,
         Non!Randomizer(c) = Non!Randomizer(d)
  PROVE  c.aux = d.aux
<1>1. Non!Stretched(c) <=> Non!Stretched(d)
  BY DEF Non!Stretched
<1>2. CASE ~Non!Stretched(c)
  <2>1. <<Non!Tagged("aux", c.hf, c.aux)>> = <<Non!Tagged("aux", d.hf, d.aux)>>
    BY <1>1, <1>2 DEF Non!Randomizer
  <2>2. Non!Tagged("aux", c.hf, c.aux) = Non!Tagged("aux", d.hf, d.aux)
    BY <2>1
  <2> QED BY <2>2 DEF Non!Tagged
<1>3. CASE Non!Stretched(c)
  <2> DEFINE w == Non!ToBytes(0, 4)
  <2>1. ASSUME NEW u, NEW h \in Nat \ {0}
        PROVE  Non!Stretch("aux", h, u, Non!NSize)[1] = Non!Tagged("aux", h, u \o w)
    <3>1. Non!CeilDiv(Non!NSize, h) \in Int /\ Non!CeilDiv(Non!NSize, h) >= 1
      BY NSizeHolds, CeilReaches DEF Non!CeilDiv
    <3>2. 1 \in 1..Non!CeilDiv(Non!NSize, h) /\ 1 - 1 = 0
      BY <3>1
    <3> QED BY <3>2 DEF Non!Stretch
  <2>2. Non!Stretch("aux", c.hf, c.aux, Non!NSize) = Non!Stretch("aux", d.hf, d.aux, Non!NSize)
    BY <1>1, <1>3 DEF Non!Randomizer
  <2>3. w \in Seq(AllOctets)
    BY OctetsOf
  <2> HIDE DEF w
  <2>4. PICK x, y : x = c.aux \o w /\ y = d.aux \o w
    OBVIOUS
  <2>5. Non!Tagged("aux", c.hf, x) = Non!Tagged("aux", d.hf, y)
    BY <2>1, <2>2, <2>4, ArgumentsOf
  <2>6. x = y
    BY <2>5 DEF Non!Tagged
  <2>7. c.aux \in Seq(AllOctets) /\ d.aux \in Seq(AllOctets)
    BY ArgumentsOf
  <2> QED BY <2>3, <2>4, <2>6, <2>7, EndsTell
<1> QED BY <1>2, <1>3

\* The masked key of a call.
MaskOf(c) == Non!Masked(IF Non!EvenY(c.q) THEN c.q ELSE n - c.q, c)

\* The octets of a point's parity.
ParityOf(q) == Non!Octet(IF Non!EvenY(q) THEN 2 ELSE 3)

LEMMA Bip340InputIs ==
  ASSUME Doubling, Non!NoncesAssumption, NEW c \in Calls, c.kind = "bip340"
  PROVE  /\ Non!XOctets(c.q) \o c.msg \in Seq(AllOctets)
         /\ Non!FirstInput(c) = <<MaskOf(c)>> \o (Non!XOctets(c.q) \o c.msg)
<1>1. c.q \in 1..(n - 1) /\ c.msg \in Seq(AllOctets)
  BY ArgumentsOf
<1>2. PICK x \in Seq(AllOctets) : x = Non!XOctets(c.q)
  BY <1>1, XOctetsIs
<1>3. x \o c.msg \in Seq(AllOctets)
  BY <1>1, ConcatProperties
<1>4. Non!FirstInput(c) = (<<MaskOf(c)>> \o x) \o c.msg
  BY <1>2 DEF Non!FirstInput, Non!Bip340Input, MaskOf
<1>5. PICK p : p = <<MaskOf(c)>>
  OBVIOUS
<1> DEFINE Y == AllOctets \cup {MaskOf(c)}
<1>6. p \in Seq(Y) /\ x \in Seq(Y) /\ c.msg \in Seq(Y)
  BY <1>1, <1>5
<1> HIDE DEF Y
<1>7. PICK m \in Seq(Y) : m = c.msg
  BY <1>6
<1>8. (p \o x) \o m = p \o (x \o m)
  BY <1>6, Regrouped
<1> QED BY <1>2, <1>3, <1>4, <1>5, <1>7, <1>8

LEMMA TweakInputIs ==
  ASSUME Doubling, Non!NoncesAssumption, NEW c \in Calls, c.kind = "tweak"
  PROVE  /\ Non!XOctets(c.receipt) \o c.commit \in Seq(AllOctets)
         /\ Non!FirstInput(c) = <<ParityOf(c.receipt)>> \o (Non!XOctets(c.receipt) \o c.commit)
<1>1. c.receipt \in 1..(n - 1) /\ c.commit \in Seq(AllOctets)
  BY ArgumentsOf
<1>2. PICK x \in Seq(AllOctets) : x = Non!XOctets(c.receipt)
  BY <1>1, XOctetsIs
<1>3. x \o c.commit \in Seq(AllOctets)
  BY <1>1, ConcatProperties
<1>4. Non!FirstInput(c) = (<<ParityOf(c.receipt)>> \o x) \o c.commit
  BY <1>2 DEF Non!FirstInput, Non!TweakInput, Non!PointOctets, ParityOf
<1>5. PICK p : p = <<ParityOf(c.receipt)>>
  OBVIOUS
<1> DEFINE Y == AllOctets \cup {ParityOf(c.receipt)}
<1>6. p \in Seq(Y) /\ x \in Seq(Y) /\ c.commit \in Seq(Y)
  BY <1>1, <1>5
<1> HIDE DEF Y
<1>7. PICK m \in Seq(Y) : m = c.commit
  BY <1>6
<1>8. (p \o x) \o m = p \o (x \o m)
  BY <1>6, Regrouped
<1> QED BY <1>2, <1>3, <1>4, <1>5, <1>7, <1>8

LEMMA Bip340InputTells ==
  ASSUME Doubling, Non!NoncesAssumption, NEW c \in Calls, NEW d \in Calls,
         c.kind = "bip340", d.kind = "bip340", c.hf = d.hf, Non!FirstInput(c) = Non!FirstInput(d)
  PROVE  SameArguments(c, d)
<1>0. n \in Nat
  BY DEF Non!NoncesAssumption
<1>1. PICK p \in Seq(AllOctets), q \in Seq(AllOctets) :
        /\ p = Non!XOctets(c.q) \o c.msg /\ q = Non!XOctets(d.q) \o d.msg
        /\ <<MaskOf(c)>> \o p = <<MaskOf(d)>> \o q
  BY Bip340InputIs
<1>2. PICK u, v : u = MaskOf(c) /\ v = MaskOf(d)
  OBVIOUS
<1>3. u = v /\ p = q
  <2>1. <<u>> \o p = <<v>> \o q
    BY <1>1, <1>2
  <2> QED BY <2>1, FrontsTell
<1>4. PICK x, y : x = (IF Non!EvenY(c.q) THEN c.q ELSE n - c.q)
                  /\ y = (IF Non!EvenY(d.q) THEN d.q ELSE n - d.q)
  OBVIOUS
<1>5. <<"xor", x, Non!Randomizer(c)>> = <<"xor", y, Non!Randomizer(d)>>
  BY <1>2, <1>3, <1>4 DEF MaskOf, Non!Masked
<1>6. x = y /\ Non!Randomizer(c) = Non!Randomizer(d)
  BY <1>5
<1>7. c.q \in {d.q, n - d.q}
  <2>1. c.q \in 1..(n - 1) /\ d.q \in 1..(n - 1)
    BY ArgumentsOf
  <2>2. x \in {c.q, n - c.q} /\ y \in {d.q, n - d.q}
    BY <1>4
  <2> QED BY <1>0, <1>6, <2>1, <2>2
<1>8. c.aux = d.aux
  BY <1>6, RandomizerTells
<1>9. c.msg = d.msg
  <2>1. c.q \in 1..(n - 1) /\ d.q \in 1..(n - 1) /\ c.msg \in Seq(AllOctets) /\ d.msg \in Seq(AllOctets)
    BY ArgumentsOf
  <2>2. PICK a \in Seq(AllOctets), b \in Seq(AllOctets) :
          a = Non!XOctets(c.q) /\ b = Non!XOctets(d.q) /\ Len(a) = Len(b)
    BY <2>1, XOctetsIs
  <2>3. a \o c.msg = b \o d.msg
    BY <1>1, <1>3, <2>2
  <2>4. PICK x1 \in Seq(AllOctets), y1 \in Seq(AllOctets) : x1 = c.msg /\ y1 = d.msg
    BY <2>1
  <2>5. a \o x1 = b \o y1
    BY <2>3, <2>4
  <2>6. x1 = y1
    BY <2>2, <2>5, SameParts
  <2> QED BY <2>4, <2>6
<1> QED BY <1>7, <1>8, <1>9 DEF SameArguments

LEMMA TweakInputTells ==
  ASSUME Doubling, Non!NoncesAssumption, NEW c \in Calls, NEW d \in Calls,
         c.kind = "tweak", d.kind = "tweak", Non!FirstInput(c) = Non!FirstInput(d)
  PROVE  SameArguments(c, d)
<1>0. n \in Nat
  BY DEF Non!NoncesAssumption
<1>1. PICK p \in Seq(AllOctets), q \in Seq(AllOctets) :
        /\ p = Non!XOctets(c.receipt) \o c.commit /\ q = Non!XOctets(d.receipt) \o d.commit
        /\ <<ParityOf(c.receipt)>> \o p = <<ParityOf(d.receipt)>> \o q
  BY TweakInputIs
<1>2. PICK u, v : u = ParityOf(c.receipt) /\ v = ParityOf(d.receipt)
  OBVIOUS
<1>3. u = v /\ p = q
  <2>1. <<u>> \o p = <<v>> \o q
    BY <1>1, <1>2
  <2> QED BY <2>1, FrontsTell
<1>4. c.receipt \in 1..(n - 1) /\ d.receipt \in 1..(n - 1)
      /\ c.commit \in Seq(AllOctets) /\ d.commit \in Seq(AllOctets)
  BY ArgumentsOf
<1>5. PICK a \in Seq(AllOctets), b \in Seq(AllOctets) :
        a = Non!XOctets(c.receipt) /\ b = Non!XOctets(d.receipt) /\ Len(a) = Len(b)
  BY <1>4, XOctetsIs
<1>6. a \o c.commit = b \o d.commit
  BY <1>1, <1>3, <1>5
<1>7. a = b /\ c.commit = d.commit
  <2>1. PICK x1 \in Seq(AllOctets), y1 \in Seq(AllOctets) : x1 = c.commit /\ y1 = d.commit
    BY <1>4
  <2>2. a \o x1 = b \o y1
    BY <1>6, <2>1
  <2>3. a = b /\ x1 = y1
    BY <1>5, <2>2, SameParts
  <2> QED BY <2>1, <2>3
<1>8. Non!EvenY(c.receipt) <=> Non!EvenY(d.receipt)
  <2>1. ASSUME NEW i \in {2, 3}, NEW j \in {2, 3}, Non!Octet(i) = Non!Octet(j) PROVE i = j
    BY <2>1 DEF Non!Octet
  <2> QED BY <1>2, <1>3, <2>1 DEF ParityOf
<1>9. c.receipt = d.receipt
  <2>1. PICK x \in 0..n, y \in 0..n :
          /\ x = IF Non!EvenY(c.receipt) THEN c.receipt ELSE n - c.receipt
          /\ y = IF Non!EvenY(d.receipt) THEN d.receipt ELSE n - d.receipt
    BY <1>4, EvenOf
  <2>2. Non!ToBytes(x, Non!NSize) = Non!ToBytes(y, Non!NSize)
    BY <1>5, <1>7, <2>1 DEF Non!XOctets
  <2>3. x = y
    BY <2>2, ScalarsTell
  <2> QED BY <1>0, <1>4, <1>8, <2>1, <2>3
<1> QED BY <1>7, <1>9 DEF SameArguments

-----------------------------------------------------------------------------
(* Digests that are hashed again *)

Retagged(c, m) == <<Non!Tagged(Non!Tag(c), c.hf, m)>>

TagChain(c, m, msg) ==
  /\ msg = [j \in 0..m |-> msg[j]] /\ msg[0] = Non!FirstInput(c)
  /\ \A j \in 1..m : msg[j] = Retagged(c, msg[j - 1])

LEMMA TagChainExists ==
  ASSUME NEW c, NEW m \in Nat
  PROVE  \E msg : TagChain(c, m, msg)
<1> DEFINE T == {k \in Nat : \E msg : TagChain(c, k, msg)}
<1>1. 0 \in T
  <2> DEFINE b == [j \in 0..0 |-> Non!FirstInput(c)]
  <2>1. TagChain(c, 0, b)
    BY DEF TagChain
  <2> QED BY <2>1
<1>2. ASSUME NEW k \in Nat, k \in T PROVE k + 1 \in T
  <2>1. PICK b : TagChain(c, k, b)
    BY <1>2
  <2> DEFINE d == [j \in 0..(k + 1) |-> IF j = k + 1 THEN Retagged(c, b[k]) ELSE b[j]]
  <2>2. d = [j \in 0..(k + 1) |-> d[j]] /\ d[0] = Non!FirstInput(c)
    BY <2>1 DEF TagChain
  <2>3. ASSUME NEW j \in 1..(k + 1) PROVE d[j] = Retagged(c, d[j - 1])
    <3>1. j - 1 \in 0..(k + 1) /\ j - 1 # k + 1 /\ d[j - 1] = b[j - 1]
      OBVIOUS
    <3>2. CASE j = k + 1
      <4>1. j - 1 = k /\ d[j] = Retagged(c, b[k])
        BY <3>2
      <4> HIDE DEF d
      <4> QED BY <3>1, <4>1
    <3>3. CASE j # k + 1
      <4>1. j \in 1..k /\ d[j] = b[j]
        BY <3>3
      <4>2. b[j] = Retagged(c, b[j - 1])
        BY <2>1, <4>1 DEF TagChain
      <4> HIDE DEF d
      <4> QED BY <3>1, <4>1, <4>2
    <3> QED BY <3>2, <3>3
  <2> HIDE DEF d
  <2>4. TagChain(c, k + 1, d)
    BY <2>2, <2>3 DEF TagChain
  <2> QED BY <2>4
<1>3. Nat \subseteq T
  <2> HIDE DEF T
  <2> QED BY <1>1, <1>2, SetInduction
<1> QED BY <1>3

\* Chains of one seed agree, however long they are.
LEMMA TagChainsAgree ==
  ASSUME NEW c, NEW k \in Nat, NEW l \in Nat, k <= l, NEW a, NEW b,
         TagChain(c, k, a), TagChain(c, l, b)
  PROVE  a[k] = b[k]
<1> DEFINE T == {j \in Nat : j <= k => a[j] = b[j]}
<1>1. 0 \in T
  BY DEF TagChain
<1>2. ASSUME NEW j \in Nat, j \in T PROVE j + 1 \in T
  <2> SUFFICES ASSUME j + 1 <= k PROVE a[j + 1] = b[j + 1]
    OBVIOUS
  <2>1. j + 1 \in 1..k /\ j + 1 \in 1..l /\ (j + 1) - 1 = j /\ a[j] = b[j]
    BY <1>2
  <2>2. a[j + 1] = Retagged(c, a[j])
    BY <2>1 DEF TagChain
  <2>3. b[j + 1] = Retagged(c, b[j])
    BY <2>1 DEF TagChain
  <2> QED BY <2>1, <2>2, <2>3
<1>3. Nat \subseteq T
  <2> HIDE DEF T
  <2> QED BY <1>1, <1>2, SetInduction
<1> QED BY <1>3

LEMMA RehashedIs ==
  ASSUME NEW c, NEW m \in Nat
  PROVE  \E msg : TagChain(c, m, msg) /\ Non!Rehashed(c, m) = msg[m]
<1> DEFINE F(b) == [j \in 0..m |-> IF j = 0 THEN Non!FirstInput(c) ELSE Retagged(c, b[j - 1])]
           ch == CHOOSE b : b = F(b)
<1>1. PICK b : TagChain(c, m, b)
  BY TagChainExists
<1>2. b = F(b)
  <2>1. ASSUME NEW j \in 0..m
        PROVE  b[j] = IF j = 0 THEN Non!FirstInput(c) ELSE Retagged(c, b[j - 1])
    <3>1. j # 0 => j \in 1..m
      OBVIOUS
    <3> QED BY <1>1, <3>1 DEF TagChain
  <2>2. b = [j \in 0..m |-> b[j]]
    BY <1>1 DEF TagChain
  <2> QED BY <2>1, <2>2
<1>3. ch = F(ch)
  BY <1>2
<1>4. Non!Rehashed(c, m) = ch[m]
  BY DEF Non!Rehashed, Retagged, ch
<1> HIDE DEF ch
<1>5. ch = [j \in 0..m |-> ch[j]] /\ ch[0] = Non!FirstInput(c)
  BY <1>3
<1>6. ASSUME NEW j \in 1..m PROVE ch[j] = Retagged(c, ch[j - 1])
  <2>1. j \in 0..m /\ j # 0
    OBVIOUS
  <2> QED BY <1>3, <2>1
<1>7. TagChain(c, m, ch)
  BY <1>5, <1>6 DEF TagChain
<1> QED BY <1>4, <1>7

LEMMA RehashedSteps ==
  ASSUME NEW c
  PROVE  /\ Non!Rehashed(c, 0) = Non!FirstInput(c)
         /\ \A i \in Nat : Non!Rehashed(c, i + 1) = Retagged(c, Non!Rehashed(c, i))
<1>1. PICK d : TagChain(c, 0, d) /\ Non!Rehashed(c, 0) = d[0]
  BY RehashedIs
<1>2. Non!Rehashed(c, 0) = Non!FirstInput(c)
  BY <1>1 DEF TagChain
<1>3. ASSUME NEW i \in Nat
      PROVE  Non!Rehashed(c, i + 1) = Retagged(c, Non!Rehashed(c, i))
  <2>1. PICK a : TagChain(c, i, a) /\ Non!Rehashed(c, i) = a[i]
    BY RehashedIs
  <2>2. PICK k \in Nat : k = i + 1
    OBVIOUS
  <2>3. PICK b : TagChain(c, k, b) /\ Non!Rehashed(c, k) = b[k]
    BY RehashedIs
  <2>4. a[i] = b[i]
    <3>1. i <= k
      BY <2>2
    <3> QED BY <2>1, <2>3, <3>1, TagChainsAgree
  <2>5. b[k] = Retagged(c, b[i])
    <3>1. k \in 1..k /\ k - 1 = i
      BY <2>2
    <3> QED BY <2>3, <3>1 DEF TagChain
  <2> QED BY <2>1, <2>2, <2>3, <2>4, <2>5
<1> QED BY <1>2, <1>3

LEMMA TaggedTells ==
  ASSUME NEW p, NEW q, NEW x, NEW u, NEW y, NEW v, Non!Tagged(p, x, y) = Non!Tagged(q, u, v)
  PROVE  p = q /\ x = u /\ y = v
BY DEF Non!Tagged

\* Nothing that is hashed first is a digest.
LEMMA FirstIsNoDigest ==
  ASSUME Doubling, Non!NoncesAssumption, NEW c \in Calls, c.kind # "rfc6979", NEW d, NEW m
  PROVE  Non!FirstInput(c) # Retagged(d, m)
<1>0. PICK h : /\ \E w \in Seq(AllOctets) : Non!FirstInput(c) = <<h>> \o w
               /\ \A x, y, z : h # <<"tagged", x, y, z>>
  <2>1. CASE c.kind = "bip340"
    <3>1. PICK h : h = MaskOf(c)
      OBVIOUS
    <3>2. \A x, y, z : h # <<"tagged", x, y, z>>
      BY <3>1 DEF MaskOf, Non!Masked
    <3>3. \E w \in Seq(AllOctets) : Non!FirstInput(c) = <<h>> \o w
      BY <2>1, <3>1, Bip340InputIs
    <3> QED BY <3>2, <3>3
  <2>2. CASE c.kind = "tweak"
    <3>1. PICK h : h = ParityOf(c.receipt)
      OBVIOUS
    <3>2. \A x, y, z : h # <<"tagged", x, y, z>>
      BY <3>1 DEF ParityOf, Non!Octet
    <3>3. \E w \in Seq(AllOctets) : Non!FirstInput(c) = <<h>> \o w
      BY <2>2, <3>1, TweakInputIs
    <3> QED BY <3>2, <3>3
  <2> QED BY <2>1, <2>2, ArgumentsOf
<1>1. PICK w \in Seq(AllOctets) : Non!FirstInput(c) = <<h>> \o w
  BY <1>0
<1>2. PICK k : k = Non!Tagged(Non!Tag(d), d.hf, m)
  OBVIOUS
<1>3. h # k
  BY <1>0, <1>2 DEF Non!Tagged
<1>4. <<k>> = <<k>> \o <<>>
  OBVIOUS
<1>5. ASSUME <<h>> \o w = <<k>> PROVE FALSE
  <2>1. <<h>> \o w = <<k>> \o <<>> /\ <<>> \in Seq(AllOctets)
    BY <1>4, <1>5
  <2> QED BY <1>3, <2>1, FrontsTell
<1> QED BY <1>1, <1>2, <1>5 DEF Retagged

\* What is hashed again tells how often it was, and what was hashed first.
LEMMA RehashedTells ==
  ASSUME Doubling, Non!NoncesAssumption, NEW c \in Calls, NEW d \in Calls,
         c.kind # "rfc6979", d.kind # "rfc6979", NEW k \in Nat, NEW l \in Nat,
         Non!Rehashed(c, k) = Non!Rehashed(d, l)
  PROVE  k = l /\ Non!FirstInput(c) = Non!FirstInput(d)
<1> DEFINE A(i) == Non!Rehashed(c, i)
           B(j) == Non!Rehashed(d, j)
           T == {i \in Nat : \A j \in Nat : A(i) = B(j) => i = j /\ Non!FirstInput(c) = Non!FirstInput(d)}
<1>1. A(0) = Non!FirstInput(c) /\ B(0) = Non!FirstInput(d)
  BY RehashedSteps
<1>2. \A i \in Nat : A(i + 1) = Retagged(c, A(i))
  BY RehashedSteps
<1>3. \A j \in Nat : B(j + 1) = Retagged(d, B(j))
  BY RehashedSteps
<1> HIDE DEF A, B
<1>4. 0 \in T
  <2> SUFFICES ASSUME NEW j \in Nat, A(0) = B(j)
               PROVE  0 = j /\ Non!FirstInput(c) = Non!FirstInput(d)
    OBVIOUS
  <2>1. ASSUME j # 0 PROVE FALSE
    <3>1. PICK i \in Nat : j = i + 1
      BY <2>1
    <3>2. Non!FirstInput(c) = Retagged(d, B(i))
      BY <1>1, <1>3, <3>1
    <3> QED BY <3>2, FirstIsNoDigest
  <2> QED BY <1>1, <2>1
<1>5. ASSUME NEW i \in Nat, i \in T PROVE i + 1 \in T
  <2> SUFFICES ASSUME NEW j \in Nat, A(i + 1) = B(j)
               PROVE  i + 1 = j /\ Non!FirstInput(c) = Non!FirstInput(d)
    OBVIOUS
  <2>1. ASSUME j = 0 PROVE FALSE
    <3>1. Non!FirstInput(d) = Retagged(c, A(i))
      BY <1>1, <1>2, <2>1
    <3> QED BY <3>1, FirstIsNoDigest
  <2>2. PICK m \in Nat : j = m + 1
    BY <2>1
  <2>3. PICK x, y : x = A(i) /\ y = B(m)
    OBVIOUS
  <2>4. Retagged(c, x) = Retagged(d, y)
    BY <1>2, <1>3, <2>2, <2>3
  <2>5. Non!Tagged(Non!Tag(c), c.hf, x) = Non!Tagged(Non!Tag(d), d.hf, y)
    BY <2>4 DEF Retagged
  <2>6. x = y
    BY <2>5 DEF Non!Tagged
  <2> QED BY <1>5, <2>2, <2>3, <2>6
<1>6. Nat \subseteq T
  <2> HIDE DEF T
  <2> QED BY <1>4, <1>5, SetInduction
<1> QED BY <1>6 DEF A, B

-----------------------------------------------------------------------------
(* Candidates *)

LEMMA TimesGrows ==
  ASSUME NEW a \in Nat, NEW b \in Nat, NEW m \in Nat, a >= b
  PROVE  a * m >= b * m
<1>1. (a - b) * m >= 0 /\ (a - b) * m = a * m - b * m
  OBVIOUS
<1> QED BY <1>1

\* Whole digests hold the octets they were counted for.
LEMMA DigestsHold ==
  ASSUME NEW octets \in Nat \ {0}, NEW hf \in Nat \ {0}, NEW bits \in Nat \ {0}
  PROVE  /\ Non!CeilDiv(octets, hf) \in Nat \ {0}
         /\ (Non!CeilDiv(octets, hf) * hf) * bits >= octets * bits
<1>1. PICK m \in Nat \ {0} : m = Non!CeilDiv(octets, hf) /\ m * hf >= octets
  BY CeilReaches DEF Non!CeilDiv
<1>2. m * hf \in Nat
  OBVIOUS
<1>3. (m * hf) * bits >= octets * bits
  BY <1>1, <1>2, TimesGrows
<1> QED BY <1>1, <1>3

\* The octets of a stretched nonce are whole digests, with the bits beyond NLen.
LEMMA StretchedHolds ==
  ASSUME Doubling, Non!NoncesAssumption, NEW c \in Calls
  PROVE  /\ Non!StretchedSize(c) \in Nat \ {0}
         /\ Non!StretchedSize(c) * O >= NLen + ExtraBits
<1>1. c.hf \in Nat \ {0} /\ O \in Nat \ {0} /\ NLen \in Nat /\ NLen > 0 /\ ExtraBits \in Nat
  BY ArgumentsOf, NSizeHolds DEF Non!NoncesAssumption
<1>2. PICK h \in Nat \ {0}, d \in Nat \ {0} : h = c.hf /\ d = h * O
  BY <1>1
<1>3. PICK m \in Nat \ {0} : m = Non!CeilDiv(NLen + ExtraBits, d) /\ m * d >= NLen + ExtraBits
  <2>1. PICK b \in Nat \ {0} : b = NLen + ExtraBits
    BY <1>1
  <2>2. Non!CeilDiv(b, d) \in Int /\ Non!CeilDiv(b, d) * d >= b /\ Non!CeilDiv(b, d) >= 1
    BY CeilReaches DEF Non!CeilDiv
  <2> QED BY <2>1, <2>2
<1>4. Non!StretchedSize(c) = m * h
  BY <1>2, <1>3 DEF Non!StretchedSize
<1>5. m * h \in Nat \ {0} /\ (m * h) * O = m * d
  BY <1>1, <1>2
<1> QED BY <1>3, <1>4, <1>5

LEMMA StretchIs ==
  ASSUME NEW tag, NEW m, NEW hf \in Nat \ {0}, NEW octets \in Nat \ {0}
  PROVE  LET t == Non!Stretch(tag, hf, m, octets)
         IN  /\ Len(t) = Non!CeilDiv(octets, hf)
             /\ t[1] = Non!Tagged(tag, hf, m \o Non!ToBytes(0, 4))
<1>1. PICK k \in Nat \ {0} : k = Non!CeilDiv(octets, hf)
  BY DigestsHold
<1>2. PICK t : t = Non!Stretch(tag, hf, m, octets)
  OBVIOUS
<1>3. t = [i \in 1..k |-> Non!Tagged(tag, hf, m \o Non!ToBytes(i - 1, 4))]
  BY <1>1, <1>2 DEF Non!Stretch
<1>4. 1 \in 1..k /\ 1 - 1 = 0
  OBVIOUS
<1>5. t[1] = Non!Tagged(tag, hf, m \o Non!ToBytes(0, 4))
  BY <1>3, <1>4
<1>6. DOMAIN t = 1..k /\ t \in [1..k -> {t[i] : i \in DOMAIN t}]
  BY <1>3
<1>7. t \in Seq({t[i] : i \in DOMAIN t}) /\ Len(t) = k
  BY <1>6
<1> QED BY <1>1, <1>2, <1>5, <1>7

\* What a candidate has first, and of how many digests it is.
LEMMA CandidateIs ==
  ASSUME Doubling, Non!NoncesAssumption, NEW c \in Calls, NEW k \in Nat
  PROVE  LET t == Non!CandidateAt(c, k)
             drbg == Non!Generator(Non!FirstInput(c), c.hf, k)
         IN  /\ c.kind = "rfc6979" =>
                  /\ Len(t) = Non!CeilDiv(Non!NSize, c.hf)
                  /\ t[1] = Non!Hmac(c.hf, drbg[1], <<drbg[2]>>)
             /\ Non!Stretched(c) =>
                  /\ Len(t) = Non!CeilDiv(Non!StretchedSize(c), c.hf)
                  /\ t[1] = Non!Tagged(c.kind, c.hf, Non!FirstInput(c) \o Non!ToBytes(0, 4))
             /\ c.kind # "rfc6979" /\ ~Non!Stretched(c) =>
                  /\ Len(t) = 1
                  /\ t[1] = Non!Tagged(c.kind, c.hf, Non!Rehashed(c, k))
<1>1. PICK t, drbg : t = Non!CandidateAt(c, k) /\ drbg = Non!Generator(Non!FirstInput(c), c.hf, k)
  OBVIOUS
<1>2. c.hf \in Nat \ {0} /\ c.kind \in {"rfc6979", "bip340", "tweak"}
  BY ArgumentsOf
<1>3. ASSUME c.kind = "rfc6979"
      PROVE  Len(t) = Non!CeilDiv(Non!NSize, c.hf) /\ t[1] = Non!Hmac(c.hf, drbg[1], <<drbg[2]>>)
  <2>1. t = Non!Generate(drbg, Non!NSize, c.hf)
    BY <1>1, <1>3 DEF Non!CandidateAt, Non!Blocks
  <2>2. PICK m \in Nat \ {0} : m = Non!CeilDiv(Non!NSize, c.hf)
    BY <1>2, NSizeHolds, CeilReaches DEF Non!CeilDiv
  <2> QED BY <2>1, <2>2, GenerateIs DEF Non!NextV
<1>4. ASSUME Non!Stretched(c)
      PROVE  /\ Len(t) = Non!CeilDiv(Non!StretchedSize(c), c.hf)
             /\ t[1] = Non!Tagged(c.kind, c.hf, Non!FirstInput(c) \o Non!ToBytes(0, 4))
  <2>1. t = Non!Stretch(c.kind, c.hf, Non!FirstInput(c), Non!StretchedSize(c))
    BY <1>1, <1>4 DEF Non!CandidateAt, Non!Stretched, Non!Tag
  <2>2. PICK h, N, f, tag : /\ h = c.hf /\ N = Non!StretchedSize(c)
                            /\ f = Non!FirstInput(c) /\ tag = c.kind
    OBVIOUS
  <2>5. h \in Nat \ {0} /\ N \in Nat \ {0}
    BY <1>2, <2>2, StretchedHolds
  <2>3. t = Non!Stretch(tag, h, f, N)
    BY <2>1, <2>2
  <2>4. /\ Len(t) = Non!CeilDiv(N, h)
        /\ t[1] = Non!Tagged(tag, h, f \o Non!ToBytes(0, 4))
    BY <2>3, <2>5, StretchIs
  <2> QED BY <2>2, <2>4
<1>5. ASSUME c.kind # "rfc6979", ~Non!Stretched(c)
      PROVE  Len(t) = 1 /\ t[1] = Non!Tagged(c.kind, c.hf, Non!Rehashed(c, k))
  BY <1>1, <1>5 DEF Non!CandidateAt, Non!Tag
<1> QED BY <1>1, <1>3, <1>4, <1>5

\* A candidate is of as many bits as the order has; a stretched one of more.
LEMMA CandidateBits ==
  ASSUME Doubling, Non!NoncesAssumption, NEW c \in Calls, NEW k \in Nat
  PROVE  LET t == Non!CandidateAt(c, k)
         IN  /\ c.kind # "tweak" => Len(t) * c.hf * O >= NLen
             /\ Non!Stretched(c) => Len(t) * c.hf * O >= NLen + ExtraBits
<1>1. PICK t : t = Non!CandidateAt(c, k)
  OBVIOUS
<1>2. /\ O \in Nat \ {0} /\ c.hf \in Nat \ {0} /\ NLen \in Nat /\ ExtraBits \in Nat
      /\ Non!NSize \in Nat \ {0} /\ Non!NSize * O >= NLen
      /\ c.kind \in {"rfc6979", "bip340", "tweak"}
  BY ArgumentsOf, NSizeHolds DEF Non!NoncesAssumption
<1>3. ASSUME c.kind = "rfc6979" PROVE Len(t) * c.hf * O >= NLen
  <2>4. PICK h \in Nat \ {0}, N \in Nat \ {0} : h = c.hf /\ N = Non!NSize
    BY <1>2
  <2>1. PICK m \in Nat : m = Non!CeilDiv(N, h) /\ (m * h) * O >= N * O
    BY <1>2, DigestsHold
  <2>2. Len(t) = m
    BY <1>1, <1>3, <2>1, <2>4, CandidateIs
  <2>3. m * h * O \in Nat /\ N * O \in Nat /\ N * O >= NLen
    BY <1>2, <2>1, <2>4
  <2> QED BY <1>2, <2>1, <2>2, <2>3, <2>4
<1>4. ASSUME Non!Stretched(c) PROVE Len(t) * c.hf * O >= NLen + ExtraBits
  <2>4. PICK h \in Nat \ {0}, N \in Nat \ {0} :
          h = c.hf /\ N = Non!StretchedSize(c) /\ N * O >= NLen + ExtraBits
    BY <1>2, StretchedHolds
  <2>1. PICK m \in Nat : m = Non!CeilDiv(N, h) /\ (m * h) * O >= N * O
    BY <1>2, DigestsHold
  <2>2. Len(t) = m
    BY <1>1, <1>4, <2>1, <2>4, CandidateIs
  <2>3. m * h * O \in Nat /\ N * O \in Nat
    BY <1>2, <2>1
  <2> QED BY <1>2, <2>1, <2>2, <2>3, <2>4
<1>5. ASSUME c.kind = "bip340", ~Non!Stretched(c) PROVE Len(t) * c.hf * O >= NLen
  <2>1. Len(t) = 1
    BY <1>1, <1>5, CandidateIs
  <2>2. PICK h \in Nat : h = c.hf
    BY <1>2
  <2>3. ~(h * O < NLen) /\ h * O \in Nat
    BY <1>2, <1>5, <2>2 DEF Non!Stretched
  <2>4. 1 * h * O = h * O
    BY <1>2, <2>2
  <2> QED BY <1>2, <2>1, <2>2, <2>3, <2>4
<1>6. CASE Non!Stretched(c)
  <2>1. Len(t) * c.hf * O >= NLen + ExtraBits => Len(t) * c.hf * O >= NLen
    <3>1. PICK m \in Nat, h \in Nat : m = Len(t) /\ h = c.hf
      BY <1>1, <1>2, <1>6, CandidateIs, StretchedHolds, DigestsHold
    <3>2. m * h * O \in Nat
      BY <1>2, <3>1
    <3> QED BY <1>2, <3>1, <3>2
  <2> QED BY <1>1, <1>4, <1>6, <2>1
<1>7. CASE ~Non!Stretched(c)
  BY <1>1, <1>2, <1>3, <1>5, <1>7
<1> QED BY <1>6, <1>7

\* What masks the key of a call.
LEMMA RandomizerBits ==
  ASSUME Doubling, Non!NoncesAssumption, NEW c \in Calls, c.kind = "bip340"
  PROVE  Len(Non!Randomizer(c)) * c.hf * O >= NLen
<1>1. PICK h \in Nat \ {0}, N \in Nat \ {0} : h = c.hf /\ N = Non!NSize /\ N * O >= NLen
  BY ArgumentsOf, NSizeHolds
<1>2. O \in Nat \ {0} /\ NLen \in Nat
  BY DEF Non!NoncesAssumption
<1>3. CASE Non!Stretched(c)
  <2>1. PICK m \in Nat : m = Non!CeilDiv(N, h) /\ (m * h) * O >= N * O
    BY <1>2, DigestsHold
  <2>2. PICK aux : aux = c.aux
    OBVIOUS
  <2>3. Non!Randomizer(c) = Non!Stretch("aux", h, aux, N)
    BY <1>1, <1>3, <2>2 DEF Non!Randomizer
  <2>4. Len(Non!Randomizer(c)) = m
    BY <2>1, <2>3, StretchIs
  <2>5. m * h * O \in Nat /\ N * O \in Nat
    BY <1>2
  <2> QED BY <1>1, <1>2, <2>1, <2>4, <2>5
<1>4. CASE ~Non!Stretched(c)
  <2>1. Len(Non!Randomizer(c)) = 1
    BY <1>4 DEF Non!Randomizer
  <2>2. ~(h * O < NLen) /\ h * O \in Nat /\ 1 * h * O = h * O
    BY <1>1, <1>2, <1>4 DEF Non!Stretched
  <2> QED BY <1>1, <1>2, <2>1, <2>2
<1> QED BY <1>3, <1>4

\* Two equal candidates are one, of calls that were given the same.
LEMMA CandidatesDiffer ==
  ASSUME Doubling, Non!NoncesAssumption, NEW c \in Calls, NEW d \in Calls,
         NEW k \in Nat, NEW l \in Nat, Non!CandidateAt(c, k) = Non!CandidateAt(d, l)
  PROVE  /\ c.kind = d.kind /\ c.hf = d.hf /\ SameArguments(c, d)
         /\ ~Non!Stretched(c) => k = l
<1>1. PICK t : t = Non!CandidateAt(c, k) /\ t = Non!CandidateAt(d, l)
  OBVIOUS
<1>2. \A p, x, y, q, u, v, w : Non!Hmac(p, x, y) # Non!Tagged(q, u, v)
  BY DEF Non!Hmac, Non!Tagged
<1>4. /\ c.kind \in {"rfc6979", "bip340", "tweak"} /\ d.kind \in {"rfc6979", "bip340", "tweak"}
      /\ c.kind = "rfc6979" => ~Non!Stretched(c)
      /\ d.kind = "rfc6979" => ~Non!Stretched(d)
  BY ArgumentsOf DEF Non!Stretched
<1>5. /\ c.kind = "rfc6979" => \E p, x, y : t[1] = Non!Hmac(p, x, y)
      /\ c.kind # "rfc6979" => \E x : t[1] = Non!Tagged(c.kind, c.hf, x)
  <2>1. PICK x, y, m, v : /\ x = Non!Generator(Non!FirstInput(c), c.hf, k)[1]
                          /\ y = <<Non!Generator(Non!FirstInput(c), c.hf, k)[2]>>
                          /\ m = Non!FirstInput(c) \o Non!ToBytes(0, 4) /\ v = Non!Rehashed(c, k)
    OBVIOUS
  <2>2. /\ c.kind = "rfc6979" => t[1] = Non!Hmac(c.hf, x, y)
        /\ Non!Stretched(c) => t[1] = Non!Tagged(c.kind, c.hf, m)
        /\ c.kind # "rfc6979" /\ ~Non!Stretched(c) => t[1] = Non!Tagged(c.kind, c.hf, v)
    BY <1>1, <2>1, CandidateIs
  <2> QED BY <2>2
<1>6. /\ d.kind = "rfc6979" => \E p, x, y : t[1] = Non!Hmac(p, x, y)
      /\ d.kind # "rfc6979" => \E x : t[1] = Non!Tagged(d.kind, d.hf, x)
  <2>1. PICK x, y, m, v : /\ x = Non!Generator(Non!FirstInput(d), d.hf, l)[1]
                          /\ y = <<Non!Generator(Non!FirstInput(d), d.hf, l)[2]>>
                          /\ m = Non!FirstInput(d) \o Non!ToBytes(0, 4) /\ v = Non!Rehashed(d, l)
    OBVIOUS
  <2>2. /\ d.kind = "rfc6979" => t[1] = Non!Hmac(d.hf, x, y)
        /\ Non!Stretched(d) => t[1] = Non!Tagged(d.kind, d.hf, m)
        /\ d.kind # "rfc6979" /\ ~Non!Stretched(d) => t[1] = Non!Tagged(d.kind, d.hf, v)
    BY <1>1, <2>1, CandidateIs
  <2> QED BY <2>2
<1>7. CASE c.kind = "rfc6979"
  <2>1. d.kind = "rfc6979"
    BY <1>2, <1>5, <1>6, <1>7
  <2>2. PICK f \in Seq(AllOctets), g \in Seq(AllOctets) : f = Non!FirstInput(c) /\ g = Non!FirstInput(d)
    BY <1>7, <2>1, Rfc6979InputTells
  <2>3. PICK p, q : p = Non!Generator(f, c.hf, k) /\ q = Non!Generator(g, d.hf, l)
    OBVIOUS
  <2>4. t[1] = Non!Hmac(c.hf, p[1], <<p[2]>>)
    BY <1>1, <1>7, <2>2, <2>3, CandidateIs
  <2>5. t[1] = Non!Hmac(d.hf, q[1], <<q[2]>>)
    BY <1>1, <2>1, <2>2, <2>3, CandidateIs
  <2>6. p[1] = q[1]
    <3>1. PICK x, y, u, v : x = p[1] /\ y = q[1] /\ u = <<p[2]>> /\ v = <<q[2]>>
      OBVIOUS
    <3>2. Non!Hmac(c.hf, x, u) = Non!Hmac(d.hf, y, v)
      BY <2>4, <2>5, <3>1
    <3>3. x = y
      BY <3>2, HmacTells
    <3> QED BY <3>1, <3>3
  <2>7. k = l /\ f = g /\ c.hf = d.hf
    BY <2>3, <2>6, KeysDiffer
  <2> QED BY <1>7, <2>1, <2>2, <2>7, Rfc6979InputTells
<1>8. CASE c.kind # "rfc6979"
  <2>1. d.kind # "rfc6979"
    BY <1>2, <1>5, <1>6, <1>8
  <2>2. c.kind = d.kind /\ c.hf = d.hf
    <3>1. PICK x : t[1] = Non!Tagged(c.kind, c.hf, x)
      BY <1>5, <1>8
    <3>2. PICK y : t[1] = Non!Tagged(d.kind, d.hf, y)
      BY <1>6, <2>1
    <3>3. Non!Tagged(c.kind, c.hf, x) = Non!Tagged(d.kind, d.hf, y)
      BY <3>1, <3>2
    <3>4. PICK p, q, u, v : p = c.kind /\ q = d.kind /\ u = c.hf /\ v = d.hf
      OBVIOUS
    <3>5. Non!Tagged(p, u, x) = Non!Tagged(q, v, y)
      BY <3>3, <3>4
    <3>6. p = q /\ u = v
      BY <3>5, TaggedTells
    <3> QED BY <3>4, <3>6
  <2>3. Non!Stretched(c) <=> Non!Stretched(d)
    BY <2>2 DEF Non!Stretched
  <2>4. Non!FirstInput(c) = Non!FirstInput(d) /\ (~Non!Stretched(c) => k = l)
    <3>1. CASE Non!Stretched(c)
      <4>1. PICK w \in Seq(AllOctets) : w = Non!ToBytes(0, 4)
        BY OctetsOf
      <4>2. PICK x, y : x = Non!FirstInput(c) \o w /\ y = Non!FirstInput(d) \o w
        OBVIOUS
      <4>3. t[1] = Non!Tagged(c.kind, c.hf, x)
        BY <1>1, <3>1, <4>1, <4>2, CandidateIs
      <4>4. t[1] = Non!Tagged(d.kind, d.hf, y)
        BY <1>1, <2>3, <3>1, <4>1, <4>2, CandidateIs
      <4>5. x = y
        <5>1. PICK p, u : p = c.kind /\ u = c.hf
          OBVIOUS
        <5>2. Non!Tagged(p, u, x) = Non!Tagged(p, u, y)
          BY <2>2, <4>3, <4>4, <5>1
        <5> QED BY <5>2, TaggedTells
      <4>6. c.kind = "bip340" /\ d.kind = "bip340"
        BY <2>3, <3>1 DEF Non!Stretched
      <4>7. PICK f, g : f = Non!FirstInput(c) /\ g = Non!FirstInput(d)
        OBVIOUS
      <4> DEFINE Y == AllOctets \cup {MaskOf(c), MaskOf(d)}
      <4>8. f \in Seq(Y) /\ g \in Seq(Y) /\ w \in Seq(Y)
        <5>1. PICK u, a : u = Non!XOctets(c.q) \o c.msg /\ a = <<MaskOf(c)>>
          OBVIOUS
        <5>2. PICK v, b : v = Non!XOctets(d.q) \o d.msg /\ b = <<MaskOf(d)>>
          OBVIOUS
        <5>6. u \in Seq(AllOctets) /\ v \in Seq(AllOctets)
          BY <4>6, <5>1, <5>2, Bip340InputIs
        <5>4. f = a \o u /\ g = b \o v
          BY <4>6, <4>7, <5>1, <5>2, Bip340InputIs
        <5>5. u \in Seq(Y) /\ v \in Seq(Y) /\ a \in Seq(Y) /\ b \in Seq(Y)
          BY <5>1, <5>2, <5>6
        <5>3. w \in Seq(Y)
          OBVIOUS
        <5> HIDE DEF Y
        <5> QED BY <5>3, <5>4, <5>5, JoinedLength
      <4> HIDE DEF Y
      <4>9. f \o w = g \o w
        BY <4>2, <4>5, <4>7
      <4>10. f = g
        BY <4>8, <4>9, EndsTell
      <4> QED BY <3>1, <4>7, <4>10
    <3>2. CASE ~Non!Stretched(c)
      <4>1. PICK x, y : x = Non!Rehashed(c, k) /\ y = Non!Rehashed(d, l)
        OBVIOUS
      <4>2. t[1] = Non!Tagged(c.kind, c.hf, x)
        BY <1>1, <1>8, <3>2, <4>1, CandidateIs
      <4>3. t[1] = Non!Tagged(d.kind, d.hf, y)
        BY <1>1, <2>1, <2>3, <3>2, <4>1, CandidateIs
      <4>4. x = y
        <5>1. PICK p, u : p = c.kind /\ u = c.hf
          OBVIOUS
        <5>2. Non!Tagged(p, u, x) = Non!Tagged(p, u, y)
          BY <2>2, <4>2, <4>3, <5>1
        <5> QED BY <5>2, TaggedTells
      <4>5. Non!Rehashed(c, k) = Non!Rehashed(d, l)
        BY <4>1, <4>4
      <4>6. k = l /\ Non!FirstInput(c) = Non!FirstInput(d)
        BY <1>8, <2>1, <4>5, RehashedTells
      <4> QED BY <4>6
    <3> QED BY <3>1, <3>2
  <2>5. SameArguments(c, d)
    BY <1>4, <1>8, <2>2, <2>4, Bip340InputTells, TweakInputTells
  <2> QED BY <2>2, <2>4, <2>5
<1> QED BY <1>7, <1>8

-----------------------------------------------------------------------------
(* Calls *)

LEMMA StateSteps ==
  ASSUME NEW c, NEW k \in Nat
  PROVE  /\ Non!StateAt(c, 0) = IF c.kind = "rfc6979" THEN Non!Seeded(Non!FirstInput(c), c.hf)
                               ELSE Non!FirstInput(c)
         /\ Non!StateAt(c, k + 1) = IF c.kind = "rfc6979" THEN Reseeded(Non!StateAt(c, k), c.hf)
                                   ELSE Retagged(c, Non!StateAt(c, k))
<1>1. CASE c.kind = "rfc6979"
  <2>1. PICK f, hf : f = Non!FirstInput(c) /\ hf = c.hf
    OBVIOUS
  <2>2. /\ Non!Generator(f, hf, 0) = Non!Seeded(f, hf)
        /\ Non!Generator(f, hf, k + 1) = Reseeded(Non!Generator(f, hf, k), hf)
    BY GeneratorSteps
  <2> QED BY <1>1, <2>1, <2>2 DEF Non!StateAt
<1>2. CASE c.kind # "rfc6979"
  BY <1>2, RehashedSteps DEF Non!StateAt
<1> QED BY <1>1, <1>2

\* A call that runs looks at the next of its candidates.
LEMMA CandidateIsNext ==
  ASSUME Non!Inv(Nat), ~Non!Idle
  PROVE  /\ Len(tried) \in Nat
         /\ Non!Candidate = Non!CandidateAt(call, Len(tried))
<1>1. /\ state = Non!StateAt(call, Len(tried)) /\ Non!IsSequence(tried)
      /\ Non!Stretched(call) => tried = <<>>
  BY DEF Non!Inv
<1>2. Len(tried) \in Nat
  BY <1>1, SequencesGrow
<1>3. CASE call.kind = "rfc6979"
  BY <1>1, <1>3 DEF Non!StateAt, Non!Candidate, Non!CandidateAt, Non!Blocks
<1>4. CASE call.kind # "rfc6979" /\ ~Non!Stretched(call)
  BY <1>1, <1>4 DEF Non!StateAt, Non!Candidate, Non!CandidateAt
<1>5. CASE call.kind # "rfc6979" /\ Non!Stretched(call)
  <2>1. Len(tried) = 0
    BY <1>1, <1>5
  <2>2. state = Non!FirstInput(call)
    BY <1>1, <1>5, <2>1, StateSteps
  <2> QED BY <1>5, <2>2 DEF Non!Candidate, Non!CandidateAt
<1> QED BY <1>2, <1>3, <1>4, <1>5

\* What a call goes on with is the state its next candidate is drawn from.
LEMMA AdvancedIsNext ==
  ASSUME Non!Inv(Nat), ~Non!Idle, ~Non!Stretched(call)
  PROVE  Non!Advanced(Non!Candidate) = Non!StateAt(call, Len(tried) + 1)
<1>1. state = Non!StateAt(call, Len(tried)) /\ Len(tried) \in Nat
  BY CandidateIsNext DEF Non!Inv
<1>2. CASE call.kind = "rfc6979"
  <2>1. Non!Advanced(Non!Candidate) = Reseeded(state, call.hf)
    BY <1>2 DEF Non!Advanced, Non!Candidate, Reseeded
  <2> QED BY <1>1, <1>2, <2>1, StateSteps
<1>3. CASE call.kind # "rfc6979"
  <2>1. Non!Advanced(Non!Candidate) = Retagged(call, state)
    BY <1>3 DEF Non!Advanced, Non!Candidate, Retagged
  <2> QED BY <1>1, <1>3, <2>1, StateSteps
<1> QED BY <1>2, <1>3

\* A candidate was not looked at before: what tried holds grows with each.
LEMMA TriedGrows ==
  ASSUME Doubling, Non!NoncesAssumption, Non!Inv(Nat), ~Non!Idle
  PROVE  ~\E i \in DOMAIN tried : tried[i] = Non!Candidate
<1>1. /\ call \in Calls /\ Non!IsSequence(tried)
      /\ \A i \in DOMAIN tried : tried[i] = Non!CandidateAt(call, i - 1)
      /\ Non!Stretched(call) => tried = <<>>
  BY DEF Non!Inv
<1>2. PICK L \in Nat : L = Len(tried) /\ Non!Candidate = Non!CandidateAt(call, L)
  BY CandidateIsNext
<1>3. DOMAIN tried = 1..L
  BY <1>1, <1>2, SequencesGrow
<1>4. ASSUME NEW i \in DOMAIN tried, tried[i] = Non!Candidate PROVE FALSE
  <2>1. PICK k \in Nat : k = i - 1 /\ k < L
    BY <1>3
  <2>2. Non!CandidateAt(call, k) = Non!CandidateAt(call, L)
    BY <1>1, <1>2, <1>4, <2>1
  <2>3. ~Non!Stretched(call)
    BY <1>1, <1>4
  <2>4. k = L
    BY <1>1, <2>2, <2>3, CandidatesDiffer
  <2> QED BY <2>1, <2>4
<1> QED BY <1>4

\* What past says of the calls that returned.
PastInv ==
  /\ Non!IsSequence(past)
  /\ \A i \in DOMAIN past :
       /\ past[i].call \in Calls
       /\ \E j \in Nat : past[i].taken = Non!CandidateAt(past[i].call, j)

LEMMA TryKeeps ==
  ASSUME Doubling, Non!NoncesAssumption, Non!Inv(Nat), Non!Try
  PROVE  Non!Inv(Nat)'
<1>1. ~Non!Idle
  BY DEF Non!Try
<1>2. PICK t : t = Non!Candidate
  OBVIOUS
<1>3. PICK k \in Non!Drawn(t) :
        /\ tried' = IF \E i \in DOMAIN tried : tried[i] = t THEN tried ELSE Append(tried, t)
        /\ \/ (Non!Stretched(call) \/ Non!IsScalar(k)) /\ Non!Return(t)
           \/ /\ ~Non!Stretched(call) /\ ~Non!IsScalar(k)
              /\ state' = Non!Advanced(t) /\ UNCHANGED <<call, past>>
  BY <1>2 DEF Non!Try
<1>4. PICK L \in Nat : L = Len(tried) /\ t = Non!CandidateAt(call, L)
  BY <1>1, <1>2, CandidateIsNext
<1>5. /\ call \in Calls /\ Non!IsSequence(tried)
      /\ \A i \in DOMAIN tried : tried[i] = Non!CandidateAt(call, i - 1)
  BY <1>1 DEF Non!Inv
<1>6. PastInv
  BY DEF Non!Inv, PastInv
<1>7. CASE Non!Return(t)
  <2>1. PICK w : /\ w = [call |-> call, taken |-> t] /\ past' = Append(past, w)
                 /\ call' = <<>>
    BY <1>7 DEF Non!Return
  <2>2. PICK M \in Nat : M = Len(past) /\ DOMAIN past = 1..M
    BY <1>6, SequencesGrow DEF PastInv
  <2>3. /\ Non!IsSequence(past') /\ Len(past') = M + 1 /\ past'[M + 1] = w
        /\ \A i \in 1..M : past'[i] = past[i]
    BY <1>6, <2>1, <2>2, SequencesGrow DEF PastInv
  <2>4. DOMAIN past' = 1..(M + 1)
    BY <2>3, SequencesGrow
  <2>5. ASSUME NEW i \in DOMAIN past'
        PROVE  past'[i].call \in Calls /\ \E j \in Nat : past'[i].taken = Non!CandidateAt(past'[i].call, j)
    <3>1. CASE i = M + 1
      <4>1. past'[i].call = call /\ past'[i].taken = t
        BY <2>1, <2>3, <3>1
      <4> QED BY <1>4, <1>5, <4>1
    <3>2. CASE i # M + 1
      <4>1. i \in DOMAIN past /\ past'[i] = past[i]
        BY <2>2, <2>3, <2>4, <3>2
      <4> QED BY <1>6, <4>1 DEF PastInv
    <3> QED BY <3>1, <3>2
  <2>6. Non!Idle'
    BY <2>1 DEF Non!Idle
  <2> QED BY <2>3, <2>5, <2>6 DEF Non!Inv
<1>8. CASE ~Non!Return(t)
  <2>1. ~Non!Stretched(call) /\ state' = Non!Advanced(t) /\ call' = call /\ past' = past
    BY <1>3, <1>8
  <2>2. tried' = Append(tried, t)
    BY <1>1, <1>2, <1>3, TriedGrows
  <2>3. DOMAIN tried = 1..L
    BY <1>4, <1>5, SequencesGrow
  <2>4. /\ Non!IsSequence(tried') /\ Len(tried') = L + 1 /\ tried'[L + 1] = t
        /\ \A i \in 1..L : tried'[i] = tried[i]
    BY <1>4, <1>5, <2>2, SequencesGrow
  <2>5. DOMAIN tried' = 1..(L + 1)
    BY <2>4, SequencesGrow
  <2>6. ASSUME NEW i \in DOMAIN tried' PROVE tried'[i] = Non!CandidateAt(call, i - 1)
    <3>1. CASE i = L + 1
      <4>1. i - 1 = L
        BY <3>1
      <4> QED BY <1>4, <2>4, <3>1, <4>1
    <3>2. CASE i # L + 1
      <4>1. i \in DOMAIN tried /\ tried'[i] = tried[i]
        BY <2>3, <2>4, <2>5, <3>2
      <4> QED BY <1>5, <4>1
    <3> QED BY <3>1, <3>2
  <2>7. state' = Non!StateAt(call, L + 1)
    BY <1>1, <1>2, <1>4, <2>1, AdvancedIsNext
  <2> QED BY <1>5, <1>6, <2>1, <2>4, <2>6, <2>7 DEF Non!Inv, Non!Idle, Non!Stretched, PastInv
<1> QED BY <1>7, <1>8

LEMMA NonceNext ==
  ASSUME Doubling, Non!NoncesAssumption, Non!Inv(Nat), [Non!Next]_Non!vars
  PROVE  Non!Inv(Nat)'
<1>1. CASE Non!Start
  <2>1. PICK c \in Calls :
          /\ call' = c /\ tried' = <<>> /\ past' = past
          /\ state' = IF c.kind = "rfc6979" THEN Non!Seeded(Non!FirstInput(c), c.hf)
                      ELSE Non!FirstInput(c)
    BY <1>1 DEF Non!Start
  <2>2. state' = Non!StateAt(c, 0)
    BY <2>1, StateSteps
  <2>3. Non!IsSequence(tried') /\ Len(tried') = 0 /\ DOMAIN tried' = {}
    BY <2>1 DEF Non!IsSequence
  <2> QED BY <2>1, <2>2, <2>3 DEF Non!Inv
<1>2. CASE Non!Try
  BY <1>2, TryKeeps
<1>3. CASE UNCHANGED Non!vars
  BY <1>3 DEF Non!vars, Non!Inv, Non!Idle
<1> QED BY <1>1, <1>2, <1>3 DEF Non!Next

\* In every reachable state a call is where its rejected candidates have led it,
\* which are the first of its chain, none twice (rfc6979_nonce.py:76-130,
\* bip340_nonce.py, commit_nonce.py:99-125).
THEOREM NonceInvariant ==
  Non!NoncesAssumption /\ Doubling => (Non!Spec => []Non!Inv(Nat))
<1> SUFFICES ASSUME Non!NoncesAssumption, Doubling PROVE Non!Spec => []Non!Inv(Nat)
  OBVIOUS
<1>1. Non!Init => Non!Inv(Nat)
  <2> SUFFICES ASSUME Non!Init PROVE Non!Inv(Nat)
    OBVIOUS
  <2>1. Non!Idle /\ past = <<>>
    BY DEF Non!Init, Non!Idle
  <2>2. Non!IsSequence(past) /\ DOMAIN past = {}
    BY <2>1 DEF Non!IsSequence
  <2> QED BY <2>1, <2>2 DEF Non!Inv
<1>2. Non!Inv(Nat) /\ [Non!Next]_Non!vars => Non!Inv(Nat)'
  BY NonceNext
<1> QED BY <1>1, <1>2, PTL DEF Non!Spec

\* No two calls take one candidate unless they were given the same: no two keys,
\* messages, entropies or commitments share a nonce or a tweak, whatever was
\* rejected on the way (rfc6979_nonce.py, bip340_nonce.py, commit_nonce.py).
THEOREM OneCandidateOfOneInput ==
  Non!NoncesAssumption /\ Doubling => (Non!Spec => []Non!OneCandidateOneInput)
<1> SUFFICES ASSUME Non!NoncesAssumption, Doubling
             PROVE  Non!Spec => []Non!OneCandidateOneInput
  OBVIOUS
<1>1. Non!Spec => []Non!Inv(Nat)
  BY NonceInvariant
<1>2. Non!Inv(Nat) => Non!OneCandidateOneInput
  <2> SUFFICES ASSUME Non!Inv(Nat), NEW i \in DOMAIN past, NEW j \in DOMAIN past,
                      past[i].taken = past[j].taken
               PROVE  LET c1 == past[i].call  c2 == past[j].call
                      IN  /\ c1.kind = c2.kind /\ c1.hf = c2.hf
                          /\ c1.kind = "rfc6979" => <<c1.q, c1.c, c1.extra>> = <<c2.q, c2.c, c2.extra>>
                          /\ c1.kind = "bip340" =>
                               c1.q \in {c2.q, n - c2.q} /\ c1.aux = c2.aux /\ c1.msg = c2.msg
                          /\ c1.kind = "tweak" =>
                               c1.receipt = c2.receipt /\ c1.commit = c2.commit
    BY DEF Non!OneCandidateOneInput
  <2>1. PICK c \in Calls, k \in Nat : c = past[i].call /\ past[i].taken = Non!CandidateAt(c, k)
    BY DEF Non!Inv
  <2>2. PICK d \in Calls, l \in Nat : d = past[j].call /\ past[j].taken = Non!CandidateAt(d, l)
    BY DEF Non!Inv
  <2>3. c.kind = d.kind /\ c.hf = d.hf /\ SameArguments(c, d)
    <3>1. Non!CandidateAt(c, k) = Non!CandidateAt(d, l)
      BY <2>1, <2>2
    <3> QED BY <3>1, CandidatesDiffer
  <2> QED BY <2>1, <2>2, <2>3 DEF SameArguments
<1> QED BY <1>1, <1>2, PTL

\* The candidates a call of RFC6979 rejects are the blocks of its seed's chain, in
\* order (rangeproof.py: _blocks).
THEOREM RejectionsFollowTheChain ==
  Non!NoncesAssumption /\ Doubling => (Non!Spec => []Non!RejectionFollowsTheChain)
<1> SUFFICES ASSUME Non!NoncesAssumption, Doubling
             PROVE  Non!Spec => []Non!RejectionFollowsTheChain
  OBVIOUS
<1>1. Non!Spec => []Non!Inv(Nat)
  BY NonceInvariant
<1>2. Non!Inv(Nat) => Non!RejectionFollowsTheChain
  BY DEF Non!Inv, Non!RejectionFollowsTheChain, Non!CandidateAt
<1> QED BY <1>1, <1>2, PTL

\* However short the digest, a nonce is read from as many bits as the order has,
\* and so is the mask of a BIP340 key; a stretched one has ExtraBits more
\* (bip340_nonce.py, rfc6979_nonce.py).
THEOREM BitsAreEnough ==
  Non!NoncesAssumption /\ Doubling => (Non!Spec => []Non!BitsCoverTheOrder)
<1> SUFFICES ASSUME Non!NoncesAssumption, Doubling
             PROVE  Non!Spec => []Non!BitsCoverTheOrder
  OBVIOUS
<1>1. Non!Spec => []Non!Inv(Nat)
  BY NonceInvariant
<1>2. Non!Inv(Nat) => Non!BitsCoverTheOrder
  <2> SUFFICES ASSUME Non!Inv(Nat) PROVE Non!BitsCoverTheOrder
    OBVIOUS
  <2>1. ASSUME ~Non!Idle, call.kind # "tweak", NEW i \in DOMAIN tried
        PROVE  Len(tried[i]) * call.hf * O >= NLen
    <3>1. call \in Calls /\ tried[i] = Non!CandidateAt(call, i - 1) /\ Non!IsSequence(tried)
      BY <2>1 DEF Non!Inv
    <3>2. PICK k \in Nat : k = i - 1
      BY <2>1, <3>1, SequencesGrow
    <3>3. tried[i] = Non!CandidateAt(call, k)
      BY <3>1, <3>2
    <3> QED BY <2>1, <3>1, <3>3, CandidateBits
  <2>2. ASSUME ~Non!Idle, call.kind = "bip340"
        PROVE  Len(Non!Randomizer(call)) * call.hf * O >= NLen
    BY <2>2, RandomizerBits DEF Non!Inv
  <2>3. ASSUME NEW i \in DOMAIN past
        PROVE  /\ past[i].call.kind # "tweak" => Len(past[i].taken) * past[i].call.hf * O >= NLen
               /\ Non!Stretched(past[i].call) =>
                    Len(past[i].taken) * past[i].call.hf * O >= NLen + ExtraBits
    <3>1. PICK c \in Calls, k \in Nat : c = past[i].call /\ past[i].taken = Non!CandidateAt(c, k)
      BY DEF Non!Inv
    <3> QED BY <3>1, CandidateBits
  <2> QED BY <2>1, <2>2, <2>3 DEF Non!BitsCoverTheOrder
<1> QED BY <1>1, <1>2, PTL

-----------------------------------------------------------------------------
(***************************************************************************)
(* The octets of ECDSA signatures: a signature has one strict spelling     *)
(* (DerSig).                                                               *)
(***************************************************************************)
CONSTANTS RValues, SigMarker, ScalarMarker, MaxSize, Put, Boundary, Pads
VARIABLES sig, octets, strict, lax

Der == INSTANCE DerSig

\* Powers of two grow.
LEMMA PowersGrow ==
  ASSUME Doubling, NEW k \in Nat, NEW l \in Nat, k <= l
  PROVE  2^k <= 2^l
<1>1. PICK m \in Nat : l = k + m
  <2>1. l - k \in Nat /\ l = k + (l - k)
    OBVIOUS
  <2> QED BY <2>1
<1>2. 2^k \in Nat \ {0} /\ 2^m \in Nat \ {0}
  BY PowerPositive
<1>3. 2^l = 2^k * 2^m
  BY <1>1, PowerOfSum
<1>4. 2^k * 0 + 2^k <= 2^k * 2^m
  BY <1>2, ProductGrows
<1>5. 2^k * 0 = 0
  BY <1>2
<1> QED BY <1>2, <1>3, <1>4, <1>5

\* The smaller power has the smaller exponent.
LEMMA ExponentsTell ==
  ASSUME Doubling, NEW k \in Nat, NEW l \in Nat, NEW x \in Int, 2^k <= x, x < 2^l
  PROVE  k < l
<1>1. SUFFICES ASSUME l <= k PROVE FALSE
  OBVIOUS
<1>2. 2^l <= 2^k /\ 2^k \in Int /\ 2^l \in Int
  BY <1>1, PowersGrow, PowerPositive
<1> QED BY <1>2

LEMMA BelowItsPower ==
  ASSUME Doubling, NEW k \in Nat
  PROVE  k < 2^k
<1> DEFINE T == {i \in Nat : i < 2^i}
<1>1. 0 \in T
  <2>1. 2^0 \in Nat \ {0}
    BY PowerPositive
  <2> QED BY <2>1
<1>2. ASSUME NEW i \in Nat, i \in T PROVE i + 1 \in T
  <2>1. 2^(i + 1) = 2 * 2^i /\ 2^i \in Nat
    BY PowerPositive DEF Doubling
  <2> QED BY <1>2, <2>1
<1>3. Nat \subseteq T
  <2> HIDE DEF T
  <2> QED BY <1>1, <1>2, SetInduction
<1> QED BY <1>3

\* The bits of a number.
LEMMA BitLengthIs ==
  ASSUME Doubling, NEW k \in Nat
  PROVE  \E b \in Nat : b = Der!BitLength(k) /\ k < 2^b /\ (b = 0 \/ 2^(b - 1) <= k)
<1> DEFINE T == {i \in Nat : k < 2^i}
<1>1. k \in T
  BY BelowItsPower
<1>2. PICK b \in T : \A i \in T : ~(i < b)
  <2>1. T \in SUBSET Nat /\ T # {}
    BY <1>1
  <2> HIDE DEF T
  <2> QED BY <2>1, LeastElement
<1>3. b \in 0..k /\ k < 2^b
  BY <1>1, <1>2
<1>4. b = 0 \/ 2^(b - 1) <= k
  <2>1. SUFFICES ASSUME b # 0 PROVE 2^(b - 1) <= k
    OBVIOUS
  <2>2. b - 1 \in Nat /\ b - 1 < b
    BY <1>3, <2>1
  <2>3. b - 1 \notin T
    BY <1>2, <2>2
  <2>4. 2^(b - 1) \in Nat
    BY <2>2, PowerPositive
  <2> QED BY <2>2, <2>3, <2>4
<1>5. Der!BitLength(k) \in 0..k /\ k < 2^(Der!BitLength(k))
      /\ (Der!BitLength(k) = 0 \/ 2^(Der!BitLength(k) - 1) <= k)
  BY <1>3, <1>4 DEF Der!BitLength
<1> QED BY <1>5

\* A number below, or no less than, so many times another has a quotient that is.
LEMMA QuotientBelow ==
  ASSUME NEW d \in Nat \ {0}, NEW x \in Int, NEW m \in Int
  PROVE  /\ x \div d \in Int
         /\ x < d * m <=> x \div d < m
<1>1. PICK q \in Int, v \in 0..(d - 1) : q = x \div d /\ x = d * q + v
  BY DivMod, ModRange
<1>2. d * q \in Int /\ d * m \in Int
  OBVIOUS
<1>3. ASSUME q < m PROVE x < d * m
  <2>1. d * q + d <= d * m
    BY <1>3, ProductGrows
  <2> QED BY <1>1, <1>2, <2>1
<1>4. ASSUME m < q PROVE ~(x < d * m)
  <2>1. d * m + d <= d * q
    BY <1>4, ProductGrows
  <2> QED BY <1>1, <1>2, <2>1
<1>5. ASSUME m = q PROVE ~(x < d * m)
  <2>1. d * m = d * q
    BY <1>5
  <2> QED BY <1>1, <1>2, <2>1
<1> QED BY <1>1, <1>3, <1>4, <1>5

LEMMA DerConstants ==
  ASSUME Doubling, Der!DerAssumption
  PROVE  /\ O \in Nat \ {0} /\ O > 2 /\ n \in Nat /\ NLen \in Nat \ {0} /\ n < 2^NLen
         /\ 2^O \in Nat \ {0} /\ Der!HighBit \in Nat \ {0}
         /\ 2^O = 2 * Der!HighBit /\ Der!HighBit <= 2^O - 3
         /\ MaxSize \in Nat /\ Der!MaxSigDataSize \in Nat
         /\ Der!MaxSigDataSize < Der!HighBit /\ Der!MaxSigDataSize <= MaxSize
         /\ SigMarker \in Der!OctetOf /\ ScalarMarker \in Der!OctetOf /\ Put \subseteq Der!OctetOf
<1>1. O \in Nat \ {0} /\ O > 2 /\ n \in Nat /\ NLen \in Nat \ {0} /\ n < 2^NLen
  BY DEF Der!DerAssumption
<1>2. O - 1 \in Nat /\ O - 1 >= 2 /\ O - 1 + 1 = O
  BY <1>1
<1>3. 2^O = 2 * 2^(O - 1) /\ 2^(O - 1) \in Nat \ {0} /\ 2^O \in Nat \ {0}
  BY <1>1, <1>2, PowerPositive DEF Doubling
<1>4. 2^(O - 1) >= 3
  <2>1. O - 1 < 2^(O - 1)
    BY <1>2, BelowItsPower
  <2> QED BY <1>2, <1>3, <2>1
<1>5. 2^(O - 1) = Der!HighBit
  BY DEF Der!HighBit
<1>6. Der!MaxSigDataSize \in Nat
  <2>1. PICK q \in Int : q = NLen \div O
    BY <1>1, DivMod
  <2>2. ~(NLen < O * 0)
    BY <1>1
  <2>3. q >= 0
    BY <1>1, <2>1, <2>2, QuotientBelow
  <2> QED BY <2>1, <2>3 DEF Der!MaxSigDataSize
<1> QED BY <1>1, <1>3, <1>4, <1>5, <1>6 DEF Der!DerAssumption

\* A number fills L octets as serialize writes it: the highest bit is free, and
\* with one octet less it would not be.
Fills(k, L) ==
  /\ k < 2^(O * L - 1)
  /\ L = 1 \/ 2^(O * (L - 1) - 1) <= k

LEMMA FillsOne ==
  ASSUME Doubling, Der!DerAssumption, NEW k \in Nat, NEW L \in Nat \ {0}, Fills(k, L)
  PROVE  Der!ScalarSize(k) = L
<1>1. PICK b \in Nat : b = Der!BitLength(k) /\ k < 2^b /\ (b = 0 \/ 2^(b - 1) <= k)
  BY BitLengthIs
<1>2. O \in Nat \ {0} /\ O > 2
  BY DerConstants
<1>3. O * L \in Nat /\ O * L >= O /\ O * L - 1 \in Nat
  <2>1. O * 0 + O <= O * L
    BY <1>2, ProductGrows
  <2> QED BY <1>2, <2>1
<1>4. b < O * L
  <2>1. SUFFICES ASSUME b # 0 PROVE b < O * L
    BY <1>2, <1>3
  <2>2. b - 1 < O * L - 1
    <3>1. b - 1 \in Nat /\ 2^(b - 1) <= k /\ k < 2^(O * L - 1)
      BY <1>1, <2>1 DEF Fills
    <3> QED BY <1>3, <3>1, ExponentsTell
  <2> QED BY <1>3, <2>2
<1>5. b \div O \in Int /\ b \div O < L
  BY <1>2, <1>4, QuotientBelow
<1>6. ~(b \div O < L - 1)
  <2>1. CASE L = 1
    <3>1. ~(b < O * 0)
      BY <1>2
    <3> QED BY <1>2, <2>1, <3>1, QuotientBelow
  <2>2. CASE L # 1
    <3>1. L - 1 \in Nat \ {0}
      BY <2>2
    <3>2. O * (L - 1) \in Nat /\ O * (L - 1) - 1 \in Nat
      <4>1. O * 0 + O <= O * (L - 1)
        BY <1>2, <3>1, ProductGrows
      <4> QED BY <1>2, <3>1, <4>1
    <3>3. O * (L - 1) - 1 < b
      <4>1. 2^(O * (L - 1) - 1) <= k
        BY <2>2 DEF Fills
      <4> QED BY <1>1, <3>2, <4>1, ExponentsTell
    <3>4. ~(b < O * (L - 1))
      BY <3>2, <3>3
    <3> QED BY <1>2, <3>1, <3>4, QuotientBelow
  <2> QED BY <2>1, <2>2
<1> QED BY <1>1, <1>5, <1>6 DEF Der!ScalarSize

LEMMA SizeIsFilled ==
  ASSUME Doubling, Der!DerAssumption, NEW k \in Nat
  PROVE  \E L \in Nat \ {0} : L = Der!ScalarSize(k) /\ Fills(k, L)
<1>1. PICK b \in Nat : b = Der!BitLength(k) /\ k < 2^b /\ (b = 0 \/ 2^(b - 1) <= k)
  BY BitLengthIs
<1>2. O \in Nat \ {0} /\ O > 2
  BY DerConstants
<1>3. PICK q \in Int, v \in 0..(O - 1) : q = b \div O /\ b = O * q + v
  BY <1>2, DivMod, ModRange
<1>4. q \in Nat
  <2>1. ~(b < O * 0)
    BY <1>2
  <2> QED BY <1>2, <1>3, <2>1, QuotientBelow
<1>5. PICK L \in Nat \ {0} : L = q + 1
  BY <1>4
<1>6. O * L = O * q + O /\ L - 1 = q /\ O * q \in Nat
  BY <1>2, <1>4, <1>5
<1>7. k < 2^(O * L - 1)
  <2>1. O * L - 1 \in Nat /\ b <= O * L - 1
    BY <1>2, <1>3, <1>6
  <2>2. 2^b <= 2^(O * L - 1) /\ 2^b \in Nat /\ 2^(O * L - 1) \in Nat
    BY <2>1, PowersGrow, PowerPositive
  <2> QED BY <1>1, <2>2
<1>8. CASE L = 1
  BY <1>1, <1>3, <1>5, <1>7, <1>8 DEF Fills, Der!ScalarSize
<1>9. CASE L # 1
  <2>1. q \in Nat \ {0}
    BY <1>4, <1>5, <1>9
  <2>2. O * 0 + O <= O * q
    BY <1>2, <2>1, ProductGrows
  <2>3. O * q - 1 \in Nat /\ b - 1 \in Nat /\ O * q - 1 <= b - 1 /\ b # 0
    BY <1>2, <1>3, <1>6, <2>2
  <2>4. 2^(O * q - 1) <= 2^(b - 1) /\ 2^(O * q - 1) \in Nat /\ 2^(b - 1) \in Nat
    BY <2>3, PowersGrow, PowerPositive
  <2>5. 2^(O * (L - 1) - 1) <= k
    BY <1>1, <1>6, <2>3, <2>4
  <2> QED BY <1>1, <1>3, <1>5, <1>7, <2>5 DEF Fills, Der!ScalarSize
<1> QED BY <1>8, <1>9

\* A scalar is written in as many octets as the greatest, at most, so that its
\* size is one octet.
LEMMA ScalarsFit ==
  ASSUME Doubling, Der!DerAssumption, NEW k \in 0..n
  PROVE  /\ Der!ScalarSize(k) \in Nat \ {0}
         /\ 2 * (2 + Der!ScalarSize(k)) <= Der!MaxSigDataSize
<1>1. PICK L \in Nat \ {0} : L = Der!ScalarSize(k) /\ Fills(k, L)
  BY SizeIsFilled, k \in Nat, DerConstants
<1>2. O \in Nat \ {0} /\ n \in Nat /\ NLen \in Nat /\ n < 2^NLen /\ O > 2
  BY DerConstants
<1>3. PICK q \in Int : q = NLen \div O
  BY <1>2, DivMod
<1>4. q >= 0
  <2>1. ~(NLen < O * 0)
    BY <1>2
  <2> QED BY <1>2, <1>3, <2>1, QuotientBelow
<1>5. L <= q + 1
  <2>1. CASE L = 1
    BY <1>4, <2>1
  <2>2. CASE L # 1
    <3>1. L - 1 \in Nat \ {0}
      BY <2>2
    <3>2. O * (L - 1) \in Nat /\ O * (L - 1) - 1 \in Nat
      <4>1. O * 0 + O <= O * (L - 1)
        BY <1>2, <3>1, ProductGrows
      <4> QED BY <1>2, <3>1, <4>1
    <3>3. O * (L - 1) - 1 < NLen
      <4>1. 2^(O * (L - 1) - 1) <= k
        BY <1>1, <2>2 DEF Fills
      <4>2. 2^NLen \in Nat
        BY <1>2, PowerPositive
      <4>3. k < 2^NLen
        BY <1>2, <4>2
      <4> QED BY <1>2, <3>2, <4>1, <4>3, ExponentsTell
    <3>4. ~(NLen < O * (L - 1))
      BY <1>2, <3>2, <3>3
    <3>5. ~(NLen \div O < L - 1)
      BY <1>2, <3>1, <3>4, QuotientBelow
    <3> QED BY <1>3, <3>5
  <2> QED BY <2>1, <2>2
<1> QED BY <1>1, <1>3, <1>5 DEF Der!MaxSigDataSize

\* The numbers a loop from the first octet to the last passes through.
Passes(f, t) ==
  /\ f[0] = 0
  /\ \A i \in 1..Len(t) : f[i] = f[i - 1] * 2^O + t[i]
  /\ \A i \in 0..Len(t) : f[i] \in Nat

LEMMA FromBytesIs ==
  ASSUME Doubling, Der!DerAssumption, NEW t \in Seq(Der!OctetOf)
  PROVE  \E f : Passes(f, t) /\ Der!FromBytes(t) = f[Len(t)]
<1>1. PICK m \in Nat : m = Len(t) /\ \A i \in 1..m : t[i] \in Nat
  <2>1. \A x \in Der!OctetOf : x \in Nat
    BY DerConstants DEF Der!OctetOf
  <2>2. Len(t) \in Nat /\ t \in [1..Len(t) -> Der!OctetOf]
    BY LenProperties
  <2> QED BY <2>1, <2>2
<1>2. 2^O \in Nat \ {0}
  BY DerConstants
<1> DEFINE F(b) == [i \in 0..m |-> IF i = 0 THEN 0 ELSE b[i - 1] * 2^O + t[i]]
           c == CHOOSE b : b = F(b)
           step == [x \in Nat \X (1..m) |-> x[1] * 2^O + t[x[2]]]
<1>3. step \in [Nat \X (1..m) -> Nat]
  <2>1. ASSUME NEW x \in Nat \X (1..m) PROVE x[1] * 2^O + t[x[2]] \in Nat
    BY <1>1, <1>2
  <2> QED BY <2>1
<1>4. \A x \in Nat, i \in 1..m : step[<<x, i>>] = x * 2^O + t[i]
  OBVIOUS
<1> HIDE DEF step
<1>5. PICK b : Iterates(b, Nat, 0, step, m)
  BY <1>3, BoundedRecursionExists
<1>6. b = F(b)
  <2>1. ASSUME NEW i \in 0..m
        PROVE  b[i] = IF i = 0 THEN 0 ELSE b[i - 1] * 2^O + t[i]
    <3>1. CASE i = 0
      BY <1>5, <3>1 DEF Iterates
    <3>2. CASE i # 0
      <4>1. i \in 1..m /\ i - 1 \in 0..m
        BY <3>2
      <4>2. b[i] = step[<<b[i - 1], i>>] /\ b[i - 1] \in Nat
        BY <1>5, <4>1 DEF Iterates
      <4> QED BY <1>4, <3>2, <4>1, <4>2
    <3> QED BY <3>1, <3>2
  <2>2. b = [i \in 0..m |-> b[i]]
    BY <1>5 DEF Iterates
  <2> QED BY <2>1, <2>2
<1>7. c = F(c)
  BY <1>6
<1>8. Der!FromBytes(t) = c[Len(t)]
  BY <1>1 DEF Der!FromBytes, c
<1> HIDE DEF c
<1>9. c[0] = 0
  BY <1>7
<1>10. ASSUME NEW i \in 1..m PROVE c[i] = c[i - 1] * 2^O + t[i]
  <2>1. i \in 0..m /\ i # 0
    OBVIOUS
  <2> QED BY <1>7, <2>1
<1>11. \A i \in 0..m : c[i] \in Nat
  <2>1. ASSUME NEW i \in 1..m, c[i - 1] \in Nat PROVE c[i] \in Nat
    <3>1. PICK x \in Nat, y \in Nat, d \in Nat : x = c[i - 1] /\ y = 2^O /\ d = t[i]
      BY <1>1, <1>2, <2>1
    <3>2. x * y + d \in Nat
      OBVIOUS
    <3> QED BY <1>10, <3>1, <3>2
  <2>2. c[0] \in Nat
    BY <1>9
  <2> QED BY <2>1, <2>2, LoopInvariant
<1> QED BY <1>1, <1>8, <1>9, <1>10, <1>11 DEF Passes

\* After i octets the number is below 2^(O*i), and what further octets add to it
\* is what dividing by a power takes off again.
LEMMA PassesAreQuotients ==
  ASSUME Doubling, Der!DerAssumption, NEW t \in Seq(Der!OctetOf), NEW f, Passes(f, t)
  PROVE  /\ \A i \in 0..Len(t) : f[i] < 2^(O * i)
         /\ \A i \in 0..Len(t) : f[Len(t)] \div 2^(O * (Len(t) - i)) = f[i]
<1>1. PICK m \in Nat : m = Len(t) /\ \A i \in 1..m : t[i] \in 0..(2^O - 1)
  BY LenProperties DEF Der!OctetOf
<1>2. PICK w \in Nat \ {0} : w = 2^O
  BY DerConstants
<1>3. O \in Nat \ {0}
  BY DerConstants
<1>4. /\ f[0] = 0
      /\ \A i \in 1..m : f[i] = f[i - 1] * w + t[i]
      /\ \A i \in 0..m : f[i] \in Nat
  BY <1>1, <1>2 DEF Passes
<1>5. \A i \in 0..m : f[i] < 2^(O * i)
  <2> DEFINE T == {i \in Nat : i <= m => f[i] < 2^(O * i)}
  <2>1. 0 \in T
    <3>1. 2^0 \in Nat \ {0} /\ O * 0 = 0
      BY <1>3, PowerPositive
    <3>2. f[0] = 0 /\ 2^(O * 0) \in Nat \ {0}
      BY <1>4, <3>1
    <3> QED BY <3>2
  <2>2. ASSUME NEW i \in Nat, i \in T PROVE i + 1 \in T
    <3>1. SUFFICES ASSUME i + 1 <= m PROVE f[i + 1] < 2^(O * (i + 1))
      OBVIOUS
    <3>2. i + 1 \in 1..m /\ i \in 0..m /\ i + 1 - 1 = i
      BY <3>1
    <3>3. PICK x \in Nat, d \in 0..(w - 1) : x = f[i] /\ d = t[i + 1] /\ f[i + 1] = x * w + d
      <4>1. f[i + 1] = f[i] * w + t[i + 1] /\ f[i] \in Nat
        BY <1>4, <3>2
      <4>2. t[i + 1] \in 0..(w - 1)
        BY <1>1, <1>2, <3>2
      <4> QED BY <4>1, <4>2
    <3>4. PICK y \in Nat : y = 2^(O * i)
      BY <1>3, PowerPositive
    <3>5. x < y
      BY <2>2, <3>2, <3>3, <3>4
    <3>6. w * x + w <= w * y
      BY <3>5, ProductGrows
    <3>7. 2^(O * (i + 1)) = y * w
      <4>1. O * (i + 1) = O * i + O /\ O * i \in Nat
        BY <1>3
      <4> QED BY <1>2, <1>3, <3>4, <4>1, PowerOfSum
    <3>8. x * w = w * x /\ y * w = w * y /\ x * w \in Nat /\ y * w \in Nat
      OBVIOUS
    <3> QED BY <3>3, <3>6, <3>7, <3>8
  <2>3. Nat \subseteq T
    <3> HIDE DEF T
    <3> QED BY <2>1, <2>2, SetInduction
  <2> QED BY <2>3
<1>6. ASSUME NEW i \in 1..m PROVE f[i] \div w = f[i - 1]
  <2>1. PICK x \in Nat, d \in 0..(w - 1) : x = f[i - 1] /\ d = t[i] /\ f[i] = x * w + d
    <3>1. i - 1 \in 0..m
      OBVIOUS
    <3> QED BY <1>1, <1>2, <1>4, <3>1
  <2>2. PICK y \in Int : y = w * x + d /\ x * w = w * x
    OBVIOUS
  <2>3. y \div w = x
    BY <2>2, QuotientIs
  <2> QED BY <2>1, <2>2, <2>3
<1>7. \A j \in Nat : j <= m => f[m] \div 2^(O * j) = f[m - j]
  <2> DEFINE T == {j \in Nat : j <= m => f[m] \div 2^(O * j) = f[m - j]}
  <2>1. 0 \in T
    <3>1. PICK y \in Int : y = f[m]
      BY <1>4
    <3>2. O * 0 = 0 /\ m - 0 = m /\ 2^0 = 1
      BY <1>1, <1>3
    <3>3. y \div 1 = y
      OBVIOUS
    <3> QED BY <3>1, <3>2, <3>3
  <2>2. ASSUME NEW j \in Nat, j \in T PROVE j + 1 \in T
    <3>1. SUFFICES ASSUME j + 1 <= m PROVE f[m] \div 2^(O * (j + 1)) = f[m - (j + 1)]
      OBVIOUS
    <3>2. PICK y \in Nat \ {0} : y = 2^(O * j)
      BY <1>3, PowerPositive
    <3>3. 2^(O * (j + 1)) = y * w
      <4>1. O * (j + 1) = O * j + O /\ O * j \in Nat
        BY <1>3
      <4> QED BY <1>2, <1>3, <3>2, <4>1, PowerOfSum
    <3>4. PICK z \in Int : z = f[m]
      BY <1>4
    <3>5. (z \div y) \div w = z \div (y * w)
      BY QuotientOfQuotient
    <3>6. z \div y = f[m - j]
      BY <2>2, <3>1, <3>2, <3>4
    <3>7. m - j \in 1..m /\ m - j - 1 = m - (j + 1)
      BY <3>1
    <3>8. f[m - j] \div w = f[m - (j + 1)]
      BY <1>6, <3>7
    <3> QED BY <3>3, <3>4, <3>5, <3>6, <3>8
  <2>3. Nat \subseteq T
    <3> HIDE DEF T
    <3> QED BY <2>1, <2>2, SetInduction
  <2> QED BY <2>3
<1>8. ASSUME NEW i \in 0..m PROVE f[m] \div 2^(O * (m - i)) = f[i]
  <2>1. m - i \in Nat /\ m - i <= m /\ m - (m - i) = i
    OBVIOUS
  <2> QED BY <1>7, <2>1
<1> QED BY <1>1, <1>5, <1>8

LEMMA DerOctets ==
  ASSUME Doubling, Der!DerAssumption, NEW k \in Nat, NEW size \in Nat
  PROVE  /\ Der!ToBytes(k, size) \in Seq(Der!OctetOf)
         /\ Len(Der!ToBytes(k, size)) = size
         /\ \A i \in 1..size : Der!ToBytes(k, size)[i] = (k \div 2^(O * (size - i))) % 2^O
<1>1. O \in Nat \ {0} /\ 2^O \in Nat \ {0}
  BY DerConstants
<1>2. ASSUME NEW i \in 1..size PROVE (k \div 2^(O * (size - i))) % 2^O \in Der!OctetOf
  <2>1. O * (size - i) \in Nat
    BY <1>1
  <2>2. k \div 2^(O * (size - i)) \in Int
    BY <2>1, PowerPositive, DivMod
  <2> QED BY <1>1, <2>2, ModRange DEF Der!OctetOf
<1> QED BY <1>2 DEF Der!ToBytes

\* What octets read as is written as those octets.
LEMMA ReadIsWritten ==
  ASSUME Doubling, Der!DerAssumption, NEW t \in Seq(Der!OctetOf)
  PROVE  /\ Der!FromBytes(t) \in Nat /\ Der!FromBytes(t) < 2^(O * Len(t))
         /\ Der!ToBytes(Der!FromBytes(t), Len(t)) = t
<1>1. PICK f : Passes(f, t) /\ Der!FromBytes(t) = f[Len(t)]
  BY FromBytesIs
<1>2. PICK m \in Nat : m = Len(t) /\ \A i \in 1..m : t[i] \in 0..(2^O - 1)
  BY LenProperties DEF Der!OctetOf
<1>3. PICK w \in Nat \ {0} : w = 2^O
  BY DerConstants
<1>4. /\ \A i \in 0..m : f[i] < 2^(O * i)
      /\ \A i \in 0..m : f[m] \div 2^(O * (m - i)) = f[i]
  BY <1>1, <1>2, PassesAreQuotients
<1>5. PICK k \in Nat : k = f[m] /\ k = Der!FromBytes(t)
  BY <1>1, <1>2 DEF Passes
<1>6. k < 2^(O * m)
  <2>1. m \in 0..m
    OBVIOUS
  <2> QED BY <1>4, <1>5, <2>1
<1>7. ASSUME NEW i \in 1..m PROVE Der!ToBytes(k, m)[i] = t[i]
  <2>1. i - 1 \in 0..m /\ i \in 0..m
    OBVIOUS
  <2>2. PICK x \in Nat, d \in 0..(w - 1) : x = f[i - 1] /\ d = t[i]
    <3>1. f[i - 1] \in Nat
      BY <1>1, <1>2, <2>1 DEF Passes
    <3> QED BY <1>2, <1>3, <3>1
  <2>3. f[i] = x * w + d
    BY <1>1, <1>2, <1>3, <2>2 DEF Passes
  <2>4. (x * w + d) % w = d
    <3>1. x * w + d = d + w * x /\ x * w + d \in Int
      OBVIOUS
    <3>2. PICK y \in Int : y = x * w + d /\ y = d + w * x
      BY <3>1
    <3>3. y \div w = x
      BY <3>1, <3>2, QuotientIs
    <3>4. y = w * (y \div w) + (y % w) /\ y % w \in Int
      BY DivMod, ModRange
    <3> QED BY <3>2, <3>3, <3>4
  <2>5. Der!ToBytes(k, m)[i] = (k \div 2^(O * (m - i))) % w
    BY <1>3, DerOctets
  <2> QED BY <1>4, <1>5, <2>1, <2>2, <2>3, <2>4, <2>5
<1>8. Der!ToBytes(k, m) = t
  <2>1. Der!ToBytes(k, m) \in Seq(Der!OctetOf) /\ Len(Der!ToBytes(k, m)) = m
    BY DerOctets
  <2> QED BY <1>2, <1>7, <2>1, SeqEqual
<1> QED BY <1>2, <1>5, <1>6, <1>8

\* What a number is written as reads as it.
LEMMA WrittenReads ==
  ASSUME Doubling, Der!DerAssumption, NEW size \in Nat, NEW k \in Nat, k < 2^(O * size)
  PROVE  Der!FromBytes(Der!ToBytes(k, size)) = k
<1>1. PICK t \in Seq(Der!OctetOf) : t = Der!ToBytes(k, size) /\ Len(t) = size
  BY DerOctets
<1>2. PICK x \in Nat : x = Der!FromBytes(t) /\ x < 2^(O * size) /\ Der!ToBytes(x, size) = t
  BY <1>1, ReadIsWritten
<1>3. O \in Nat \ {0} /\ 2^(O * size) \in Nat
  <2>1. O \in Nat \ {0}
    BY DerConstants
  <2> QED BY <2>1, PowerPositive
<1>4. ASSUME NEW i \in 1..size
      PROVE  (x \div 2^(O * (size - i))) % 2^O = (k \div 2^(O * (size - i))) % 2^O
  <2>1. Der!ToBytes(x, size)[i] = (x \div 2^(O * (size - i))) % 2^O
    BY DerOctets
  <2>2. Der!ToBytes(k, size)[i] = (k \div 2^(O * (size - i))) % 2^O
    BY DerOctets
  <2> QED BY <1>1, <1>2, <2>1, <2>2
<1>5. x \in 0..(2^(O * size) - 1) /\ k \in 0..(2^(O * size) - 1)
  BY <1>2, <1>3
<1>6. x = k
  BY <1>3, <1>4, <1>5, DigitsTell
<1> QED BY <1>1, <1>2, <1>6

\* Octets are those BIP66 asks for where they are as many as serialize writes.
LEMMA CanonicalFills ==
  ASSUME Doubling, Der!DerAssumption, NEW t \in Seq(Der!OctetOf), t # << >>
  PROVE  Der!Canonical(t) <=> Der!ScalarSize(Der!FromBytes(t)) = Len(t)
<1>1. PICK f : Passes(f, t) /\ Der!FromBytes(t) = f[Len(t)]
  BY FromBytesIs
<1>2. PICK L \in Nat \ {0} : L = Len(t) /\ \A i \in 1..L : t[i] \in 0..(2^O - 1)
  <2>1. Len(t) \in Nat /\ t \in [1..Len(t) -> Der!OctetOf]
    BY LenProperties
  <2>2. Len(t) # 0
    BY EmptySeq
  <2> QED BY <2>1, <2>2 DEF Der!OctetOf
<1>3. PICK w \in Nat \ {0}, high \in Nat \ {0} : w = 2^O /\ high = Der!HighBit /\ w = 2 * high
  BY DerConstants
<1>4. O \in Nat \ {0} /\ O > 2 /\ high = 2^(O - 1)
  BY <1>3, DerConstants DEF Der!HighBit
<1>5. PICK k \in Nat : k = f[L] /\ k = Der!FromBytes(t)
  BY <1>1, <1>2 DEF Passes
<1>6. \A i \in 0..L : k \div 2^(O * (L - i)) = f[i]
  BY <1>1, <1>2, <1>5, PassesAreQuotients
<1>7. PICK first \in 0..(w - 1) : first = t[1] /\ f[1] = first
  <2>1. f[1] = f[0] * w + t[1] /\ f[0] = 0
    <3>1. 1 \in 1..L /\ 1 - 1 = 0
      OBVIOUS
    <3> QED BY <1>1, <1>2, <1>3, <3>1 DEF Passes
  <2>2. t[1] \in 0..(w - 1)
    BY <1>2, <1>3
  <2> QED BY <2>1, <2>2
<1>8. k < 2^(O * L - 1) <=> first < high
  <2>1. PICK j \in Nat : j = L - 1
    OBVIOUS
  <2>2. O * L - 1 = O * j + (O - 1) /\ O * j \in Nat /\ O - 1 \in Nat
    BY <1>4, <2>1
  <2>3. PICK d \in Nat \ {0} : d = 2^(O * j)
    BY <2>2, PowerPositive
  <2>4. 2^(O * L - 1) = d * high
    BY <1>4, <2>2, <2>3, PowerOfSum
  <2>5. k \div d = first
    <3>1. 1 \in 0..L /\ L - 1 = j
      BY <2>1
    <3> QED BY <1>6, <1>7, <2>3, <3>1
  <2> QED BY <2>4, <2>5, QuotientBelow
<1>9. ASSUME L # 1
      PROVE  2^(O * (L - 1) - 1) <= k <=> ~(first = 0 /\ t[2] < high)
  <2>1. PICK j \in Nat : j = L - 2
    BY <1>9
  <2>2. O * (L - 1) - 1 = O * j + (O - 1) /\ O * j \in Nat /\ O - 1 \in Nat
    BY <1>4, <2>1
  <2>3. PICK d \in Nat \ {0} : d = 2^(O * j)
    BY <2>2, PowerPositive
  <2>4. 2^(O * (L - 1) - 1) = d * high
    BY <1>4, <2>2, <2>3, PowerOfSum
  <2>5. PICK second \in 0..(w - 1) : second = t[2]
    BY <1>2, <1>3, <1>9
  <2>6. k \div d = first * w + second
    <3>1. 2 \in 0..L /\ 2 \in 1..L /\ L - 2 = j /\ 2 - 1 = 1
      BY <1>9, <2>1
    <3>2. f[2] = f[1] * w + t[2]
      BY <1>1, <1>2, <1>3, <3>1 DEF Passes
    <3> QED BY <1>6, <1>7, <2>3, <2>5, <3>1, <3>2
  <2>7. k < d * high <=> first * w + second < high
    BY <2>6, QuotientBelow
  <2>8. first * w + second < high <=> first = 0 /\ second < high
    <3>1. CASE first = 0
      BY <2>5, <3>1
    <3>2. CASE first # 0
      <4>1. w * 0 + w <= w * first
        BY <3>2, ProductGrows
      <4>2. first * w = w * first /\ first * w \in Nat /\ w * 0 = 0
        OBVIOUS
      <4> QED BY <1>3, <3>2, <4>1, <4>2
    <3> QED BY <3>1, <3>2
  <2>9. d * high \in Nat
    OBVIOUS
  <2> QED BY <2>4, <2>5, <2>7, <2>8, <2>9
<1>10. Der!Canonical(t) <=> Fills(k, L)
  <2>1. CASE L = 1
    BY <1>2, <1>3, <1>7, <1>8, <2>1 DEF Der!Canonical, Fills
  <2>2. CASE L # 1
    <3>1. L > 1
      BY <2>2
    <3> QED BY <1>2, <1>3, <1>7, <1>8, <1>9, <2>2, <3>1 DEF Der!Canonical, Fills
  <2> QED BY <2>1, <2>2
<1>11. Fills(k, L) <=> Der!ScalarSize(k) = L
  <2>1. Fills(k, L) => Der!ScalarSize(k) = L
    BY FillsOne
  <2>2. Der!ScalarSize(k) = L => Fills(k, L)
    BY SizeIsFilled
  <2> QED BY <2>1, <2>2
<1> QED BY <1>2, <1>5, <1>10, <1>11

\* Zeros in front of a number are octets of it.
LEMMA ZerosInFront ==
  ASSUME Doubling, Der!DerAssumption, NEW size \in Nat, NEW k \in Nat, k < 2^(O * size),
         NEW pad \in Nat
  PROVE  Der!Zeros(pad) \o Der!ToBytes(k, size) = Der!ToBytes(k, pad + size)
<1>1. O \in Nat \ {0}
  BY DerConstants
<1>2. PICK u \in Seq(Der!OctetOf) : u = Der!Zeros(pad) /\ Len(u) = pad /\ \A i \in 1..pad : u[i] = 0
  <2>1. 0 \in Der!OctetOf
    BY DerConstants DEF Der!OctetOf
  <2>2. Der!Zeros(pad) \in Seq(Der!OctetOf) /\ Len(Der!Zeros(pad)) = pad
    BY <2>1 DEF Der!Zeros
  <2>3. \A i \in 1..pad : Der!Zeros(pad)[i] = 0
    BY DEF Der!Zeros
  <2> QED BY <2>2, <2>3
<1>3. PICK v \in Seq(Der!OctetOf) : v = Der!ToBytes(k, size) /\ Len(v) = size
  BY DerOctets
<1>4. PICK m \in Nat : m = pad + size
  OBVIOUS
<1>5. PICK t \in Seq(Der!OctetOf) : t = Der!ToBytes(k, m) /\ Len(t) = m
  BY DerOctets
<1>6. /\ u \o v \in Seq(Der!OctetOf) /\ Len(u \o v) = m
      /\ \A i \in 1..m : (u \o v)[i] = IF i <= pad THEN u[i] ELSE v[i - pad]
  <2>1. u \o v \in Seq(Der!OctetOf) /\ Len(u \o v) = Len(u) + Len(v)
    BY ConcatProperties
  <2>2. \A i \in 1..(Len(u) + Len(v)) : (u \o v)[i] = IF i <= Len(u) THEN u[i] ELSE v[i - Len(u)]
    BY ConcatProperties
  <2> QED BY <1>2, <1>3, <1>4, <2>1, <2>2
<1>7. ASSUME NEW i \in 1..m PROVE (u \o v)[i] = t[i]
  <2>1. t[i] = (k \div 2^(O * (m - i))) % 2^O
    BY <1>5, DerOctets
  <2>2. CASE i <= pad
    <3>1. m - i \in Nat /\ size <= m - i
      BY <1>4, <2>2
    <3>2. O * size \in Nat /\ O * (m - i) \in Nat /\ O * size <= O * (m - i)
      <4>1. CASE size = m - i
        BY <1>1, <4>1
      <4>2. CASE size < m - i
        <5>1. O * size + O <= O * (m - i)
          BY <1>1, <3>1, <4>2, ProductGrows
        <5> QED BY <1>1, <3>1, <5>1
      <4> QED BY <3>1, <4>1, <4>2
    <3>3. PICK d \in Nat \ {0} : d = 2^(O * (m - i))
      BY <3>2, PowerPositive
    <3>4. k < d
      <4>1. 2^(O * size) <= d /\ 2^(O * size) \in Nat
        BY <3>2, <3>3, PowersGrow, PowerPositive
      <4> QED BY <4>1
    <3>5. k \div d = 0
      <4>1. k \in 0..(d - 1)
        BY <3>4
      <4> QED BY <4>1, SmallQuotient
    <3>6. 0 % 2^O = 0
      <4>1. PICK w \in Nat \ {0} : w = 2^O
        BY DerConstants
      <4>2. 0 % w = 0
        OBVIOUS
      <4> QED BY <4>1, <4>2
    <3> QED BY <1>2, <1>6, <2>1, <2>2, <3>3, <3>5, <3>6
  <2>3. CASE ~(i <= pad)
    <3>1. i - pad \in 1..size /\ size - (i - pad) = m - i
      BY <1>4, <2>3
    <3>2. v[i - pad] = (k \div 2^(O * (m - i))) % 2^O
      <4>1. PICK j \in 1..size : j = i - pad /\ size - j = m - i
        BY <3>1
      <4>2. v[j] = (k \div 2^(O * (size - j))) % 2^O
        BY <1>3, DerOctets
      <4> QED BY <4>1, <4>2
    <3>3. (u \o v)[i] = v[i - pad]
      <4>1. PICK y : y = u \o v
        OBVIOUS
      <4>2. y[i] = IF i <= pad THEN u[i] ELSE v[i - pad]
        BY <1>6, <4>1
      <4> QED BY <2>3, <4>1, <4>2
    <3> QED BY <2>1, <3>2, <3>3, Zenon
  <2> QED BY <2>2, <2>3
<1>8. u \o v = t
  BY <1>5, <1>6, <1>7, SeqEqual
<1> QED BY <1>2, <1>3, <1>4, <1>5, <1>8

\* Three sequences are joined alike in either order.
Associated(u, v, w) == (u \o v) \o w = u \o (v \o w)

LEMMA JoinsAssociate ==
  ASSUME NEW X, NEW u \in Seq(X), NEW v \in Seq(X), NEW w \in Seq(X)
  PROVE  Associated(u, v, w)
  BY Regrouped DEF Associated

\* A sequence is joined of what a cut leaves of it.
LEMMA CutsJoin ==
  ASSUME NEW X, NEW t \in Seq(X), NEW k \in Nat, k <= Len(t)
  PROVE  /\ SubSeq(t, 1, k) \in Seq(X) /\ Len(SubSeq(t, 1, k)) = k
         /\ Der!Rest(t, k) \in Seq(X) /\ Len(Der!Rest(t, k)) = Len(t) - k
         /\ SubSeq(t, 1, k) \o Der!Rest(t, k) = t
<1>1. PICK m \in Nat : m = Len(t) /\ \A i \in 1..m : t[i] \in X
  BY LenProperties
<1>2. PICK u \in Seq(X) : u = SubSeq(t, 1, k) /\ Len(u) = k /\ \A i \in 1..k : u[i] = t[i]
  <2>1. \A i \in 1..k : t[i] \in X
    BY <1>1
  <2>2. /\ SubSeq(t, 1, k) \in Seq(X)
        /\ Len(SubSeq(t, 1, k)) = IF 1 <= k THEN k - 1 + 1 ELSE 0
        /\ \A i \in 1..(k - 1 + 1) : SubSeq(t, 1, k)[i] = t[1 + i - 1]
    BY <2>1, SubSeqProperties
  <2>3. Len(SubSeq(t, 1, k)) = k
    BY <2>2
  <2>4. ASSUME NEW i \in 1..k PROVE SubSeq(t, 1, k)[i] = t[i]
    <3>1. i \in 1..(k - 1 + 1) /\ 1 + i - 1 = i
      OBVIOUS
    <3> QED BY <2>2, <3>1
  <2> QED BY <2>2, <2>3, <2>4
<1>3. PICK v \in Seq(X) :
        v = SubSeq(t, k + 1, m) /\ Len(v) = m - k /\ \A i \in 1..(m - k) : v[i] = t[k + i]
  <2>1. PICK a \in Int : a = k + 1
    OBVIOUS
  <2>2. \A i \in a..m : t[i] \in X
    BY <1>1, <2>1
  <2>3. /\ SubSeq(t, a, m) \in Seq(X)
        /\ Len(SubSeq(t, a, m)) = IF a <= m THEN m - a + 1 ELSE 0
        /\ \A i \in 1..(m - a + 1) : SubSeq(t, a, m)[i] = t[a + i - 1]
    BY <2>2, SubSeqProperties
  <2>4. Len(SubSeq(t, a, m)) = m - k
    BY <1>1, <2>1, <2>3
  <2>5. ASSUME NEW i \in 1..(m - k) PROVE SubSeq(t, a, m)[i] = t[k + i]
    <3>1. i \in 1..(m - a + 1) /\ a + i - 1 = k + i
      BY <2>1
    <3> QED BY <2>3, <3>1
  <2> QED BY <2>1, <2>3, <2>4, <2>5
<1>4. /\ u \o v \in Seq(X) /\ Len(u \o v) = m
      /\ \A i \in 1..m : (u \o v)[i] = IF i <= k THEN u[i] ELSE v[i - k]
  <2>1. u \o v \in Seq(X) /\ Len(u \o v) = Len(u) + Len(v)
    BY ConcatProperties
  <2>2. \A i \in 1..(Len(u) + Len(v)) : (u \o v)[i] = IF i <= Len(u) THEN u[i] ELSE v[i - Len(u)]
    BY ConcatProperties
  <2>3. Len(u) = k /\ Len(v) = m - k /\ Len(u) + Len(v) = m
    <3>1. Len(u) = k /\ Len(v) = m - k
      BY <1>2, <1>3, Zenon
    <3> QED BY <3>1
  <2> QED BY <2>1, <2>2, <2>3
<1>5. ASSUME NEW i \in 1..m PROVE (u \o v)[i] = t[i]
  <2>1. CASE i <= k
    BY <1>2, <1>4, <2>1
  <2>2. CASE ~(i <= k)
    <3>1. i - k \in 1..(m - k) /\ k + (i - k) = i
      BY <2>2
    <3> QED BY <1>3, <1>4, <2>2, <3>1
  <2> QED BY <2>1, <2>2
<1>6. u \o v = t
  BY <1>1, <1>4, <1>5, SeqEqual
<1> QED BY <1>1, <1>2, <1>3, <1>6 DEF Der!Rest

\* A cut where two sequences were joined gives them back.
LEMMA JoinCuts ==
  ASSUME NEW X, NEW u \in Seq(X), NEW v \in Seq(X)
  PROVE  /\ u \o v \in Seq(X) /\ Len(u \o v) = Len(u) + Len(v)
         /\ SubSeq(u \o v, 1, Len(u)) = u /\ Der!Rest(u \o v, Len(u)) = v
<1>1. PICK k \in Nat, m \in Nat : k = Len(u) /\ m = Len(v)
  BY LenProperties
<1>2. PICK t \in Seq(X) : t = u \o v /\ Len(t) = k + m
  <2>1. u \o v \in Seq(X) /\ Len(u \o v) = Len(u) + Len(v)
    BY ConcatProperties
  <2> QED BY <1>1, <2>1
<1>3. k <= Len(t)
  BY <1>1, <1>2
<1>4. PICK u1 \in Seq(X), v1 \in Seq(X) :
        u1 = SubSeq(t, 1, k) /\ Len(u1) = k /\ v1 = Der!Rest(t, k) /\ u1 \o v1 = t
  <2>1. /\ SubSeq(t, 1, k) \in Seq(X) /\ Len(SubSeq(t, 1, k)) = k
        /\ Der!Rest(t, k) \in Seq(X) /\ SubSeq(t, 1, k) \o Der!Rest(t, k) = t
    BY <1>3, CutsJoin
  <2> QED BY <2>1
<1>5. u1 = u /\ v1 = v
  <2>1. Len(u1) = Len(u) /\ u1 \o v1 = u \o v
    BY <1>1, <1>2, <1>4
  <2> QED BY <2>1, SameParts
<1> QED BY <1>1, <1>2, <1>4, <1>5

\* The first octet and the others.
LEMMA FirstCut ==
  ASSUME NEW X, NEW x \in X, NEW t \in Seq(X)
  PROVE  /\ <<x>> \o t \in Seq(X) /\ <<x>> \o t # << >> /\ Len(<<x>> \o t) = Len(t) + 1
         /\ (<<x>> \o t)[1] = x /\ Der!Rest(<<x>> \o t, 1) = t
<1>1. PICK u \in Seq(X) : u = <<x>> /\ Len(u) = 1 /\ u[1] = x
  <2>1. <<x>> \in Seq(X) /\ Len(<<x>>) = 1 /\ <<x>>[1] = x
    OBVIOUS
  <2> QED BY <2>1
<1>2. Len(t) \in Nat
  BY LenProperties
<1>3. /\ u \o t \in Seq(X) /\ Len(u \o t) = Len(u) + Len(t) /\ Der!Rest(u \o t, Len(u)) = t
  BY JoinCuts
<1>4. \A i \in 1..(Len(u) + Len(t)) : (u \o t)[i] = IF i <= Len(u) THEN u[i] ELSE t[i - Len(u)]
  BY ConcatProperties
<1>5. (u \o t)[1] = x
  BY <1>1, <1>2, <1>4
<1>6. u \o t # << >>
  <2>1. Len(u \o t) # 0
    BY <1>1, <1>2, <1>3
  <2> QED BY <2>1, EmptySeq
<1> QED BY <1>1, <1>2, <1>3, <1>5, <1>6

LEMMA FirstJoined ==
  ASSUME NEW X, NEW t \in Seq(X), t # << >>
  PROVE  t[1] \in X /\ Der!Rest(t, 1) \in Seq(X) /\ t = <<t[1]>> \o Der!Rest(t, 1)
<1>1. PICK m \in Nat \ {0} : m = Len(t) /\ \A i \in 1..m : t[i] \in X
  <2>1. Len(t) \in Nat \ {0}
    BY EmptySeq
  <2>2. t \in [1..Len(t) -> X]
    BY LenProperties
  <2> QED BY <2>1, <2>2
<1>2. PICK u \in Seq(X), v \in Seq(X) :
        u = SubSeq(t, 1, 1) /\ Len(u) = 1 /\ v = Der!Rest(t, 1) /\ u \o v = t
  <2>1. PICK k \in Nat : k = 1 /\ k <= Len(t)
    BY <1>1
  <2>2. /\ SubSeq(t, 1, k) \in Seq(X) /\ Len(SubSeq(t, 1, k)) = k
        /\ Der!Rest(t, k) \in Seq(X) /\ SubSeq(t, 1, k) \o Der!Rest(t, k) = t
    BY <2>1, CutsJoin
  <2> QED BY <2>1, <2>2
<1>3. u[1] = t[1]
  <2>1. \A i \in 1..(Len(u) + Len(v)) : (u \o v)[i] = IF i <= Len(u) THEN u[i] ELSE v[i - Len(u)]
    BY ConcatProperties
  <2>2. Len(v) \in Nat
    BY LenProperties
  <2> QED BY <1>2, <2>1, <2>2
<1>4. u = <<t[1]>>
  <2>1. PICK y \in Seq(X) : y = <<t[1]>> /\ Len(y) = 1 /\ y[1] = t[1]
    <3>1. t[1] \in X
      BY <1>1
    <3>2. <<t[1]>> \in Seq(X) /\ Len(<<t[1]>>) = 1 /\ <<t[1]>>[1] = t[1]
      BY <3>1
    <3> QED BY <3>2
  <2>2. \A i \in 1..Len(u) : u[i] = y[i]
    BY <1>2, <1>3, <2>1
  <2> QED BY <1>2, <2>1, <2>2, SeqEqual
<1> QED BY <1>1, <1>2, <1>4

-----------------------------------------------------------------------------
\* Whatever is below the prefixes is one octet; an octet is a number.
LEMMA OctetRange ==
  ASSUME Doubling, Der!DerAssumption
  PROVE  /\ \A k \in Der!OctetOf : k \in Nat
         /\ \A k \in Nat : k < 2^O - 3 => k \in Der!OctetOf
         /\ \A k \in Nat : k < Der!HighBit => k < 2^O - 3
<1>1. PICK w \in Nat, high \in Nat : w = 2^O /\ high = Der!HighBit /\ high <= w - 3
  BY DerConstants
<1>2. Der!OctetOf = 0..(w - 1)
  BY <1>1 DEF Der!OctetOf
<1> QED BY <1>1, <1>2

\* The highest bit of a size in one octet is free: no prefix is a wide one.
LEMMA ShortIsNotWide ==
  ASSUME Doubling, Der!DerAssumption, NEW k \in Nat, k < 2^O - 3
  PROVE  Der!Wide(k) = {}
<1>1. PICK w \in Nat : w = 2^O
  BY DerConstants
<1>2. k # w - 3 /\ k # w - 2 /\ k # w - 1
  BY <1>1
<1> QED BY <1>1, <1>2 DEF Der!Wide

LEMMA ShortSize ==
  ASSUME Doubling, Der!DerAssumption, NEW t \in Seq(Der!OctetOf), t # << >>,
         NEW b \in BOOLEAN, t[1] < 2^O - 3, b => t[1] < Der!HighBit
  PROVE  Der!ParseDerSize(t, b) = IF t[1] <= MaxSize THEN {<<t[1], Der!Rest(t, 1)>>} ELSE {}
<1>1. PICK k \in Nat : k = t[1]
  <2>1. t[1] \in Der!OctetOf
    BY FirstJoined
  <2> QED BY <2>1, OctetRange
<1>2. Der!Wide(t[1]) = {}
  BY <1>1, ShortIsNotWide
<1>3. ~(b /\ t[1] >= Der!HighBit)
  BY <1>1, DerConstants
<1>4. Der!ParseDerSize(t, b) = {x \in {<<t[1], Der!Rest(t, 1)>>} : x[1] <= MaxSize}
  BY <1>2, <1>3 DEF Der!ParseDerSize
<1> QED BY <1>4

\* What is read strictly begins with its size, in one octet.
LEMMA StrictSizes ==
  ASSUME Doubling, Der!DerAssumption, NEW t \in Seq(Der!OctetOf),
         NEW x \in Der!ParseDerSize(t, TRUE)
  PROVE  t # << >> /\ t[1] < Der!HighBit /\ x = <<t[1], Der!Rest(t, 1)>>
<1>1. t # << >> /\ ~(t[1] >= Der!HighBit)
  BY DEF Der!ParseDerSize
<1>2. t[1] \in Nat /\ t[1] < Der!HighBit /\ t[1] < 2^O - 3
  <2>1. t[1] \in Der!OctetOf
    BY <1>1, FirstJoined
  <2>2. t[1] \in Nat /\ Der!HighBit \in Nat
    BY <2>1, OctetRange, DerConstants
  <2>3. t[1] < Der!HighBit
    BY <1>1, <2>2
  <2> QED BY <2>2, <2>3, OctetRange
<1>3. Der!ParseDerSize(t, TRUE) = IF t[1] <= MaxSize THEN {<<t[1], Der!Rest(t, 1)>>} ELSE {}
  BY <1>1, <1>2, ShortSize
<1> QED BY <1>1, <1>2, <1>3

LEMMA StrictValues ==
  ASSUME Doubling, Der!DerAssumption, NEW t \in Seq(Der!OctetOf),
         NEW x \in Der!ParseDerValue(t, TRUE)
  PROVE  \E v \in Seq(Der!OctetOf), rest \in Seq(Der!OctetOf) :
           /\ x = <<v, rest>> /\ v # << >> /\ Len(v) < Der!HighBit
           /\ t = (<<Len(v)>> \o v) \o rest
<1>1. PICK y \in Der!ParseDerSize(t, TRUE) :
        /\ y[1] > 0 /\ y[1] <= Len(y[2])
        /\ x = <<SubSeq(y[2], 1, y[1]), Der!Rest(y[2], y[1])>>
  BY DEF Der!ParseDerValue
<1>2. t # << >> /\ t[1] < Der!HighBit /\ y = <<t[1], Der!Rest(t, 1)>>
  BY StrictSizes
<1>3. PICK k \in Nat, u \in Seq(Der!OctetOf) :
        k = t[1] /\ u = Der!Rest(t, 1) /\ t = <<k>> \o u /\ k \in Der!OctetOf
  <2>1. t[1] \in Der!OctetOf /\ Der!Rest(t, 1) \in Seq(Der!OctetOf) /\ t = <<t[1]>> \o Der!Rest(t, 1)
    BY <1>2, FirstJoined
  <2> QED BY <2>1, OctetRange
<1>4. k > 0 /\ k <= Len(u) /\ x = <<SubSeq(u, 1, k), Der!Rest(u, k)>>
  BY <1>1, <1>2, <1>3
<1>5. PICK v \in Seq(Der!OctetOf), rest \in Seq(Der!OctetOf) :
        v = SubSeq(u, 1, k) /\ Len(v) = k /\ rest = Der!Rest(u, k) /\ u = v \o rest
  <2>1. /\ SubSeq(u, 1, k) \in Seq(Der!OctetOf) /\ Len(SubSeq(u, 1, k)) = k
        /\ Der!Rest(u, k) \in Seq(Der!OctetOf) /\ SubSeq(u, 1, k) \o Der!Rest(u, k) = u
    BY <1>4, CutsJoin
  <2> QED BY <2>1
<1>6. <<k>> \in Seq(Der!OctetOf)
  BY <1>3
<1>7. <<k>> \o (v \o rest) = (<<k>> \o v) \o rest
  <2>1. PICK c \in Seq(Der!OctetOf) : c = <<k>>
    BY <1>6
  <2>2. Associated(c, v, rest)
    BY JoinsAssociate
  <2> QED BY <2>1, <2>2 DEF Associated
<1>8. v # << >>
  <2>1. Len(v) # 0
    BY <1>4, <1>5
  <2>2. Len(<< >>) = 0
    OBVIOUS
  <2> QED BY <2>1, <2>2
<1> QED BY <1>2, <1>3, <1>4, <1>5, <1>7, <1>8

\* One answer and no other.
Only(S, x) == S = {x}

\* A value that follows its size is read.
LEMMA ValueIsRead ==
  ASSUME NEW X, NEW v \in Seq(X), NEW rest \in Seq(X), v # << >>, NEW t, NEW b,
         Only(Der!ParseDerSize(t, b), <<Len(v), v \o rest>>)
  PROVE  Only(Der!ParseDerValue(t, b), <<v, rest>>)
<1>1. PICK k \in Nat \ {0} : k = Len(v)
  BY EmptySeq
<1>2. PICK u : /\ u = v \o rest /\ Len(u) = k + Len(rest)
               /\ SubSeq(u, 1, k) = v /\ Der!Rest(u, k) = rest
  BY <1>1, JoinCuts
<1>3. k <= Len(u) /\ k > 0
  <2>1. Len(rest) \in Nat
    BY LenProperties
  <2> QED BY <1>1, <1>2, <2>1
<1>4. Der!ParseDerSize(t, b) = {<<k, u>>}
  BY <1>1, <1>2 DEF Only
<1>5. {y \in {<<k, u>>} : y[1] > 0 /\ y[1] <= Len(y[2])} = {<<k, u>>}
  BY <1>3
<1>6. Der!ParseDerValue(t, b) = {<<SubSeq(y[2], 1, y[1]), Der!Rest(y[2], y[1])>> : y \in {<<k, u>>}}
  BY <1>4, <1>5 DEF Der!ParseDerValue
<1>7. Der!ParseDerValue(t, b) = {<<SubSeq(u, 1, k), Der!Rest(u, k)>>}
  BY <1>6
<1> QED BY <1>2, <1>7 DEF Only

LEMMA ShortValue ==
  ASSUME Doubling, Der!DerAssumption, NEW b, b \in BOOLEAN,
         NEW v \in Seq(Der!OctetOf), NEW rest \in Seq(Der!OctetOf), v # << >>,
         Len(v) < Der!HighBit, Len(v) <= MaxSize
  PROVE  Only(Der!ParseDerValue((<<Len(v)>> \o v) \o rest, b), <<v, rest>>)
<1>1. PICK k \in Nat : k = Len(v) /\ k < 2^O - 3 /\ k \in Der!OctetOf
  <2>1. Len(v) \in Nat
    BY LenProperties
  <2> QED BY <2>1, OctetRange
<1>2. PICK u \in Seq(Der!OctetOf) : u = v \o rest
  BY JoinCuts
<1>3. PICK t \in Seq(Der!OctetOf) :
        t = <<k>> \o u /\ t # << >> /\ t[1] = k /\ Der!Rest(t, 1) = u
  BY <1>1, FirstCut
<1>4. t = (<<k>> \o v) \o rest
  <2>1. <<k>> \in Seq(Der!OctetOf)
    BY <1>1
  <2>2. PICK c \in Seq(Der!OctetOf) : c = <<k>>
    BY <2>1
  <2>3. Associated(c, v, rest)
    BY JoinsAssociate
  <2> QED BY <1>2, <1>3, <2>2, <2>3 DEF Associated
<1>5. Der!ParseDerSize(t, b) = {<<k, u>>}
  <2>1. t[1] < 2^O - 3 /\ t[1] < Der!HighBit /\ t[1] <= MaxSize
    BY <1>1, <1>3
  <2>2. Der!ParseDerSize(t, b) = IF t[1] <= MaxSize THEN {<<t[1], Der!Rest(t, 1)>>} ELSE {}
    BY <1>3, <2>1, ShortSize
  <2> QED BY <1>3, <2>1, <2>2
<1>6. Only(Der!ParseDerValue(t, b), <<v, rest>>)
  <2>1. Only(Der!ParseDerSize(t, b), <<Len(v), v \o rest>>)
    BY <1>1, <1>2, <1>5 DEF Only
  <2>2. v # << >>
    OBVIOUS
  <2> QED BY <2>1, <2>2, ValueIsRead
<1> QED BY <1>1, <1>4, <1>6

LEMMA OnePair ==
  ASSUME NEW y, NEW B, NEW p, p \in {y} \X B
  PROVE  \E z \in B : p = <<y, z>>
  OBVIOUS

LEMMA Halves ==
  ASSUME NEW y, NEW z, NEW p, p = <<y, z>>
  PROVE  p[1] = y /\ p[2] = z
  OBVIOUS

\* A scalar whose size is one octet: the marker, the size and the octets.
LEMMA ScalarSpelled ==
  ASSUME Doubling, Der!DerAssumption, NEW k \in Nat, NEW L \in Nat,
         L = Der!ScalarSize(k), L < Der!HighBit, NEW rest \in Seq(Der!OctetOf)
  PROVE  /\ Der!ToBytes(k, L) \in Seq(Der!OctetOf) /\ Len(Der!ToBytes(k, L)) = L
         /\ Der!SerializeScalar(k) \in Seq(Der!OctetOf)
         /\ Len(Der!SerializeScalar(k)) = 2 + L
         /\ Der!SerializeScalar(k) \o rest
              = <<ScalarMarker>> \o ((<<L>> \o Der!ToBytes(k, L)) \o rest)
<1>1. PICK v \in Seq(Der!OctetOf) : v = Der!ToBytes(k, L) /\ Len(v) = L
  <2>1. Der!ToBytes(k, L) \in Seq(Der!OctetOf) /\ Len(Der!ToBytes(k, L)) = L
    BY DerOctets
  <2> QED BY <2>1
<1>2. L \in Der!OctetOf /\ ScalarMarker \in Der!OctetOf
  BY OctetRange, DerConstants
<1>3. PICK a \in Seq(Der!OctetOf), c \in Seq(Der!OctetOf) :
        a = <<ScalarMarker>> /\ c = <<L>> /\ Len(a) = 1 /\ Len(c) = 1
  <2>1. <<ScalarMarker>> \in Seq(Der!OctetOf) /\ <<L>> \in Seq(Der!OctetOf)
    BY <1>2
  <2>2. Len(<<ScalarMarker>>) = 1 /\ Len(<<L>>) = 1
    OBVIOUS
  <2> QED BY <2>1, <2>2
<1>4. Der!DerLength(L) = c
  BY <1>3 DEF Der!DerLength
<1>5. Der!SerializeScalar(k) = (a \o c) \o v
  BY <1>1, <1>3, <1>4 DEF Der!SerializeScalar
<1>6. /\ (a \o c) \in Seq(Der!OctetOf) /\ Len(a \o c) = Len(a) + Len(c)
      /\ c \o v \in Seq(Der!OctetOf)
  BY JoinCuts
<1>7. (a \o c) \o v \in Seq(Der!OctetOf) /\ Len((a \o c) \o v) = Len(a \o c) + Len(v)
  BY <1>6, JoinCuts
<1>8. ((a \o c) \o v) \o rest = a \o ((c \o v) \o rest)
  <2>1. Associated(a, c, v)
    BY JoinsAssociate
  <2>2. PICK x \in Seq(Der!OctetOf) : x = c \o v
    BY <1>6
  <2>3. Associated(a, x, rest)
    BY JoinsAssociate
  <2> QED BY <2>1, <2>2, <2>3 DEF Associated
<1> QED BY <1>1, <1>3, <1>5, <1>6, <1>7, <1>8

LEMMA StrictScalars ==
  ASSUME Doubling, Der!DerAssumption, NEW t \in Seq(Der!OctetOf),
         NEW x \in Der!DeserializeScalar(t, TRUE)
  PROVE  \E k \in Nat, rest \in Seq(Der!OctetOf) :
           /\ x = <<k, rest>> /\ t = Der!SerializeScalar(k) \o rest
           /\ Der!SerializeScalar(k) \in Seq(Der!OctetOf)
<1>1. t # << >> /\ t[1] = ScalarMarker
  BY DEF Der!DeserializeScalar
<1>2. PICK y \in Der!ParseDerValue(Der!Rest(t, 1), TRUE) :
        Der!Canonical(y[1]) /\ x = <<Der!FromBytes(y[1]), y[2]>>
  BY <1>1 DEF Der!DeserializeScalar
<1>3. PICK u \in Seq(Der!OctetOf) : u = Der!Rest(t, 1) /\ t = <<ScalarMarker>> \o u
  <2>1. Der!Rest(t, 1) \in Seq(Der!OctetOf) /\ t = <<t[1]>> \o Der!Rest(t, 1)
    BY <1>1, FirstJoined
  <2> QED BY <1>1, <2>1
<1>4. PICK v \in Seq(Der!OctetOf), rest \in Seq(Der!OctetOf) :
        /\ y = <<v, rest>> /\ v # << >> /\ Len(v) < Der!HighBit
        /\ u = (<<Len(v)>> \o v) \o rest
  BY <1>2, <1>3, StrictValues
<1>5. Der!Canonical(v) /\ x = <<Der!FromBytes(v), rest>>
  BY <1>2, <1>4
<1>6. PICK k \in Nat : k = Der!FromBytes(v) /\ Der!ToBytes(k, Len(v)) = v
  BY ReadIsWritten
<1>7. PICK L \in Nat : L = Len(v)
  BY LenProperties
<1>8. L = Der!ScalarSize(k)
  BY <1>4, <1>5, <1>6, <1>7, CanonicalFills
<1>9. /\ Der!SerializeScalar(k) \in Seq(Der!OctetOf)
      /\ Der!SerializeScalar(k) \o rest
           = <<ScalarMarker>> \o ((<<L>> \o Der!ToBytes(k, L)) \o rest)
  BY <1>4, <1>7, <1>8, ScalarSpelled
<1>10. t = Der!SerializeScalar(k) \o rest
  BY <1>3, <1>4, <1>6, <1>7, <1>9
<1> QED BY <1>5, <1>6, <1>9, <1>10

\* A scalar whose value is read, and is canonical where it is to be, is read.
LEMMA ScalarIsRead ==
  ASSUME Doubling, Der!DerAssumption, NEW w \in Seq(Der!OctetOf), NEW v, NEW rest, NEW b \in BOOLEAN,
         Only(Der!ParseDerValue(w, b), <<v, rest>>), b => Der!Canonical(v)
  PROVE  Only(Der!DeserializeScalar(<<ScalarMarker>> \o w, b), <<Der!FromBytes(v), rest>>)
<1>1. PICK t : /\ t = <<ScalarMarker>> \o w /\ t # << >> /\ t[1] = ScalarMarker
               /\ Der!Rest(t, 1) = w
  <2>1. ScalarMarker \in Der!OctetOf
    BY DerConstants
  <2> QED BY <2>1, FirstCut
<1>2. Der!ParseDerValue(w, b) = {<<v, rest>>}
  BY DEF Only
<1>3. {y \in Der!ParseDerValue(Der!Rest(t, 1), b) : b => Der!Canonical(y[1])} = {<<v, rest>>}
  BY <1>1, <1>2
<1>4. Der!DeserializeScalar(t, b) = {<<Der!FromBytes(y[1]), y[2]>> : y \in {<<v, rest>>}}
  BY <1>1, <1>3 DEF Der!DeserializeScalar
<1>5. Der!DeserializeScalar(t, b) = {<<Der!FromBytes(v), rest>>}
  BY <1>4
<1> QED BY <1>1, <1>5 DEF Only

LEMMA FillsBelow ==
  ASSUME Doubling, Der!DerAssumption, NEW k \in Nat, NEW L \in Nat \ {0}, Fills(k, L)
  PROVE  k < 2^(O * L)
<1>1. O * L \in Nat /\ O * L - 1 \in Nat
  <2>1. PICK b \in Nat : b = O /\ b > 2
    BY DerConstants
  <2>2. b * 0 + b <= b * L
    BY <2>1, ProductGrows
  <2>3. b * L \in Nat /\ b * 0 = 0
    BY <2>1
  <2> QED BY <2>1, <2>2, <2>3
<1>2. 2^(O * L - 1) <= 2^(O * L) /\ 2^(O * L - 1) \in Nat /\ 2^(O * L) \in Nat
  BY <1>1, PowersGrow, PowerPositive
<1>3. k < 2^(O * L - 1)
  BY DEF Fills
<1> QED BY <1>2, <1>3

LEMMA WrittenScalar ==
  ASSUME Doubling, Der!DerAssumption, NEW k \in 0..n, NEW rest \in Seq(Der!OctetOf),
         NEW b \in BOOLEAN
  PROVE  Only(Der!DeserializeScalar(Der!SerializeScalar(k) \o rest, b), <<k, rest>>)
<1>1. PICK L \in Nat \ {0} : /\ L = Der!ScalarSize(k) /\ L < Der!HighBit /\ L <= MaxSize
                             /\ Fills(k, L) /\ k \in Nat
  <2>1. k \in Nat
    BY DerConstants
  <2>2. PICK L \in Nat \ {0} : L = Der!ScalarSize(k) /\ Fills(k, L)
    BY <2>1, SizeIsFilled
  <2>3. 2 * (2 + L) <= Der!MaxSigDataSize
    BY <2>2, ScalarsFit
  <2>4. L < Der!HighBit /\ L <= MaxSize
    BY <2>3, DerConstants
  <2> QED BY <2>1, <2>2, <2>4
<1>2. PICK v \in Seq(Der!OctetOf) :
        /\ v = Der!ToBytes(k, L) /\ Len(v) = L
        /\ Der!SerializeScalar(k) \o rest = <<ScalarMarker>> \o ((<<L>> \o v) \o rest)
  BY <1>1, ScalarSpelled
<1>3. v # << >>
  <2>1. Len(<< >>) = 0
    OBVIOUS
  <2> QED BY <1>2, <2>1
<1>4. Der!FromBytes(v) = k
  <2>1. k < 2^(O * L)
    BY <1>1, FillsBelow
  <2> QED BY <1>1, <1>2, <2>1, WrittenReads
<1>5. Der!Canonical(v)
  BY <1>1, <1>2, <1>3, <1>4, CanonicalFills
<1>6. PICK w \in Seq(Der!OctetOf) : w = (<<L>> \o v) \o rest
  <2>1. L \in Der!OctetOf
    BY <1>1, OctetRange
  <2>2. <<L>> \o v \in Seq(Der!OctetOf)
    BY <2>1, FirstCut
  <2>3. (<<L>> \o v) \o rest \in Seq(Der!OctetOf)
    BY <2>2, JoinCuts
  <2> QED BY <2>3
<1>7. Only(Der!ParseDerValue(w, b), <<v, rest>>)
  <2>1. Len(v) < Der!HighBit /\ Len(v) <= MaxSize
    BY <1>1, <1>2
  <2>2. Only(Der!ParseDerValue((<<Len(v)>> \o v) \o rest, b), <<v, rest>>)
    BY <1>3, <2>1, ShortValue
  <2> QED BY <1>2, <1>6, <2>2
<1>8. Only(Der!DeserializeScalar(<<ScalarMarker>> \o w, b), <<Der!FromBytes(v), rest>>)
  BY <1>5, <1>7, ScalarIsRead
<1> QED BY <1>2, <1>4, <1>6, <1>8

-----------------------------------------------------------------------------
\* Two scalars and nothing else are read as a body.
LEMMA TwoScalars ==
  ASSUME NEW t, NEW b, NEW k, NEW u, NEW l,
         Only(Der!DeserializeScalar(t, b), <<k, u>>),
         Only(Der!DeserializeScalar(u, b), <<l, << >>>>)
  PROVE  Only(Der!Scalars(t, b), [r |-> k, s |-> l])
<1> DEFINE first  == <<k, u>>
           second == <<l, << >>>>
           P == UNION {{x} \X Der!DeserializeScalar(x[2], b) : x \in Der!DeserializeScalar(t, b)}
<1>1. Der!DeserializeScalar(t, b) = {first} /\ Der!DeserializeScalar(u, b) = {second}
  BY DEF Only
<1>2. P = {<<first, second>>}
  <2>1. P = {first} \X Der!DeserializeScalar(first[2], b)
    BY <1>1
  <2>2. Der!DeserializeScalar(first[2], b) = {second}
    BY <1>1
  <2>3. {first} \X {second} = {<<first, second>>}
    OBVIOUS
  <2> QED BY <2>1, <2>2, <2>3
<1>3. {x \in P : x[2][2] = << >>} = {<<first, second>>}
  BY <1>2
<1>4. Der!Scalars(t, b) = {[r |-> x[1][1], s |-> x[2][1]] : x \in {<<first, second>>}}
  BY <1>3 DEF Der!Scalars
<1>5. Der!Scalars(t, b) = {[r |-> k, s |-> l]}
  BY <1>4
<1> QED BY <1>5 DEF Only

LEMMA StrictBodies ==
  ASSUME Doubling, Der!DerAssumption, NEW t \in Seq(Der!OctetOf), NEW x \in Der!Scalars(t, TRUE)
  PROVE  t = Der!SerializeScalar(x.r) \o Der!SerializeScalar(x.s)
<1> DEFINE P == UNION {{rr} \X Der!DeserializeScalar(rr[2], TRUE) :
                          rr \in Der!DeserializeScalar(t, TRUE)}
<1>1. PICK pair \in P : pair[2][2] = << >> /\ x = [r |-> pair[1][1], s |-> pair[2][1]]
  BY DEF Der!Scalars
<1>2. PICK y \in Der!DeserializeScalar(t, TRUE) :
        \E z \in Der!DeserializeScalar(y[2], TRUE) : pair = <<y, z>>
  <2>1. PICK y \in Der!DeserializeScalar(t, TRUE) : pair \in {y} \X Der!DeserializeScalar(y[2], TRUE)
    OBVIOUS
  <2> HIDE DEF P
  <2>2. \E z \in Der!DeserializeScalar(y[2], TRUE) : pair = <<y, z>>
    <3> DEFINE D == Der!DeserializeScalar(y[2], TRUE)
    <3>1. pair \in {y} \X D
      BY <2>1
    <3> HIDE DEF D
    <3>2. \E z \in D : pair = <<y, z>>
      BY <3>1, OnePair
    <3> QED BY <3>2 DEF D
  <2> QED BY <2>2
<1>3. PICK z \in Der!DeserializeScalar(y[2], TRUE) : pair = <<y, z>>
  BY <1>2
<1> HIDE DEF P
<1>4. PICK k \in Nat, u \in Seq(Der!OctetOf) : y = <<k, u>> /\ t = Der!SerializeScalar(k) \o u
  <2>1. \E k \in Nat, u \in Seq(Der!OctetOf) :
          /\ y = <<k, u>> /\ t = Der!SerializeScalar(k) \o u
          /\ Der!SerializeScalar(k) \in Seq(Der!OctetOf)
    BY StrictScalars, Zenon
  <2> QED BY <2>1, Zenon
<1>5. z \in Der!DeserializeScalar(u, TRUE)
  BY <1>4
<1>6. PICK l \in Nat, v \in Seq(Der!OctetOf) :
        /\ z = <<l, v>> /\ u = Der!SerializeScalar(l) \o v
        /\ Der!SerializeScalar(l) \in Seq(Der!OctetOf)
  BY <1>5, StrictScalars, Zenon
<1>7. v = << >> /\ u = Der!SerializeScalar(l)
  <2>1. v = << >>
    <3>1. pair[2] = z /\ z[2] = v
      BY <1>3, <1>6, Halves, Zenon
    <3> QED BY <1>1, <3>1
  <2>2. Der!SerializeScalar(l) \o << >> = Der!SerializeScalar(l)
    BY <1>6, ConcatEmptySeq
  <2> QED BY <1>6, <2>1, <2>2
<1>8. x.r = k /\ x.s = l
  <2>1. pair[1] = y /\ pair[2] = z
    BY <1>3, Halves, Zenon
  <2>2. y[1] = k /\ z[1] = l
    BY <1>4, <1>6, Halves, Zenon
  <2> QED BY <1>1, <2>1, <2>2
<1> QED BY <1>4, <1>7, <1>8

\* Whatever is read strictly is what serialize writes of what was read.
LEMMA StrictOctets ==
  ASSUME Doubling, Der!DerAssumption, NEW t \in Seq(Der!OctetOf), NEW x \in Der!Parse(t, TRUE)
  PROVE  Der!Serialize(x) = t
<1>1. t # << >> /\ t[1] = SigMarker
  BY DEF Der!Parse
<1>2. PICK y \in Der!ParseDerValue(Der!Rest(t, 1), TRUE) : y[2] = << >> /\ x \in Der!Scalars(y[1], TRUE)
  BY <1>1 DEF Der!Parse
<1>3. PICK u \in Seq(Der!OctetOf) : u = Der!Rest(t, 1) /\ t = <<SigMarker>> \o u
  <2>1. Der!Rest(t, 1) \in Seq(Der!OctetOf) /\ t = <<t[1]>> \o Der!Rest(t, 1)
    BY <1>1, FirstJoined
  <2> QED BY <1>1, <2>1
<1>4. PICK v \in Seq(Der!OctetOf), rest \in Seq(Der!OctetOf) :
        /\ y = <<v, rest>> /\ v # << >> /\ Len(v) < Der!HighBit
        /\ u = (<<Len(v)>> \o v) \o rest
  <2>1. y \in Der!ParseDerValue(u, TRUE)
    BY <1>2, <1>3
  <2> QED BY <2>1, StrictValues, Zenon
<1>5. rest = << >> /\ x \in Der!Scalars(v, TRUE)
  BY <1>2, <1>4
<1>6. v = Der!SerializeScalar(x.r) \o Der!SerializeScalar(x.s)
  BY <1>5, StrictBodies
<1>7. PICK k \in Nat : k = Len(v) /\ k \in Der!OctetOf
  <2>1. Len(v) \in Nat
    BY LenProperties
  <2> QED BY <1>4, <2>1, OctetRange
<1>8. PICK a \in Seq(Der!OctetOf), c \in Seq(Der!OctetOf) : a = <<SigMarker>> /\ c = <<k>>
  <2>1. <<SigMarker>> \in Seq(Der!OctetOf) /\ <<k>> \in Seq(Der!OctetOf)
    BY <1>7, DerConstants
  <2> QED BY <2>1
<1>9. Der!DerLength(k) = c
  BY <1>4, <1>7, <1>8 DEF Der!DerLength
<1>10. Der!Serialize(x) = (a \o c) \o v
  BY <1>6, <1>7, <1>8, <1>9 DEF Der!Serialize
<1>11. t = a \o (c \o v)
  <2>1. c \o v \in Seq(Der!OctetOf)
    BY JoinCuts
  <2>2. (c \o v) \o << >> = c \o v
    BY <2>1, ConcatEmptySeq
  <2> QED BY <1>3, <1>4, <1>5, <1>7, <1>8, <2>2
<1>12. Associated(a, c, v)
  BY JoinsAssociate
<1> QED BY <1>10, <1>11, <1>12 DEF Associated

\* A signature whose value is read, and is not too long where that counts,
\* and whose body is two scalars, is read.
LEMMA SigIsRead ==
  ASSUME Doubling, Der!DerAssumption, NEW w \in Seq(Der!OctetOf), NEW body, NEW x,
         NEW b \in BOOLEAN, Only(Der!ParseDerValue(w, b), <<body, << >>>>),
         b => Len(body) <= Der!MaxSigDataSize, Only(Der!Scalars(body, b), x)
  PROVE  Only(Der!Parse(<<SigMarker>> \o w, b), x)
<1>1. PICK t : /\ t = <<SigMarker>> \o w /\ t # << >> /\ t[1] = SigMarker
               /\ Der!Rest(t, 1) = w
  <2>1. SigMarker \in Der!OctetOf
    BY DerConstants
  <2> QED BY <2>1, FirstCut
<1>2. Der!ParseDerValue(w, b) = {<<body, << >>>>} /\ Der!Scalars(body, b) = {x}
  BY DEF Only
<1>3. {y \in Der!ParseDerValue(Der!Rest(t, 1), b) :
         b => Len(y[1]) <= Der!MaxSigDataSize /\ y[2] = << >>} = {<<body, << >>>>}
  BY <1>1, <1>2
<1>4. Der!Parse(t, b) = UNION {Der!Scalars(y[1], b) : y \in {<<body, << >>>>}}
  BY <1>1, <1>3 DEF Der!Parse
<1>5. Der!Parse(t, b) = {x}
  BY <1>2, <1>4
<1> QED BY <1>1, <1>5 DEF Only

LEMMA EmptyAtTheEnd ==
  ASSUME NEW X, NEW t \in Seq(X)
  PROVE  t \o << >> = t /\ << >> \in Seq(X)
  BY ConcatEmptySeq

LEMMA WrittenSig ==
  ASSUME Doubling, Der!DerAssumption, NEW x \in [r : 0..n, s : 0..n], NEW b \in BOOLEAN
  PROVE  Der!Serialize(x) \in Seq(Der!OctetOf) /\ Only(Der!Parse(Der!Serialize(x), b), x)
<1>1. x.r \in 0..n /\ x.s \in 0..n /\ x = [r |-> x.r, s |-> x.s]
  OBVIOUS
<1>2. ASSUME NEW k \in 0..n
      PROVE  /\ Der!SerializeScalar(k) \in Seq(Der!OctetOf)
             /\ Len(Der!SerializeScalar(k)) \in Nat \ {0}
             /\ 2 * Len(Der!SerializeScalar(k)) <= Der!MaxSigDataSize
  <2>1. PICK L \in Nat \ {0} : L = Der!ScalarSize(k) /\ 2 * (2 + L) <= Der!MaxSigDataSize
    BY ScalarsFit
  <2>2. L < Der!HighBit /\ k \in Nat
    BY <2>1, DerConstants
  <2>3. << >> \in Seq(Der!OctetOf)
    OBVIOUS
  <2>4. Der!SerializeScalar(k) \in Seq(Der!OctetOf) /\ Len(Der!SerializeScalar(k)) = 2 + L
    BY <2>1, <2>2, <2>3, ScalarSpelled
  <2> QED BY <2>1, <2>4
<1>3. PICK u \in Seq(Der!OctetOf) : /\ u = Der!SerializeScalar(x.r) /\ Len(u) \in Nat \ {0}
                                    /\ 2 * Len(u) <= Der!MaxSigDataSize
  BY <1>1, <1>2
<1>4. PICK v \in Seq(Der!OctetOf) : /\ v = Der!SerializeScalar(x.s) /\ Len(v) \in Nat \ {0}
                                    /\ 2 * Len(v) <= Der!MaxSigDataSize
  BY <1>1, <1>2
<1>5. PICK body \in Seq(Der!OctetOf) : body = u \o v /\ Len(body) = Len(u) + Len(v)
  BY JoinCuts
<1>6. PICK k \in Nat \ {0} : /\ k = Len(body) /\ k <= Der!MaxSigDataSize
                             /\ k < Der!HighBit /\ k <= MaxSize /\ k \in Der!OctetOf
  <2>1. PICK k \in Nat \ {0} : k = Len(body) /\ k <= Der!MaxSigDataSize
    <3>1. PICK i \in Nat \ {0}, j \in Nat \ {0} : i = Len(u) /\ j = Len(v)
      BY <1>3, <1>4
    <3>2. PICK m \in Nat : m = Der!MaxSigDataSize
      BY DerConstants
    <3>3. i + j \in Nat \ {0} /\ i + j <= m /\ Len(body) = i + j
      BY <1>3, <1>4, <1>5, <3>1, <3>2
    <3> QED BY <3>2, <3>3
  <2>2. k < Der!HighBit /\ k <= MaxSize
    BY <2>1, DerConstants
  <2>3. k \in Der!OctetOf
    BY <2>2, OctetRange
  <2> QED BY <2>1, <2>2, <2>3
<1>7. body # << >>
  <2>1. Len(<< >>) = 0
    OBVIOUS
  <2> QED BY <1>6, <2>1
<1>8. Only(Der!Scalars(body, b), x)
  <2>1. Only(Der!DeserializeScalar(Der!SerializeScalar(x.r) \o v, b), <<x.r, v>>)
    BY <1>1, WrittenScalar
  <2>2. << >> \in Seq(Der!OctetOf)
    OBVIOUS
  <2>3. Only(Der!DeserializeScalar(Der!SerializeScalar(x.s) \o << >>, b), <<x.s, << >>>>)
    BY <1>1, <2>2, WrittenScalar
  <2>4. v \o << >> = v
    BY EmptyAtTheEnd
  <2>5. /\ Only(Der!DeserializeScalar(body, b), <<x.r, v>>)
        /\ Only(Der!DeserializeScalar(v, b), <<x.s, << >>>>)
    BY <1>3, <1>4, <1>5, <2>1, <2>3, <2>4
  <2>6. Only(Der!Scalars(body, b), [r |-> x.r, s |-> x.s])
    BY <2>5, TwoScalars
  <2> QED BY <1>1, <2>6
<1>9. PICK a \in Seq(Der!OctetOf), c \in Seq(Der!OctetOf) : a = <<SigMarker>> /\ c = <<k>>
  <2>1. <<SigMarker>> \in Seq(Der!OctetOf) /\ <<k>> \in Seq(Der!OctetOf)
    BY <1>6, DerConstants
  <2> QED BY <2>1
<1>10. PICK w \in Seq(Der!OctetOf) : w = c \o body
  BY JoinCuts
<1>11. Der!Serialize(x) = a \o w
  <2>1. Der!DerLength(k) = c
    BY <1>6, <1>9 DEF Der!DerLength
  <2>2. Der!Serialize(x) = (a \o c) \o body
    BY <1>3, <1>4, <1>5, <1>6, <1>9, <2>1 DEF Der!Serialize
  <2>3. Associated(a, c, body)
    BY JoinsAssociate
  <2> QED BY <1>10, <2>2, <2>3 DEF Associated
<1>12. Only(Der!ParseDerValue(w, b), <<body, << >>>>)
  <2>1. << >> \in Seq(Der!OctetOf)
    OBVIOUS
  <2>2. Only(Der!ParseDerValue((<<Len(body)>> \o body) \o << >>, b), <<body, << >>>>)
    BY <1>6, <1>7, <2>1, ShortValue
  <2>3. w \o << >> = w
    BY EmptyAtTheEnd
  <2> QED BY <1>6, <1>9, <1>10, <2>2, <2>3
<1>13. Only(Der!Parse(<<SigMarker>> \o w, b), x)
  BY <1>6, <1>8, <1>12, SigIsRead
<1>14. a \o w \in Seq(Der!OctetOf)
  BY JoinCuts
<1> QED BY <1>9, <1>11, <1>13, <1>14

\* The compact form is read back.
LEMMA CompactIsRead ==
  ASSUME Doubling, Der!DerAssumption, NEW x \in [r : 0..n, s : 0..n]
  PROVE  Der!SigFromCompact(Der!Compact(x)) = x
<1>1. x.r \in 0..n /\ x.s \in 0..n /\ x = [r |-> x.r, s |-> x.s]
  OBVIOUS
<1>2. PICK size \in Nat : size = Der!NSize /\ n < 2^(O * size)
  <2>1. PICK o \in Nat \ {0}, bits \in Nat \ {0} : o = O /\ bits = NLen /\ n < 2^bits /\ n \in Nat
    BY DerConstants
  <2>2. PICK i \in Int : i = bits + o - 1
    OBVIOUS
  <2>3. PICK size \in Int : size = i \div o /\ size = Der!NSize /\ i = o * size + (i % o)
    BY <2>1, <2>2, DivMod DEF Der!NSize
  <2>4. i % o \in 0..(o - 1)
    BY <2>2, ModRange
  <2>5. bits <= o * size
    BY <2>2, <2>3, <2>4
  <2>6. size \in Nat
    <3>1. CASE size < 0
      <4>1. o * size + o <= o * 0
        BY <3>1, ProductGrows
      <4> QED BY <2>5, <4>1
    <3> QED BY <3>1
  <2>7. o * size \in Nat
    BY <2>6
  <2>8. 2^bits <= 2^(o * size) /\ 2^bits \in Nat /\ 2^(o * size) \in Nat
    BY <2>5, <2>7, PowersGrow, PowerPositive
  <2> QED BY <2>1, <2>3, <2>6, <2>8
<1>3. ASSUME NEW k \in 0..n
      PROVE  /\ Der!ToBytes(k, size) \in Seq(Der!OctetOf) /\ Len(Der!ToBytes(k, size)) = size
             /\ Der!FromBytes(Der!ToBytes(k, size)) = k
  <2>1. k \in Nat /\ 2^(O * size) \in Nat /\ k < 2^(O * size)
    <3>1. O * size \in Nat /\ n \in Nat
      BY DerConstants
    <3>2. 2^(O * size) \in Nat
      BY <3>1, PowerPositive
    <3> QED BY <1>2, <3>1, <3>2
  <2> QED BY <2>1, DerOctets, WrittenReads
<1>4. PICK u \in Seq(Der!OctetOf), v \in Seq(Der!OctetOf) :
        /\ u = Der!ToBytes(x.r, size) /\ v = Der!ToBytes(x.s, size) /\ Len(u) = size
        /\ Der!FromBytes(u) = x.r /\ Der!FromBytes(v) = x.s
  <2>1. /\ Der!ToBytes(x.r, size) \in Seq(Der!OctetOf) /\ Len(Der!ToBytes(x.r, size)) = size
        /\ Der!FromBytes(Der!ToBytes(x.r, size)) = x.r
    BY <1>1, <1>3
  <2>2. /\ Der!ToBytes(x.s, size) \in Seq(Der!OctetOf)
        /\ Der!FromBytes(Der!ToBytes(x.s, size)) = x.s
    BY <1>1, <1>3
  <2> QED BY <2>1, <2>2
<1>5. Der!Compact(x) = u \o v
  BY <1>2, <1>4 DEF Der!Compact
<1>6. SubSeq(u \o v, 1, size) = u /\ Der!Rest(u \o v, size) = v
  BY <1>4, JoinCuts
<1> QED BY <1>1, <1>2, <1>4, <1>5, <1>6 DEF Der!SigFromCompact

-----------------------------------------------------------------------------
\* Whatever is read strictly is read the same without.
LEMMA StrictIsLax ==
  ASSUME NEW t
  PROVE  Der!Parse(t, TRUE) \subseteq Der!Parse(t, FALSE)
<1>1. \A u : Der!ParseDerSize(u, TRUE) \subseteq Der!ParseDerSize(u, FALSE)
  BY DEF Der!ParseDerSize
<1>2. \A u : Der!ParseDerValue(u, TRUE) \subseteq Der!ParseDerValue(u, FALSE)
  BY <1>1 DEF Der!ParseDerValue
<1>3. \A u : Der!DeserializeScalar(u, TRUE) \subseteq Der!DeserializeScalar(u, FALSE)
  BY <1>2 DEF Der!DeserializeScalar
<1>4. ASSUME NEW u PROVE Der!Scalars(u, TRUE) \subseteq Der!Scalars(u, FALSE)
  <2> DEFINE P(b) == UNION {{rr} \X Der!DeserializeScalar(rr[2], b) :
                              rr \in Der!DeserializeScalar(u, b)}
  <2>1. P(TRUE) \subseteq P(FALSE)
    <3>1. ASSUME NEW x \in P(TRUE) PROVE x \in P(FALSE)
      <4>1. PICK rr \in Der!DeserializeScalar(u, TRUE) : x \in {rr} \X Der!DeserializeScalar(rr[2], TRUE)
        BY <3>1
      <4>2. Der!DeserializeScalar(rr[2], TRUE) \subseteq Der!DeserializeScalar(rr[2], FALSE)
        BY <1>3
      <4>3. x \in {rr} \X Der!DeserializeScalar(rr[2], FALSE)
        BY <4>1, <4>2
      <4>4. rr \in Der!DeserializeScalar(u, FALSE)
        BY <1>3
      <4> QED BY <4>3, <4>4
    <3> QED BY <3>1
  <2> HIDE DEF P
  <2>2. \A b \in BOOLEAN : Der!Scalars(u, b) =
          {[r |-> pair[1][1], s |-> pair[2][1]] : pair \in {pair \in P(b) : pair[2][2] = << >>}}
    BY DEF Der!Scalars, P
  <2> QED BY <2>1, <2>2
<1> QED BY <1>2, <1>4 DEF Der!Parse

LEMMA ReversedTwice ==
  ASSUME NEW X, NEW t \in Seq(X)
  PROVE  /\ Der!Reversed(t) \in Seq(X) /\ Len(Der!Reversed(t)) = Len(t)
         /\ Der!Reversed(Der!Reversed(t)) = t
<1>1. PICK m \in Nat : m = Len(t) /\ DOMAIN t = 1..m /\ \A i \in 1..m : t[i] \in X
  BY LenProperties
<1>2. \A i \in 1..m : m + 1 - i \in 1..m /\ m + 1 - (m + 1 - i) = i
  OBVIOUS
<1>3. Der!Reversed(t) = [i \in 1..m |-> t[m + 1 - i]]
  BY <1>1 DEF Der!Reversed
<1>4. Der!Reversed(t) \in Seq(X) /\ Len(Der!Reversed(t)) = m
  BY <1>1, <1>2, <1>3
<1>5. PICK u \in Seq(X) : u = Der!Reversed(t) /\ Len(u) = m /\ DOMAIN u = 1..m
  BY <1>4, LenProperties
<1>6. \A i \in 1..m : u[i] = t[m + 1 - i]
  BY <1>3, <1>5
<1>7. Der!Reversed(u) = [i \in 1..m |-> u[m + 1 - i]]
  BY <1>5 DEF Der!Reversed
<1>8. Der!Reversed(u) \in Seq(X) /\ Len(Der!Reversed(u)) = m
  BY <1>2, <1>5, <1>7, LenProperties
<1>9. ASSUME NEW i \in 1..m PROVE Der!Reversed(u)[i] = t[i]
  BY <1>2, <1>6, <1>7
<1>10. Der!Reversed(u) = t
  BY <1>1, <1>8, <1>9, SeqEqual
<1> QED BY <1>1, <1>4, <1>5, <1>10

\* The two octets between the first and what follows the third.
Between(t, x, u, v) ==
  /\ t = (<<x>> \o u) \o v /\ t # << >> /\ t[1] = x /\ Len(t) = 3 + Len(v)
  /\ SubSeq(t, 2, 3) = u /\ Der!Rest(t, 3) = v

LEMMA MiddleCut ==
  ASSUME NEW X, NEW x \in X, NEW u \in Seq(X), Len(u) = 2, NEW v \in Seq(X)
  PROVE  \E t \in Seq(X) : Between(t, x, u, v)
<1>1. PICK a \in Seq(X) : a = <<x>> \o u /\ Len(a) = 3 /\ a[1] = x /\ a[2] = u[1] /\ a[3] = u[2]
  <2>1. <<x>> \in Seq(X) /\ Len(<<x>>) = 1 /\ <<x>>[1] = x
    OBVIOUS
  <2>2. PICK y \in Seq(X) : y = <<x>> /\ Len(y) = 1 /\ y[1] = x
    BY <2>1
  <2>3. y \o u \in Seq(X) /\ Len(y \o u) = 3
    <3>1. y \o u \in Seq(X) /\ Len(y \o u) = Len(y) + Len(u)
      BY ConcatProperties
    <3> QED BY <2>2, <3>1
  <2>4. \A i \in 1..3 : (y \o u)[i] = IF i <= 1 THEN y[i] ELSE u[i - 1]
    <3>1. \A i \in 1..(Len(y) + Len(u)) : (y \o u)[i] = IF i <= Len(y) THEN y[i] ELSE u[i - Len(y)]
      BY ConcatProperties
    <3>2. Len(y) = 1 /\ Len(u) = 2 /\ Len(y) + Len(u) = 3
      BY <2>2
    <3> QED BY <3>1, <3>2
  <2>5. (y \o u)[1] = x /\ (y \o u)[2] = u[1] /\ (y \o u)[3] = u[2]
    <3>1. PICK z : z = y \o u
      OBVIOUS
    <3>2. \A i \in 1..3 : z[i] = IF i <= 1 THEN y[i] ELSE u[i - 1]
      BY <2>4, <3>1
    <3>3. z[1] = y[1]
      BY <3>2
    <3>4. z[2] = u[2 - 1] /\ z[3] = u[3 - 1]
      BY <3>2
    <3> QED BY <2>2, <3>1, <3>3, <3>4
  <2> QED BY <2>2, <2>3, <2>5
<1>2. PICK m \in Nat : m = Len(v)
  BY LenProperties
<1>3. PICK t \in Seq(X) : t = a \o v /\ Len(t) = 3 + m /\ Der!Rest(t, 3) = v
  <2>1. a \o v \in Seq(X) /\ Len(a \o v) = Len(a) + Len(v) /\ Der!Rest(a \o v, Len(a)) = v
    BY JoinCuts
  <2> QED BY <1>1, <1>2, <2>1
<1>4. t[1] = x /\ t[2] = u[1] /\ t[3] = u[2]
  <2>1. \A i \in 1..(Len(a) + Len(v)) : (a \o v)[i] = IF i <= Len(a) THEN a[i] ELSE v[i - Len(a)]
    BY ConcatProperties
  <2>2. \A i \in 1..3 : i \in 1..(Len(a) + Len(v)) /\ i <= Len(a)
    BY <1>1, <1>2
  <2> QED BY <1>1, <1>3, <2>1, <2>2
<1>5. t # << >>
  <2>1. Len(t) # 0
    BY <1>3
  <2> QED BY <2>1, EmptySeq
<1>6. SubSeq(t, 2, 3) = u
  <2>1. \A i \in 2..3 : t[i] \in X
    <3>1. \A i \in 1..(3 + m) : t[i] \in X
      BY <1>3, LenProperties
    <3> QED BY <3>1
  <2>2. /\ SubSeq(t, 2, 3) \in Seq(X)
        /\ Len(SubSeq(t, 2, 3)) = IF 2 <= 3 THEN 3 - 2 + 1 ELSE 0
        /\ \A i \in 1..(3 - 2 + 1) : SubSeq(t, 2, 3)[i] = t[2 + i - 1]
    BY <2>1, SubSeqProperties
  <2>3. ASSUME NEW i \in 1..2 PROVE SubSeq(t, 2, 3)[i] = u[i]
    <3>1. i \in 1..(3 - 2 + 1) /\ 2 + i - 1 = i + 1 /\ (i = 1 \/ i = 2)
      OBVIOUS
    <3> QED BY <1>4, <2>2, <3>1
  <2>4. Len(SubSeq(t, 2, 3)) = 2
    BY <2>2
  <2> QED BY <2>2, <2>3, <2>4, SeqEqual
<1>7. Between(t, x, u, v)
  BY <1>1, <1>2, <1>3, <1>4, <1>5, <1>6 DEF Between
<1> QED BY <1>7

\* A size that is read or refused, as CompactSize has it.
ReadUpTo(S, k, x) == (k <= MaxSize => Only(S, x)) /\ (k > MaxSize => S = {})

LEMMA UpTo ==
  ASSUME Doubling, Der!DerAssumption, NEW k \in Nat, NEW u, NEW S,
         S = {x \in {<<k, u>>} : x[1] <= MaxSize}
  PROVE  ReadUpTo(S, k, <<k, u>>)
<1>1. PICK m \in Nat : m = MaxSize
  BY DerConstants
<1>2. \A x \in {<<k, u>>} : x[1] = k
  OBVIOUS
<1>3. S = {x \in {<<k, u>>} : k <= m}
  BY <1>1, <1>2
<1>4. k <= m => S = {<<k, u>>}
  BY <1>3
<1>5. k > m => S = {}
  BY <1>3
<1> QED BY <1>1, <1>4, <1>5 DEF ReadUpTo, Only

LEMMA WideSizeIsRead ==
  ASSUME Doubling, Der!DerAssumption, NEW t \in Seq(Der!OctetOf), NEW u \in Seq(Der!OctetOf),
         NEW k \in Nat, t # << >>, t[1] = 2^O - 3, Len(t) > 2,
         SubSeq(t, 2, 3) = Der!Reversed(Der!ToBytes(k, 2)), Der!Rest(t, 3) = u,
         k >= 2^O - 3, k < 2^(2 * O)
  PROVE  ReadUpTo(Der!ParseDerSize(t, FALSE), k, <<k, u>>)
<1>1. PICK w \in Nat : w = 2^O /\ w >= 3
  <2>1. O \in Nat \ {0} /\ O > 2 /\ 2^O \in Nat \ {0} /\ 2^O = 2 * Der!HighBit
        /\ Der!HighBit \in Nat \ {0} /\ Der!HighBit <= 2^O - 3
    BY DerConstants
  <2> QED BY <2>1
<1> DEFINE wm == <<2, w - 3>>
<1>2. wm[1] = 2 /\ wm[2] = w - 3
  OBVIOUS
<1>3. Der!Wide(t[1]) = {wm}
  <2>1. w - 3 # w - 2 /\ w - 3 # w - 1
    BY <1>1
  <2> QED BY <1>1, <1>2, <2>1 DEF Der!Wide
<1>4. Der!FromBytes(Der!Reversed(SubSeq(t, 2, 3))) = k
  <2>1. PICK z \in Seq(Der!OctetOf) : z = Der!ToBytes(k, 2)
    BY DerOctets
  <2>2. Der!Reversed(Der!Reversed(z)) = z
    BY ReversedTwice
  <2>3. O * 2 = 2 * O
    BY DerConstants
  <2>4. Der!FromBytes(z) = k
    BY <2>1, <2>3, WrittenReads
  <2> QED BY <2>1, <2>2, <2>4
<1> HIDE DEF wm
<1>5. Der!WideSizes(t, wm) = {k}
  <2>1. ~(Len(t) <= 2) /\ 2 + 1 = 3
    BY LenProperties
  <2>2. Der!WideSizes(t, wm) = {y \in {k} : y >= w - 3}
    BY <1>2, <1>4, <2>1 DEF Der!WideSizes
  <2> QED BY <1>1, <2>2
<1>6. UNION {{<<y, Der!Rest(t, x[1] + 1)>> : y \in Der!WideSizes(t, x)} : x \in {wm}} = {<<k, u>>}
  <2>1. Der!Rest(t, wm[1] + 1) = u
    <3>1. 2 + 1 = 3
      OBVIOUS
    <3> QED BY <1>2, <3>1
  <2> QED BY <1>5, <2>1
<1>7. Der!ParseDerSize(t, FALSE) = {x \in {<<k, u>>} : x[1] <= MaxSize}
  BY <1>3, <1>6 DEF Der!ParseDerSize
<1> QED BY <1>7, UpTo

LEMMA CompactSizeIsRead ==
  ASSUME Doubling, Der!DerAssumption, NEW k \in Nat, k < 2^(2 * O), NEW u \in Seq(Der!OctetOf)
  PROVE  /\ Der!CompactSize(k) \in Seq(Der!OctetOf) /\ Len(Der!CompactSize(k)) \in 1..3
         /\ Der!CompactSize(k) \o u \in Seq(Der!OctetOf)
         /\ ReadUpTo(Der!ParseDerSize(Der!CompactSize(k) \o u, FALSE), k, <<k, u>>)
<1>1. PICK w \in Nat : w = 2^O /\ w - 3 \in Der!OctetOf
  <2>1. PICK w \in Nat, high \in Nat \ {0} : w = 2^O /\ high <= w - 3
    BY DerConstants
  <2>2. Der!OctetOf = 0..(w - 1)
    BY <2>1 DEF Der!OctetOf
  <2> QED BY <2>1, <2>2
<1>2. CASE k < 2^O - 3
  <2>1. Der!CompactSize(k) = <<k>> /\ k \in Der!OctetOf
    BY <1>2, OctetRange DEF Der!CompactSize
  <2>2. <<k>> \in Seq(Der!OctetOf) /\ Len(<<k>>) = 1
    BY <2>1
  <2>3. PICK t \in Seq(Der!OctetOf) :
          t = <<k>> \o u /\ t # << >> /\ t[1] = k /\ Der!Rest(t, 1) = u
    BY <2>1, FirstCut
  <2>4. Der!ParseDerSize(t, FALSE) = IF t[1] <= MaxSize THEN {<<t[1], Der!Rest(t, 1)>>} ELSE {}
    BY <1>2, <2>3, ShortSize
  <2>5. Der!ParseDerSize(t, FALSE) = IF k <= MaxSize THEN {<<k, u>>} ELSE {}
    BY <2>3, <2>4
  <2>6. Only(Der!ParseDerSize(t, FALSE), <<k, u>>) \/ ~(k <= MaxSize)
    BY <2>5 DEF Only
  <2>7. k > MaxSize => Der!ParseDerSize(t, FALSE) = {}
    <3>1. PICK m \in Nat : m = MaxSize
      BY DerConstants
    <3>2. k > m => ~(k <= m)
      OBVIOUS
    <3> QED BY <2>5, <3>1, <3>2
  <2>8. ReadUpTo(Der!ParseDerSize(t, FALSE), k, <<k, u>>)
    BY <2>6, <2>7 DEF ReadUpTo
  <2>9. Len(<<k>>) \in 1..3
    BY <2>2
  <2> QED BY <2>1, <2>2, <2>3, <2>8, <2>9, Zenon
<1>3. CASE ~(k < 2^O - 3)
  <2>1. PICK z \in Seq(Der!OctetOf) : z = Der!Reversed(Der!ToBytes(k, 2)) /\ Len(z) = 2
    <3>1. PICK y \in Seq(Der!OctetOf) : y = Der!ToBytes(k, 2) /\ Len(y) = 2
      BY DerOctets
    <3> QED BY <3>1, ReversedTwice
  <2>2. PICK x \in Der!OctetOf : x = w - 3
    BY <1>1
  <2>3. Der!CompactSize(k) = <<x>> \o z
    BY <1>1, <1>3, <2>1, <2>2 DEF Der!CompactSize
  <2>4. <<x>> \o z \in Seq(Der!OctetOf) /\ Len(<<x>> \o z) = 3
    <3>1. <<x>> \o z \in Seq(Der!OctetOf) /\ Len(<<x>> \o z) = Len(z) + 1
      BY FirstCut
    <3>2. Len(z) + 1 = 3
      <4>1. Len(z) = 2
        BY <2>1, Zenon
      <4> QED BY <4>1
    <3> QED BY <3>1, <3>2, Zenon
  <2>5. PICK t \in Seq(Der!OctetOf) :
          /\ t = (<<x>> \o z) \o u /\ t # << >> /\ t[1] = x /\ Len(t) = 3 + Len(u)
          /\ SubSeq(t, 2, 3) = z /\ Der!Rest(t, 3) = u
    <3>1. Len(z) = 2
      BY <2>1
    <3>2. PICK t \in Seq(Der!OctetOf) : Between(t, x, z, u)
      BY <3>1, MiddleCut
    <3> QED BY <3>2 DEF Between
  <2>6. Len(t) > 2
    <3>1. Len(u) \in Nat
      BY LenProperties
    <3> QED BY <2>5, <3>1
  <2>7. ReadUpTo(Der!ParseDerSize(t, FALSE), k, <<k, u>>)
    <3>1. t[1] = 2^O - 3 /\ k >= 2^O - 3
      BY <1>1, <1>3, <2>2, <2>5
    <3>2. SubSeq(t, 2, 3) = Der!Reversed(Der!ToBytes(k, 2)) /\ t # << >>
      BY <2>1, <2>5
    <3> QED BY <2>5, <2>6, <3>1, <3>2, WideSizeIsRead, Zenon
  <2>8. 3 \in 1..3
    OBVIOUS
  <2> QED BY <2>3, <2>4, <2>5, <2>7, <2>8, Zenon
<1> QED BY <1>2, <1>3

Regroups(a, c, v, w) == ((a \o c) \o v) \o w = a \o (c \o (v \o w))

LEMMA FourJoined ==
  ASSUME NEW X, NEW a \in Seq(X), NEW c \in Seq(X), NEW v \in Seq(X), NEW w \in Seq(X)
  PROVE  Regroups(a, c, v, w)
<1>1. PICK y \in Seq(X) : y = c \o v
  BY JoinCuts
<1>2. Associated(a, c, v) /\ Associated(a, y, w) /\ Associated(c, v, w)
  BY JoinsAssociate
<1> QED BY <1>1, <1>2 DEF Associated, Regroups

\* A scalar with zeros in front is octets, and is read over the zeros where
\* its size is not refused.
ReadOverZeros(k, pad, L, rest) ==
  /\ Der!LaxScalar(k, pad) \in Seq(Der!OctetOf)
  /\ \E i \in 2..4 : Len(Der!LaxScalar(k, pad)) = pad + L + i
  /\ pad + L <= MaxSize =>
       Only(Der!DeserializeScalar(Der!LaxScalar(k, pad) \o rest, FALSE), <<k, rest>>)

LEMMA LaxScalarIsRead ==
  ASSUME Doubling, Der!DerAssumption, NEW k \in 0..n, NEW pad \in Nat, NEW L \in Nat,
         L = Der!ScalarSize(k), pad + L < 2^(2 * O), NEW rest \in Seq(Der!OctetOf)
  PROVE  ReadOverZeros(k, pad, L, rest)
<1>1. k \in Nat /\ L \in Nat \ {0} /\ Fills(k, L) /\ k < 2^(O * L)
  <2>1. k \in Nat
    BY DerConstants
  <2>2. L \in Nat \ {0} /\ Fills(k, L)
    BY <2>1, SizeIsFilled
  <2> QED BY <2>1, <2>2, FillsBelow
<1>2. PICK m \in Nat \ {0} : m = pad + L /\ m < 2^(2 * O)
  BY <1>1
<1>3. PICK v \in Seq(Der!OctetOf) :
        /\ v = Der!Zeros(pad) \o Der!ToBytes(k, L) /\ Len(v) = m /\ Der!FromBytes(v) = k
  <2>1. Der!Zeros(pad) \o Der!ToBytes(k, L) = Der!ToBytes(k, m)
    BY <1>1, <1>2, ZerosInFront
  <2>2. Der!ToBytes(k, m) \in Seq(Der!OctetOf) /\ Len(Der!ToBytes(k, m)) = m
    BY <1>1, DerOctets
  <2>3. k < 2^(O * m)
    <3>1. PICK b \in Nat \ {0} : b = O
      BY DerConstants
    <3>2. b * m = b * L + b * pad /\ b * L \in Nat /\ b * pad \in Nat /\ b * m \in Nat
      BY <1>2
    <3>3. 2^(b * L) <= 2^(b * m) /\ 2^(b * L) \in Nat /\ 2^(b * m) \in Nat
      BY <3>2, PowersGrow, PowerPositive
    <3> QED BY <1>1, <3>1, <3>3
  <2>4. Der!FromBytes(Der!ToBytes(k, m)) = k
    BY <1>1, <2>3, WrittenReads
  <2> QED BY <2>1, <2>2, <2>4
<1>4. v # << >>
  <2>1. Len(<< >>) = 0
    OBVIOUS
  <2> QED BY <1>2, <1>3, <2>1
<1>5. PICK a \in Seq(Der!OctetOf) : a = <<ScalarMarker>> /\ Len(a) = 1
  <2>1. ScalarMarker \in Der!OctetOf
    BY DerConstants
  <2>2. <<ScalarMarker>> \in Seq(Der!OctetOf) /\ Len(<<ScalarMarker>>) = 1
    BY <2>1
  <2> QED BY <2>2
<1>6. PICK u \in Seq(Der!OctetOf) : u = v \o rest
  BY JoinCuts
<1>7. PICK c \in Seq(Der!OctetOf) :
        /\ c = Der!CompactSize(m) /\ Len(c) \in 1..3 /\ c \o u \in Seq(Der!OctetOf)
        /\ ReadUpTo(Der!ParseDerSize(c \o u, FALSE), m, <<m, u>>)
  <2>1. /\ Der!CompactSize(m) \in Seq(Der!OctetOf) /\ Len(Der!CompactSize(m)) \in 1..3
        /\ Der!CompactSize(m) \o u \in Seq(Der!OctetOf)
        /\ ReadUpTo(Der!ParseDerSize(Der!CompactSize(m) \o u, FALSE), m, <<m, u>>)
    BY <1>2, CompactSizeIsRead
  <2> QED BY <2>1
<1>8. Der!LaxScalar(k, pad) = (a \o c) \o v
  BY <1>3, <1>5, <1>7 DEF Der!LaxScalar
<1>9. (a \o c) \o v \in Seq(Der!OctetOf) /\ Len((a \o c) \o v) = Len(a) + Len(c) + Len(v)
  <2>1. PICK y \in Seq(Der!OctetOf) : y = a \o c /\ Len(y) = Len(a) + Len(c)
    BY JoinCuts
  <2>2. y \o v \in Seq(Der!OctetOf) /\ Len(y \o v) = Len(y) + Len(v)
    BY JoinCuts
  <2> QED BY <2>1, <2>2
<1>10. \E i \in 2..4 : Len((a \o c) \o v) = pad + L + i
  <2>1. PICK j \in 1..3 : j = Len(c)
    BY <1>7
  <2>2. Len((a \o c) \o v) = 1 + j + m
    BY <1>3, <1>5, <1>9, <2>1, Zenon
  <2>3. 1 + j + m = pad + L + (1 + j) /\ 1 + j \in 2..4
    BY <1>2
  <2> QED BY <2>2, <2>3, Zenon
<1>11. ASSUME m <= MaxSize
       PROVE  Only(Der!DeserializeScalar(((a \o c) \o v) \o rest, FALSE), <<k, rest>>)
  <2>1. Only(Der!ParseDerSize(c \o u, FALSE), <<Len(v), v \o rest>>)
    BY <1>3, <1>6, <1>7, <1>11 DEF ReadUpTo
  <2>2. Only(Der!ParseDerValue(c \o u, FALSE), <<v, rest>>)
    BY <1>4, <2>1, ValueIsRead
  <2>3. FALSE => Der!Canonical(v)
    OBVIOUS
  <2>4. Only(Der!DeserializeScalar(<<ScalarMarker>> \o (c \o u), FALSE), <<Der!FromBytes(v), rest>>)
    BY <1>7, <2>2, <2>3, ScalarIsRead
  <2>5. ((a \o c) \o v) \o rest = a \o (c \o (v \o rest))
    <3>1. Regroups(a, c, v, rest)
      BY FourJoined
    <3> QED BY <3>1 DEF Regroups
  <2> QED BY <1>3, <1>5, <1>6, <2>4, <2>5
<1> QED BY <1>2, <1>8, <1>9, <1>10, <1>11 DEF ReadOverZeros

LEMMA RefusedSize ==
  ASSUME Doubling, Der!DerAssumption, NEW w \in Seq(Der!OctetOf), Der!ParseDerSize(w, FALSE) = {}
  PROVE  Der!Parse(<<SigMarker>> \o w, FALSE) = {}
<1>1. PICK t : t = <<SigMarker>> \o w /\ Der!Rest(t, 1) = w
  <2>1. SigMarker \in Der!OctetOf
    BY DerConstants
  <2> QED BY <2>1, FirstCut
<1>2. Der!ParseDerValue(Der!Rest(t, 1), FALSE) = {}
  BY <1>1 DEF Der!ParseDerValue
<1>3. Der!Parse(t, FALSE) = {}
  BY <1>2 DEF Der!Parse
<1> QED BY <1>1, <1>3

LEMMA LaxSpellingIsRead ==
  ASSUME Doubling, Der!DerAssumption, sig \in [r : 0..n, s : 0..n],
         NEW pad1 \in Pads, NEW pad2 \in Pads
  PROVE  Der!Parse(Der!LaxSpelling(pad1, pad2), FALSE)
           = IF Len(Der!LaxScalar(sig.r, pad1)) + Len(Der!LaxScalar(sig.s, pad2)) <= MaxSize
             THEN {sig} ELSE {}
<1>1. PICK k \in 0..n, l \in 0..n : k = sig.r /\ l = sig.s /\ sig = [r |-> k, s |-> l]
  OBVIOUS
<1>2. PICK b \in Nat, max \in Nat, p1 \in Nat, p2 \in Nat :
        /\ b = 2^(2 * O) /\ max = Der!MaxSigDataSize /\ p1 = pad1 /\ p2 = pad2
        /\ max + 4 + 2 * p1 < b /\ max + 4 + 2 * p2 < b
  <2>1. 2 * O \in Nat /\ Der!MaxSigDataSize \in Nat
    BY DerConstants
  <2>2. 2^(2 * O) \in Nat
    BY <2>1, PowerPositive
  <2>3. /\ pad1 \in Nat /\ pad2 \in Nat
        /\ Der!MaxSigDataSize + 4 + 2 * pad1 < 2^(2 * O)
        /\ Der!MaxSigDataSize + 4 + 2 * pad2 < 2^(2 * O)
    BY DEF Der!DerAssumption
  <2> QED BY <2>1, <2>2, <2>3
<1>3. PICK L1 \in Nat \ {0}, L2 \in Nat \ {0} :
        /\ L1 = Der!ScalarSize(k) /\ L2 = Der!ScalarSize(l)
        /\ 2 * (2 + L1) <= max /\ 2 * (2 + L2) <= max
  BY <1>2, ScalarsFit
<1>4. p1 + L1 < b /\ p2 + L2 < b /\ p1 + L1 + 4 + (p2 + L2 + 4) < b
  BY <1>2, <1>3
<1>5. << >> \in Seq(Der!OctetOf)
  OBVIOUS
<1>6. PICK v \in Seq(Der!OctetOf), j \in 2..4 :
        /\ v = Der!LaxScalar(l, p2) /\ Len(v) = p2 + L2 + j
        /\ p2 + L2 <= MaxSize => Only(Der!DeserializeScalar(v, FALSE), <<l, << >>>>)
  <2>1. ReadOverZeros(l, p2, L2, << >>)
    <3>1. L2 \in Nat /\ L2 = Der!ScalarSize(l) /\ p2 + L2 < 2^(2 * O)
      BY <1>2, <1>3, <1>4
    <3> QED BY <1>5, <3>1, LaxScalarIsRead
  <2>2. Der!LaxScalar(l, p2) \o << >> = Der!LaxScalar(l, p2)
    BY <2>1, EmptyAtTheEnd DEF ReadOverZeros
  <2> QED BY <2>1, <2>2 DEF ReadOverZeros
<1>7. PICK u \in Seq(Der!OctetOf), i \in 2..4 :
        /\ u = Der!LaxScalar(k, p1) /\ Len(u) = p1 + L1 + i
        /\ p1 + L1 <= MaxSize => Only(Der!DeserializeScalar(u \o v, FALSE), <<k, v>>)
  <2>1. ReadOverZeros(k, p1, L1, v)
    <3>1. L1 \in Nat /\ L1 = Der!ScalarSize(k) /\ p1 + L1 < 2^(2 * O)
      BY <1>2, <1>3, <1>4
    <3> QED BY <3>1, LaxScalarIsRead
  <2> QED BY <2>1 DEF ReadOverZeros
<1>8. PICK body \in Seq(Der!OctetOf), size \in Nat \ {0} :
        body = u \o v /\ size = Len(body) /\ size = Len(u) + Len(v) /\ size < b
  <2>1. u \o v \in Seq(Der!OctetOf) /\ Len(u \o v) = Len(u) + Len(v)
    BY JoinCuts
  <2>2. Len(u) + Len(v) \in Nat \ {0} /\ Len(u) + Len(v) < b
    BY <1>4, <1>6, <1>7
  <2> QED BY <2>1, <2>2
<1>9. PICK a \in Seq(Der!OctetOf) : a = <<SigMarker>>
  <2>1. SigMarker \in Der!OctetOf
    BY DerConstants
  <2>2. <<SigMarker>> \in Seq(Der!OctetOf)
    BY <2>1
  <2> QED BY <2>2
<1>10. PICK c \in Seq(Der!OctetOf), w \in Seq(Der!OctetOf) :
         /\ c = Der!CompactSize(size) /\ w = c \o body
         /\ ReadUpTo(Der!ParseDerSize(w, FALSE), size, <<size, body>>)
  <2>1. /\ Der!CompactSize(size) \in Seq(Der!OctetOf)
        /\ Der!CompactSize(size) \o body \in Seq(Der!OctetOf)
        /\ ReadUpTo(Der!ParseDerSize(Der!CompactSize(size) \o body, FALSE), size, <<size, body>>)
    BY <1>2, <1>8, CompactSizeIsRead
  <2> QED BY <2>1
<1>11. Der!LaxSpelling(pad1, pad2) = a \o w
  <2>1. Der!LaxSpelling(pad1, pad2) = (a \o c) \o body
    BY <1>1, <1>2, <1>6, <1>7, <1>8, <1>9, <1>10 DEF Der!LaxSpelling
  <2>2. Associated(a, c, body)
    BY JoinsAssociate
  <2> QED BY <1>10, <2>1, <2>2 DEF Associated
<1>12. PICK most \in Nat : most = MaxSize
  BY DerConstants
<1>13. ASSUME size <= most PROVE Der!Parse(a \o w, FALSE) = {sig}
  <2>1. p1 + L1 <= most /\ p2 + L2 <= most
    BY <1>6, <1>7, <1>8, <1>13
  <2>2. /\ Only(Der!DeserializeScalar(body, FALSE), <<k, v>>)
        /\ Only(Der!DeserializeScalar(v, FALSE), <<l, << >>>>)
    BY <1>6, <1>7, <1>8, <1>12, <2>1
  <2>3. Only(Der!Scalars(body, FALSE), sig)
    BY <1>1, <2>2, TwoScalars
  <2>4. body # << >>
    <3>1. Len(<< >>) = 0
      OBVIOUS
    <3> QED BY <1>8, <3>1
  <2>5. Only(Der!ParseDerValue(w, FALSE), <<body, << >>>>)
    <3>1. body \o << >> = body
      BY EmptyAtTheEnd
    <3>2. Only(Der!ParseDerSize(w, FALSE), <<Len(body), body \o << >>>>)
      BY <1>8, <1>10, <1>12, <1>13, <3>1 DEF ReadUpTo
    <3> QED BY <1>5, <2>4, <3>2, ValueIsRead
  <2>6. FALSE => Len(body) <= Der!MaxSigDataSize
    OBVIOUS
  <2>7. Only(Der!Parse(<<SigMarker>> \o w, FALSE), sig)
    BY <2>3, <2>5, <2>6, SigIsRead
  <2> QED BY <1>9, <2>7 DEF Only
<1>14. ASSUME ~(size <= most) PROVE Der!Parse(a \o w, FALSE) = {}
  <2>1. size > most
    BY <1>14
  <2>2. Der!ParseDerSize(w, FALSE) = {}
    BY <1>10, <1>12, <2>1 DEF ReadUpTo
  <2> QED BY <1>9, <2>2, RefusedSize
<1> QED BY <1>1, <1>2, <1>6, <1>7, <1>8, <1>11, <1>12, <1>13, <1>14

\* An edit of octets leaves octets.
LEMMA EditedIsOctets ==
  ASSUME Doubling, Der!DerAssumption, NEW t \in Seq(Der!OctetOf)
  PROVE  Der!Edited(t) \subseteq Seq(Der!OctetOf)
<1>1. Put \subseteq Der!OctetOf
  BY DerConstants
<1>2. PICK m \in Nat : m = Len(t) /\ DOMAIN t = 1..m /\ \A i \in 1..m : t[i] \in Der!OctetOf
  BY LenProperties
<1>3. ASSUME NEW y \in Der!Replaced(t) PROVE y \in Seq(Der!OctetOf)
  <2>1. PICK i \in 1..m, x \in Put : y = [t EXCEPT ![i] = x]
    BY <1>2 DEF Der!Replaced
  <2>2. x \in Der!OctetOf
    BY <1>1
  <2> QED BY <1>2, <2>1, <2>2, ExceptSeq
<1>4. ASSUME NEW i \in 0..m
      PROVE  SubSeq(t, 1, i) \in Seq(Der!OctetOf)
  BY <1>2, CutsJoin
<1>5. ASSUME NEW i \in 0..m
      PROVE  SubSeq(t, i + 1, Len(t)) \in Seq(Der!OctetOf)
  <2>1. Der!Rest(t, i) \in Seq(Der!OctetOf)
    BY <1>2, CutsJoin
  <2> QED BY <2>1 DEF Der!Rest
<1>6. ASSUME NEW y \in Der!Without(t) PROVE y \in Seq(Der!OctetOf)
  <2>1. PICK i \in 1..m : y = SubSeq(t, 1, i - 1) \o SubSeq(t, i + 1, Len(t))
    BY <1>2 DEF Der!Without
  <2>2. PICK k \in 0..m : k = i - 1
    OBVIOUS
  <2>3. SubSeq(t, 1, k) \in Seq(Der!OctetOf)
    BY <1>4
  <2>4. SubSeq(t, i + 1, Len(t)) \in Seq(Der!OctetOf)
    <3>1. i \in 0..m
      OBVIOUS
    <3> QED BY <1>5, <3>1
  <2> QED BY <2>1, <2>2, <2>3, <2>4, ConcatProperties
<1>7. ASSUME NEW y \in Der!With(t) PROVE y \in Seq(Der!OctetOf)
  <2>1. PICK i \in 0..Len(t), x \in Put : y = SubSeq(t, 1, i) \o <<x>> \o SubSeq(t, i + 1, Len(t))
    <3> DEFINE Inserted(i, x) == SubSeq(t, 1, i) \o <<x>> \o SubSeq(t, i + 1, Len(t))
    <3>1. Der!With(t) = {Inserted(i, x) : i \in 0..Len(t), x \in Put}
      BY DEF Der!With
    <3> HIDE DEF Inserted
    <3>2. \E i \in 0..Len(t), x \in Put : y = Inserted(i, x)
      BY <3>1
    <3> QED BY <3>2 DEF Inserted
  <2>2. i \in 0..m /\ x \in Der!OctetOf
    BY <1>1, <1>2
  <2>3. PICK u \in Seq(Der!OctetOf), v \in Seq(Der!OctetOf) :
          u = SubSeq(t, 1, i) /\ v = SubSeq(t, i + 1, Len(t))
    BY <1>4, <1>5, <2>2
  <2>4. PICK c \in Seq(Der!OctetOf) : c = <<x>>
    <3>1. <<x>> \in Seq(Der!OctetOf)
      BY <2>2
    <3> QED BY <3>1
  <2>5. u \o c \in Seq(Der!OctetOf)
    BY JoinCuts
  <2>6. (u \o c) \o v \in Seq(Der!OctetOf)
    BY <2>5, JoinCuts
  <2> QED BY <2>1, <2>3, <2>4, <2>6
<1> QED BY <1>3, <1>6, <1>7 DEF Der!Edited

LEMMA EditsAreOctets ==
  ASSUME Doubling, Der!DerAssumption, NEW t \in Seq(Der!OctetOf)
  PROVE  Der!Edits(t) \subseteq Seq(Der!OctetOf)
<1>1. Der!Edited(t) \subseteq Seq(Der!OctetOf)
  BY EditedIsOctets
<1>2. \A u \in Der!Edited(t) : Der!Edited(u) \subseteq Seq(Der!OctetOf)
  BY <1>1, EditedIsOctets
<1>3. UNION {Der!Edited(u) : u \in Der!Edited(t)} \subseteq Seq(Der!OctetOf)
  BY <1>2
<1> QED BY <1>1, <1>3 DEF Der!Edits

LEMMA DerInit ==
  ASSUME Der!Init
  PROVE  Der!Inv
<1>1. octets = << >> /\ strict = {} /\ lax = {} /\ sig \in [r : 0..n, s : 0..n]
  BY DEF Der!Init
<1>2. Der!Parse(<< >>, TRUE) = {} /\ Der!Parse(<< >>, FALSE) = {}
  BY DEF Der!Parse
<1>3. << >> \in Seq(Der!OctetOf)
  OBVIOUS
<1> QED BY <1>1, <1>2, <1>3 DEF Der!Inv

LEMMA DerNextKeepsInv ==
  ASSUME Doubling, Der!DerAssumption, Der!Inv, [Der!Next]_Der!vars
  PROVE  Der!Inv'
<1>1. CASE Der!Write
  <2>1. sig \in [r : 0..n, s : 0..n] /\ sig' = sig
    BY <1>1 DEF Der!Inv, Der!Write
  <2>2. PICK t \in Seq(Der!OctetOf) : t = Der!Serialize(sig)
    BY <2>1, WrittenSig
  <2>3. octets' \in Seq(Der!OctetOf)
    <3>1. octets' \in Der!Edits(t)
      BY <1>1, <2>2 DEF Der!Write
    <3> QED BY <3>1, EditsAreOctets
  <2>4. strict' = Der!Parse(octets', TRUE) /\ lax' = Der!Parse(octets', FALSE)
    BY <1>1 DEF Der!Write
  <2>5. Der!Parse(octets, TRUE)' = Der!Parse(octets', TRUE)
        /\ Der!Parse(octets, FALSE)' = Der!Parse(octets', FALSE)
    OBVIOUS
  <2> QED BY <2>1, <2>3, <2>4, <2>5 DEF Der!Inv, Der!OctetOf
<1>2. CASE UNCHANGED Der!vars
  BY <1>2 DEF Der!Inv, Der!vars, Der!OctetOf
<1> QED BY <1>1, <1>2 DEF Der!Next

LEMMA InvSpellsOnce ==
  ASSUME Doubling, Der!DerAssumption, Der!Inv
  PROVE  Der!StrictIsCanonical
<1>1. octets \in Seq(Der!OctetOf) /\ strict = Der!Parse(octets, TRUE)
  BY DEF Der!Inv
<1>2. \A x \in Der!Parse(octets, TRUE) : Der!Serialize(x) = octets
  BY <1>1, StrictOctets
<1> QED BY <1>1, <1>2 DEF Der!StrictIsCanonical

LEMMA InvReadsWhatIsWritten ==
  ASSUME Doubling, Der!DerAssumption, Der!Inv
  PROVE  Der!WrittenIsRead
<1>1. /\ sig \in [r : 0..n, s : 0..n]
      /\ strict = Der!Parse(octets, TRUE) /\ lax = Der!Parse(octets, FALSE)
  BY DEF Der!Inv
<1>2. SUFFICES ASSUME octets = Der!Serialize(sig)
               PROVE  strict = {sig} /\ lax = {sig} /\ Der!SigFromCompact(Der!Compact(sig)) = sig
  BY DEF Der!WrittenIsRead
<1>3. \A b \in BOOLEAN : Only(Der!Parse(Der!Serialize(sig), b), sig)
  BY <1>1, WrittenSig
<1>4. Der!SigFromCompact(Der!Compact(sig)) = sig
  BY <1>1, CompactIsRead
<1> QED BY <1>1, <1>2, <1>3, <1>4 DEF Only

LEMMA InvReadsPads ==
  ASSUME Doubling, Der!DerAssumption, Der!Inv
  PROVE  Der!LaxReadsPads
<1>1. /\ sig \in [r : 0..n, s : 0..n]
      /\ strict = Der!Parse(octets, TRUE) /\ lax = Der!Parse(octets, FALSE)
  BY DEF Der!Inv
<1>2. strict \subseteq lax
  BY <1>1, StrictIsLax
<1>3. \A pad1, pad2 \in Pads :
        Der!Parse(Der!LaxSpelling(pad1, pad2), FALSE)
          = IF Len(Der!LaxScalar(sig.r, pad1)) + Len(Der!LaxScalar(sig.s, pad2)) <= MaxSize
            THEN {sig} ELSE {}
  BY <1>1, LaxSpellingIsRead
<1> QED BY <1>2, <1>3 DEF Der!LaxReadsPads

\* In every reachable state the octets are octets and each parse answers what
\* it answers of them.
THEOREM SpellingsAreOctets == Doubling /\ Der!DerAssumption => (Der!Spec => []Der!Inv)
<1> SUFFICES ASSUME Doubling, Der!DerAssumption PROVE Der!Spec => []Der!Inv
  OBVIOUS
<1>1. Der!Init => Der!Inv
  BY DerInit
<1>2. Der!Inv /\ [Der!Next]_Der!vars => Der!Inv'
  BY DerNextKeepsInv
<1> QED BY <1>1, <1>2, PTL DEF Der!Spec

\* Whatever was done to the octets of a signature, those that are read
\* strictly are the ones serialize writes of what was read: a signature has one
\* spelling, whatever the order and its length (dsa.py:173-254, 412-500).
THEOREM OneStrictSpelling ==
  Doubling /\ Der!DerAssumption => (Der!Spec => []Der!StrictIsCanonical)
<1> SUFFICES ASSUME Doubling, Der!DerAssumption PROVE Der!Spec => []Der!StrictIsCanonical
  OBVIOUS
<1>1. Der!Spec => []Der!Inv
  BY SpellingsAreOctets
<1>2. Der!Inv => Der!StrictIsCanonical
  BY InvSpellsOnce
<1> QED BY <1>1, <1>2, PTL

\* What serialize writes is read back by either parse and by the compact form,
\* whatever the scalars' lengths and highest bits.
THEOREM WrittenSignaturesAreRead ==
  Doubling /\ Der!DerAssumption => (Der!Spec => []Der!WrittenIsRead)
<1> SUFFICES ASSUME Doubling, Der!DerAssumption PROVE Der!Spec => []Der!WrittenIsRead
  OBVIOUS
<1>1. Der!Spec => []Der!Inv
  BY SpellingsAreOctets
<1>2. Der!Inv => Der!WrittenIsRead
  BY InvReadsWhatIsWritten
<1> QED BY <1>1, <1>2, PTL

\* Zeros in front of a scalar are read over without strict, wide sizes included,
\* up to the size that is refused, and whatever is read strictly is read so.
THEOREM ZerosAreReadOver ==
  Doubling /\ Der!DerAssumption => (Der!Spec => []Der!LaxReadsPads)
<1> SUFFICES ASSUME Doubling, Der!DerAssumption PROVE Der!Spec => []Der!LaxReadsPads
  OBVIOUS
<1>1. Der!Spec => []Der!Inv
  BY SpellingsAreOctets
<1>2. Der!Inv => Der!LaxReadsPads
  BY InvReadsPads
<1> QED BY <1>1, <1>2, PTL
=============================================================================
