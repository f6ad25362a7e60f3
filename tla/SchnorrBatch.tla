---------------------------- MODULE SchnorrBatch ----------------------------
(***************************************************************************)
(* BIP340 verification, one signature at a time and many at once           *)
(* (ecc/ssa.py).  Many at once is one equation over random coefficients:   *)
(* it must say what the signatures one by one would, whatever is drawn     *)
(* when at most one of them is bad, and all but rarely when more are.      *)
(*                                                                         *)
(* The single verification is an operator; a call of batch_verify_ is a    *)
(* machine that reads the keys, makes the batch's checks, gathers a term   *)
(* for each signature with a coefficient drawn for it, and compares.       *)
(* Calls share no state, so a behaviour is one call.                       *)
(*                                                                         *)
(* This is the Python arm.  A signature of another curve than the batch's  *)
(* is only that: the other curve's points are not modelled.                *)
(***************************************************************************)
EXTENDS CofactorGroup, Sequences, FiniteSets

CONSTANTS
  Msg,        \* messages
  Challenge,  \* Challenge[x_K, x_Q, msg]: the tagged hash, reduced modulo n
  Batches     \* the calls that are made

FieldElement == 0..(p - 1)

\* A key is an x, which may be no field element or no x-coordinate, or a point;
\* r and s of a Sig built without check_validity are anything.  A Sig is here
\* when its curve is the batch's, which is the first signature's.
Key == [x : Nat] \cup [point : Finite]
Sig == [r : Nat, s : Nat, here : BOOLEAN]
Batch == [msgs : Seq(Msg), Qs : Seq(Key), sigs : Seq(Sig)]

BatchAssumption ==
  /\ Challenge \in [FieldElement \X FieldElement \X Msg -> Scalar]
  /\ Batches \subseteq Batch
  /\ \A call \in Batches : call.sigs # << >> => call.sigs[1].here

-----------------------------------------------------------------------------
(* Keys and signatures                                                     *)

IsPoint(Q) == "point" \in DOMAIN Q

\* _x_from_bip340pub_key: a point is proved to be a key, an x is not.
Readable(Q) == IsPoint(Q) => InSubgroup(Q.point)
XOfKey(Q)   == IF IsPoint(Q) THEN XOf[Q.point] ELSE Q.x

\* _y_even_in_subgroup_var: x names a point of even y, which is a multiple of G.
EvenPoint(x)      == Lift(x, 0)
LiftsInSubgroup(x) == IsXCoordinate(x) /\ InSubgroup(EvenPoint(x))

\* gen_keys: the private key whose point has an even y, and its x-coordinate.
KeyPair(q) ==
  LET Q == Mult(q, G)
  IN  [q |-> IF Parity(Q) = 1 THEN n - q ELSE q, x |-> XOf[Q]]

\* Sig.assert_valid.
ValidSig(sig)      == IsXCoordinate(sig.r) /\ sig.s \in Scalar

\* _assert_as_valid_: K = s*G - c*Q is finite, has an even y and r for its x.
EquationHolds(c, Q, r, s) ==
  LET K == Add(Mult(s, G), Mult(n - c, Q))
  IN  K # INF /\ Parity(K) = 0 /\ XOf[K] = r

\* assert_as_valid_, the refusal of a zero challenge included.
Accepts(msg, Q, sig) ==
  /\ ValidSig(sig)
  /\ Readable(Q)
  /\ LiftsInSubgroup(XOfKey(Q))
  /\ LET c == Challenge[sig.r, XOfKey(Q), msg]
     IN  c # 0 /\ EquationHolds(c, EvenPoint(XOfKey(Q)), sig.r, sig.s)

\* _recover_pub_key_: the x of (s*G - K)/c, or nothing.
\* Slip: the sum is not divided by the challenge.
RecoverPubKeyUndivided(c, r, s) ==
  IF c = 0 \/ ~LiftsInSubgroup(r) THEN {}
  ELSE LET Q == Add(Mult(n - 1, EvenPoint(r)), Mult(s, G))
       IN  IF Q = INF THEN {} ELSE {XOf[Q]}
RecoverPubKey(c, r, s) ==
  IF c = 0 \/ ~LiftsInSubgroup(r) THEN {}
  ELSE LET Q == Add(Mult(n - ModInv(c), EvenPoint(r)), Mult(ModInv(c) * s, G))
       IN  IF Q = INF THEN {} ELSE {XOf[Q]}

-----------------------------------------------------------------------------
(* A call of batch_verify_                                                 *)

VARIABLES
  batch,     \* the call
  stage,     \* "called", "terms" or an answer
  scalars,   \* the scalars of the terms gathered so far
  x_coords,  \* their x-coordinates
  t          \* the sum of the coefficients times the s

vars == <<batch, stage, scalars, x_coords, t>>

Answers == {"raised", "refused", "accepted"}

\* No more terms than signatures, and what _multi_mult_x_only_var asks of a
\* scalar: that it is in 1..n-1.
TypeOK ==
  /\ stage \in {"called", "terms"} \cup Answers
  /\ scalars \in Seq(1..(n - 1)) /\ x_coords \in Seq(FieldElement)
  /\ Len(scalars) = Len(x_coords) /\ Len(scalars) <= 2 * Len(batch.Qs)
  /\ t \in Nat

Init ==
  /\ batch \in Batches
  /\ stage = "called"
  /\ scalars = << >> /\ x_coords = << >> /\ t = 0

Size  == Len(batch.Qs)
Verdict(b) == IF b THEN "accepted" ELSE "refused"

\* _assert_batch_pub_keys_structurally_valid_, over the shorter of the two.
Structured ==
  \A i \in 1..Size : i <= Len(batch.sigs) => Readable(batch.Qs[i])

\* What assert_batch_as_valid_ asks of a batch of two and up.
\* Slip: the signatures are not asked whether they are any.
WellFormedUnasked ==
  /\ Len(batch.msgs) = Size /\ Len(batch.sigs) = Size
  /\ \A i \in 1..Size : batch.sigs[i].here
  /\ \A i \in 1..Size : IsXCoordinate(batch.sigs[i].r)
WellFormed ==
  /\ Len(batch.msgs) = Size /\ Len(batch.sigs) = Size
  /\ \A i \in 1..Size : batch.sigs[i].here
  /\ \A i \in 1..Size : ValidSig(batch.sigs[i])

Answer(a) == stage' = a /\ UNCHANGED <<batch, scalars, x_coords, t>>

Raise == stage = "called" /\ ~Structured /\ Answer("raised")

Single ==
  /\ stage = "called" /\ Structured
  /\ Size = 1 /\ Len(batch.msgs) = 1 /\ Len(batch.sigs) = 1
  /\ Answer(Verdict(Accepts(batch.msgs[1], batch.Qs[1], batch.sigs[1])))

Refuse ==
  /\ stage = "called" /\ Structured
  /\ Size = 0 \/ ~WellFormed
  /\ Size = 1 => Len(batch.msgs) # 1 \/ Len(batch.sigs) # 1
  /\ Answer("refused")

Start ==
  /\ stage = "called" /\ Structured
  /\ Size > 1 /\ WellFormed
  /\ Answer("terms")

\* One turn of the loop: the i-th signature's terms, or its refusal.
\* Where the cofactor leaves points outside <G>, the key and the nonce point.
\* Slip: the nonce point is not asked where it lies.
TermOKKeyOnly(x_Q, r) ==
  /\ x_Q \in FieldElement
  /\ h > 1 => LiftsInSubgroup(x_Q)
TermOK(x_Q, r) ==
  /\ x_Q \in FieldElement
  /\ h > 1 => LiftsInSubgroup(x_Q) /\ LiftsInSubgroup(r)

Coefficient(i) == IF i = 1 THEN {1} ELSE 1..(n - 1)

ChallengeOf(i) == Challenge[batch.sigs[i].r, XOfKey(batch.Qs[i]), batch.msgs[i]]

\* What the i-th signature adds to the scalars and to t.
\* Slip: nothing is multiplied by the coefficient.
WeighedBare(i, rand) == [ks |-> <<1, ChallengeOf(i)>>, t |-> batch.sigs[i].s]
Weighed(i, rand) ==
  [ks |-> <<rand, (rand * ChallengeOf(i)) % n>>, t |-> rand * batch.sigs[i].s]

Term ==
  /\ stage = "terms" /\ Len(scalars) < 2 * Size
  /\ LET i == 1 + Len(scalars) \div 2
     IN  IF TermOK(XOfKey(batch.Qs[i]), batch.sigs[i].r) /\ ChallengeOf(i) # 0
         THEN \E rand \in Coefficient(i) :
                /\ scalars'  = scalars \o Weighed(i, rand).ks
                /\ x_coords' = x_coords \o <<batch.sigs[i].r, XOfKey(batch.Qs[i])>>
                /\ t'        = t + Weighed(i, rand).t
                /\ UNCHANGED <<batch, stage>>
         ELSE Answer("refused")

\* _multi_mult_x_only_var: the sum, where every x is an x-coordinate.
PartialSums(ks, xs) ==
  LET upTo[i \in 0..Len(ks)] ==
        IF i = 0 THEN INF ELSE Add(upTo[i - 1], Mult(ks[i], EvenPoint(xs[i])))
  IN  upTo
MultiMultXOnly(ks, xs) == PartialSums(ks, xs)[Len(ks)]
AllLift(xs) == \A i \in DOMAIN xs : IsXCoordinate(xs[i])

Compare ==
  /\ stage = "terms" /\ Len(scalars) = 2 * Size
  /\ Answer(Verdict(AllLift(x_coords) /\ Mult(t, G) = MultiMultXOnly(scalars, x_coords)))

Next == Raise \/ Single \/ Refuse \/ Start \/ Term \/ Compare

Spec == Init /\ [][Next]_vars

-----------------------------------------------------------------------------
(* Properties                                                              *)

Items   == 1..Size
Aligned == Len(batch.msgs) = Size /\ Len(batch.sigs) = Size
Good(i) == Accepts(batch.msgs[i], batch.Qs[i], batch.sigs[i])
Spoiled == {i \in Items : ~Good(i)}

\* A batch whose signatures all verify is accepted whatever is drawn, and so is
\* none whose one bad signature is among good ones: not by a coefficient that
\* hides a point of small order, an s past n, or a zero challenge.
BatchSaysWhatSinglesSay ==
  stage \in Answers /\ Aligned /\ Size > 0 /\ (\A i \in Items : batch.sigs[i].here)
    => /\ Spoiled = {} => stage = "accepted"
       /\ Cardinality(Spoiled) = 1 => stage # "accepted"

\* What cannot be compared is never accepted: no signature at all, one list
\* longer than another, signatures of two curves.
OddBatchesRefused ==
  stage = "accepted"
    => Size > 0 /\ Aligned /\ \A i \in Items : batch.sigs[i].here

AtLastDraw ==
  /\ stage = "terms" /\ Size > 1 /\ Len(scalars) = 2 * (Size - 1)
  /\ \A i \in Items : /\ IsXCoordinate(XOfKey(batch.Qs[i]))
                      /\ TermOK(XOfKey(batch.Qs[i]), batch.sigs[i].r)

\* Whether the batch is accepted if rand is the last draw.
FooledBy(rand) ==
  /\ ChallengeOf(Size) # 0
  /\ Mult(t + Weighed(Size, rand).t, G)
       = MultiMultXOnly(scalars \o Weighed(Size, rand).ks,
                        x_coords \o <<batch.sigs[Size].r, XOfKey(batch.Qs[Size])>>)

\* Bad signatures that would make up for one another do so for one coefficient
\* at most: at the last draw, two coefficients never both lead to acceptance.
OneCoefficientFools ==
  AtLastDraw /\ ~Good(Size)
    => Cardinality({rand \in Coefficient(Size) : FooledBy(rand)}) <= 1

\* The key a signature was made under is the one recovered from it: no other
\* key has that signature, for its challenge.
RecoveredKeyIsTheSigners ==
  stage = "called" /\ Aligned
    => \A i \in Items :
         Good(i) => RecoverPubKey(Challenge[batch.sigs[i].r, XOfKey(batch.Qs[i]),
                                            batch.msgs[i]],
                                  batch.sigs[i].r, batch.sigs[i].s)
                      = {XOfKey(batch.Qs[i])}

\* What the loop has when m signatures are behind it: their terms, and a sum that
\* is t*G where all of them are good, and is not where one of them alone is bad.
BadTo(m) == {i \in 1..m : ~Good(i)}
Gathered(m) ==
  /\ Len(scalars) = 2 * m
  /\ \A i \in 1..m : /\ TermOK(XOfKey(batch.Qs[i]), batch.sigs[i].r) /\ ChallengeOf(i) # 0
                     /\ x_coords[2 * i - 1] = batch.sigs[i].r
                     /\ x_coords[2 * i] = XOfKey(batch.Qs[i])
  /\ AllLift(x_coords) =>
       \E S \in Scalar :
         /\ MultiMultXOnly(scalars, x_coords) = Mult(S, G)
         /\ BadTo(m) = {} => t % n = S
         /\ \A i \in 1..m : BadTo(m) = {i} => t % n # S

Inv ==
  /\ TypeOK /\ batch \in Batches
  /\ stage = "called" => scalars = << >> /\ x_coords = << >> /\ t = 0
  /\ stage = "terms" =>
       Structured /\ Size > 1 /\ WellFormed /\ \E m \in 0..Size : Gathered(m)
  /\ BatchSaysWhatSinglesSay /\ OddBatchesRefused
=============================================================================
