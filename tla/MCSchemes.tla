----------------------------- MODULE MCSchemes -----------------------------
(***************************************************************************)
(* The signature schemes beside MuSig2 and ECDSA, and the proofs, each on  *)
(* a small instance: a behaviour is one of the parts', in the registers v1 *)
(* to v8.                                                                  *)
(***************************************************************************)
EXTENDS Integers, Sequences, SequencesExt, TLC

CONSTANTS
  Parts,                                   \* the parts that are checked
  Bad, Unknown, NoOther, none, NoAdaptor,  \* what stands for octets, or for None
  m1, m2, s1, s2                           \* messages and slots

VARIABLES part, v1, v2, v3, v4, v5, v6, v7, v8

vars == <<part, v1, v2, v3, v4, v5, v6, v7, v8>>

SlotSymmetry == Permutations({s1, s2})

-----------------------------------------------------------------------------
(* FROST in a group of seven elements.  Three participants hold shares of  *)
(* a line through (-1, 3), so that any two of them can sign and the        *)
(* threshold key has an odd y-coordinate.                                  *)

Code(m) == IF m = m1 THEN 1 ELSE 3

FrostChallenge ==
  [x \in (0..6) \X (0..6) \X {m1, m2} |-> (x[1] + 2 * x[2] + 3 * Code(x[3])) % 7]
FrostCoefficient ==
  [x \in (SUBSET (0..3)) \X (0..6) \X (0..6) \X (1..6) \X {m1, m2} |->
    (FoldSet(+, 0, x[1]) + 2 * x[2] + x[3] + 3 * x[4] + Code(x[5])) % 7]

Tw(t, x) == [t |-> t, is_xonly |-> x]
Plan(t, ids, shares, thresh_pk, tweaks, m) ==
  [total |-> 3, t |-> t, ids |-> ids, pub_shares |-> shares, thresh_pk |-> thresh_pk,
   tweaks |-> tweaks, msg |-> m]

\* The life of a nonce: signers 0 and 1, then 2 and 0, with and without their
\* shares, and a session that does not come together.
LifePlans ==
  {Plan(2, <<0, 1>>, Unknown, 3, << >>, m1),
   Plan(2, <<2, 0>>, <<6, 4>>, 3, << >>, m2),
   Plan(2, <<1, 1>>, Unknown, 3, << >>, m1)}

\* One session: every subset that may sign, out of order, with tweaks of both
\* kinds; then sessions of the wrong number of signers, with an identifier out
\* of range, a share that does not parse, shares of another key, a key that
\* does not parse, tweaks out of range or cancelling.
SumPlans ==
  {Plan(2, x[1], x[2], 3, tweaks, m1) :
     x \in {<<<<0, 1>>, <<4, 5>>>>, <<<<2, 0>>, Unknown>>},
     tweaks \in {<< >>, <<Tw(1, TRUE)>>, <<Tw(2, FALSE), Tw(5, TRUE)>>}}
  \cup {Plan(2, <<1, 2>>, <<5, 6>>, 3, <<Tw(1, TRUE), Tw(6, FALSE)>>, m2),
        Plan(3, <<2, 0, 1>>, Unknown, 3, <<Tw(4, TRUE)>>, m2),
        Plan(1, <<1>>, <<4>>, 4, <<Tw(6, TRUE)>>, m1),
        Plan(4, <<0, 1>>, Unknown, 3, << >>, m1),
        Plan(2, <<0>>, Unknown, 3, << >>, m1),
        Plan(2, <<0, 1>>, <<4>>, 3, << >>, m1),
        Plan(2, <<0, 3>>, <<4, 5>>, 3, << >>, m1),
        Plan(2, <<0, 1>>, <<4, Bad>>, 3, << >>, m1),
        Plan(2, <<0, 1>>, <<4, 6>>, 3, << >>, m1),
        Plan(2, <<0, 1>>, <<1, 2>>, 3, << >>, m1),
        Plan(2, <<0, 1>>, Unknown, Bad, << >>, m1),
        Plan(2, <<0, 1>>, Unknown, 3, <<Tw(7, FALSE)>>, m1)}
  \cup {Plan(2, <<1, 0>>, <<5, 4>>, 3, <<Tw(t, FALSE)>>, m2) : t \in {0, 3, 4}}

\* deterministic_sign: one session under several orders and sets of signers.
DetPlans ==
  {Plan(2, <<0, 1>>, <<4, 5>>, 3, <<Tw(1, TRUE)>>, m1),
   Plan(2, <<1, 0>>, Unknown, 3, <<Tw(1, TRUE)>>, m1),
   Plan(2, <<0, 2>>, <<4, 6>>, 3, <<Tw(1, TRUE)>>, m1),
   Plan(2, <<2, 1, 0>>, Unknown, 3, <<Tw(1, TRUE)>>, m1),
   Plan(1, <<0>>, <<4>>, 4, <<Tw(2, FALSE)>>, m2),
   Plan(2, <<0, 0>>, Unknown, 3, << >>, m1)}

FrostShares == [i \in 0..2 |-> 4 + i]

FrostLife == INSTANCE Frost WITH
  n <- 7, OddY <- {3, 5, 6}, Msg <- {m1, m2}, MaxParticipants <- 3, DealtShare <- FrostShares,
  Challenge <- FrostChallenge, NonceCoeffHash <- FrostCoefficient, Slot <- {s1, s2},
  Plans <- LifePlans, NoncePairs <- {<<2, 3>>}, ForeignPubNonce <- {<<Bad, 1>>, <<1, Bad>>},
  ForeignNonce <- {<<4, 0>>, <<Bad, 1>>}, MaxSessions <- 2, MaxDetSigs <- 0,
  secNonce <- v1, pubNonce <- v2, sessions <- v3, psigs <- v4, detSigs <- v5, outcome <- v6

FrostSums == INSTANCE Frost WITH
  n <- 7, OddY <- {3, 5, 6}, Msg <- {m1, m2}, MaxParticipants <- 3, DealtShare <- FrostShares,
  Challenge <- FrostChallenge, NonceCoeffHash <- FrostCoefficient, Slot <- {s1, s2},
  Plans <- SumPlans, NoncePairs <- {<<2, 3>>, <<5, 1>>}, ForeignPubNonce <- {<<3, 6>>},
  ForeignNonce <- {}, MaxSessions <- 1, MaxDetSigs <- 0,
  secNonce <- v1, pubNonce <- v2, sessions <- v3, psigs <- v4, detSigs <- v5, outcome <- v6

FrostDet == INSTANCE Frost WITH
  n <- 7, OddY <- {3, 5, 6}, Msg <- {m1, m2}, MaxParticipants <- 3, DealtShare <- FrostShares,
  Challenge <- FrostChallenge, NonceCoeffHash <- FrostCoefficient, Slot <- {},
  Plans <- DetPlans, NoncePairs <- {<<2, 3>>, <<5, 1>>}, ForeignPubNonce <- {},
  ForeignNonce <- {<<1, 2>>, <<5, 5>>, <<0, 4>>, <<4, Bad>>}, MaxSessions <- 0,
  MaxDetSigs <- 2,
  secNonce <- v1, pubNonce <- v2, sessions <- v3, psigs <- v4, detSigs <- v5, outcome <- v6

-----------------------------------------------------------------------------
(* MuSig2's deterministic_sign in the same group, where its own runs do    *)
(* not call it: two signers, tweaks of both kinds and adaptors, and what   *)
(* the others' nonces may add up to.                                       *)

MuSigPlan(pks, tweaks, m, a) == [pks |-> pks, tweaks |-> tweaks, msg |-> m, adaptor |-> a]
MuSigPlans ==
  {MuSigPlan(<<2, 3>>, tweaks, m1, a) :
     tweaks \in {<< >>, <<Tw(3, TRUE)>>, <<Tw(2, FALSE), Tw(5, TRUE)>>}, a \in {NoAdaptor, 2, 5}}
  \cup {MuSigPlan(<<3, 3>>, <<Tw(3, TRUE)>>, m1, NoAdaptor),
        MuSigPlan(<<5, 2>>, <<Tw(7, FALSE)>>, m1, NoAdaptor),
        MuSigPlan(<<3>>, <<Tw(1, TRUE), Tw(6, FALSE)>>, m2, NoAdaptor),
        MuSigPlan(<<2, 3, 5>>, <<Tw(4, TRUE), Tw(4, TRUE)>>, m2, NoAdaptor),
        MuSigPlan(<<2, 3>>, << >>, m2, Bad)}
  \cup {MuSigPlan(<<2, 3>>, <<Tw(t, FALSE)>>, m2, NoAdaptor) : t \in 0..6}
MuSigCoefficient ==
  [x \in (0..6) \X (0..6) \X (1..6) \X {m1, m2} |->
    (2 * x[1] + x[2] + 3 * x[3] + Code(x[4])) % 7]
MuSigKeyHash ==
  [x \in {plan.pks : plan \in MuSigPlans} \X (1..6) |-> (3 * x[2] + Len(x[1])) % 7]

MuSigDet == INSTANCE MuSig2 WITH
  n <- 7, OddY <- {3, 5, 6}, Msg <- {m1, m2}, Challenge <- FrostChallenge,
  KeyCoeffHash <- MuSigKeyHash, NonceCoeffHash <- MuSigCoefficient, PrvKeys <- {2, 3},
  Slot <- {}, Plans <- MuSigPlans, NoncePairs <- {<<2, 3>>, <<5, 1>>}, ForeignPubNonce <- {},
  ForeignNonce <- {<<1, 0>>, <<4, 2>>, <<5, 5>>, <<3, 6>>}, MaxSessions <- 0, MaxDetSigs <- 1,
  secNonce <- v1, pubNonce <- v2, sessions <- v3, psigs <- v4, detSigs <- v5, outcome <- v6

-----------------------------------------------------------------------------
(* FROST's key material of three participants in a group of five elements. *)

Keys == INSTANCE KeyMaterial WITH
  n <- 5, MaxParticipants <- 3, Total <- 3,
  t <- v1, thresh_pk <- v2, pub_shares <- v3, verdict <- v4

-----------------------------------------------------------------------------
(* The tests' curves ec17_13, whose order is below its field's, and        *)
(* ec31_13h3, as the multiples of a point that reaches them all.           *)

Curve17 == INSTANCE JacobianGroup WITH p <- 17, a <- 6, b <- 8
Curve31 == INSTANCE JacobianGroup WITH p <- 31, a <- 0, b <- 10

Xs(times)   == [k \in 1..(Cardinality(DOMAIN times) - 1) |-> times[k][1]]
Odds(times) == {k \in DOMAIN times \ {0} : times[k][2] % 2 = 1}

X17   == Xs(Curve17!Multiples(<<0, 12>>, 12))
Odd17 == Odds(Curve17!Multiples(<<0, 12>>, 12))
X31   == Xs(Curve31!Multiples(<<21, 8>>, 38))
Odd31 == Odds(Curve31!Multiples(<<21, 8>>, 38))

-----------------------------------------------------------------------------
(* Anti-exfil over ec17_13, with hashes that tell their inputs apart and   *)
(* draw tweaks out of range before one in it.                              *)

EntropyCode(e) ==
  IF e = << >> THEN 2
  ELSE IF e[1] = "aux" THEN 4 * e[2]
  ELSE IF Len(e[2]) = 1 THEN 3 * e[2][1] + 1
  ELSE 5 * e[2][1] + 2 * e[2][2]
Entropies ==
  {<< >>} \cup {<<"aux", aux>> : aux \in {1, 2}}
    \cup {<<"committed", x>> : x \in ({1, 2} \X {1, 2}) \cup {<<1>>, <<2>>}}
ExfilNonce == [t \in {1, 2} \X Entropies |-> 1 + ((5 * t[1] + EntropyCode(t[2])) % 12)]
ExfilDraws ==
  [t \in (1..12) \X {1, 2} |->
    <<(3 * t[1] + 7 * t[2]) % 16, (t[1] + t[2]) % 16, 1 + ((2 * t[1] + 3 * t[2]) % 12)>>]
DsaChallenge == [t \in {1, 2} \X (0..16) |-> (5 * t[1]) % 13]
SsaChallenge == [t \in {1, 2} \X (0..16) |-> (4 * t[1] + 3 * t[2]) % 13]

ExfilDsa == INSTANCE AntiExfil WITH
  p <- 17, n <- 13, h <- 1, XOf <- X17, OddY <- Odd17, Scheme <- "dsa", Msg <- {1, 2},
  Rho <- {1, 2}, Aux <- {1, 2}, prvKey <- 4, NonceHash <- ExfilNonce,
  TweakDraws <- ExfilDraws, Challenge <- DsaChallenge, MaxRestarts <- 2, MaxCalls <- 3,
  exch <- v1, host <- v2, honest <- v3, points <- v4, sigs <- v5, early <- v6, made <- v7,
  calls <- v8

ExfilSsa == INSTANCE AntiExfil WITH
  p <- 17, n <- 13, h <- 1, XOf <- X17, OddY <- Odd17, Scheme <- "ssa", Msg <- {1, 2},
  Rho <- {1, 2}, Aux <- {1, 2}, prvKey <- 4, NonceHash <- ExfilNonce,
  TweakDraws <- ExfilDraws, Challenge <- SsaChallenge, MaxRestarts <- 2, MaxCalls <- 3,
  exch <- v1, host <- v2, honest <- v3, points <- v4, sigs <- v5, early <- v6, made <- v7,
  calls <- v8

-----------------------------------------------------------------------------
(* Ring signatures in a group of five elements: one and two rings of one   *)
(* to three keys, and challenges that take every value, zero included; the *)
(* first challenge of a ring hashes e0, the others a point.                *)

RingHash(m, R, i, j) ==
  IF j = 1 THEN (R[1][1] * 3 + FoldLeft(+, 0, Tail(R[1])) + R[2] + 2 * i) % 5
  ELSE (3 * R + m + i + j) % 5

Ring == INSTANCE Borromean WITH
  n <- 5, Msg <- {1}, MaxIndex <- 3, Hash <- RingHash,
  RingLists <- {<<<<2>>>>, <<<<2, 4, 1>>>>, <<<<1, 3>>, <<4>>>>, <<<<3>>, <<2, 1>>>>,
                <<<<1, Bad>>>>, << >>},
  call <- v1, e <- v2, s <- v3, r <- v4, lasts <- v5, e0 <- v6, pc <- v7, result <- v8

-----------------------------------------------------------------------------
(* Batches of up to three signatures, good and spoiled, on the two curves, *)
(* under a hash with some zeros.                                           *)

SigChallenge(p) ==
  [a3 \in (0..(p - 1)) \X (0..(p - 1)) \X {1, 2} |-> (3 * a3[1] + 5 * a3[2] + 7 * a3[3] + 9) % 13]
Over17 == [p |-> 17, h |-> 1, XOf |-> X17, OddY |-> Odd17, Challenge |-> SigChallenge(17)]
Over31 == [p |-> 31, h |-> 3, XOf |-> X31, OddY |-> Odd31, Challenge |-> SigChallenge(31)]

Signing(c, Batches) == INSTANCE SchnorrBatch WITH
  p <- c.p, n <- 13, h <- c.h, XOf <- c.XOf, OddY <- c.OddY, Msg <- {1, 2},
  Challenge <- c.Challenge, batch <- v1, stage <- v2, scalars <- v3, x_coords <- v4, t <- v5

\* What sign_ returns, if it returns: c = 0 cannot be signed.
SignedBy(c, q, k, msg) ==
  LET key   == Signing(c, {})!KeyPair(q)
      nonce == Signing(c, {})!KeyPair(k)
  IN  [msg |-> msg, Q |-> [x |-> key.x],
       sig |-> [r |-> nonce.x, here |-> TRUE,
                s |-> (nonce.q + c.Challenge[nonce.x, key.x, msg] * key.q) % 13]]
CanSign(c, i) == c.Challenge[i.sig.r, i.Q.x, i.msg] # 0
HonestItems(c) ==
  {i \in {SignedBy(c, q, k, msg) : q \in {1, 2}, k \in {3, 4}, msg \in {1, 2}} : CanSign(c, i)}
One(c) == SignedBy(c, 1, 3, 1)
Two(c) == SignedBy(c, 2, 4, 2)
Off(i, d) == [i EXCEPT !.sig.s = (@ + d) % 13]

\* The points of even y that are no multiple of the generator.
OutsidePoints(c) ==
  {P \in 1..(13 * c.h - 1) : ~Signing(c, {})!InSubgroup(P) /\ Signing(c, {})!Parity(P) = 0}

\* An s or an x off, past its range or of no point, another message, another
\* curve, a key that is a point, a nonce point off by one of small order.
SpoiledItems(c) ==
  LET notX == {x \in 0..(c.p - 1) : ~Signing(c, {})!IsXCoordinate(x)}
  IN  {Off(i, d) : i \in {One(c), Two(c)}, d \in {1, 12}}
        \cup {[i EXCEPT !.sig.s = @ + 13] : i \in {One(c), Two(c)}}
        \cup {[i EXCEPT !.sig.s = 13] : i \in {i \in HonestItems(c) : i.sig.s = 0}}
        \cup {[One(c) EXCEPT !.sig.r = x] : x \in notX}
        \cup {[One(c) EXCEPT !.Q.x = x] : x \in {c.p} \cup notX}
        \cup {[One(c) EXCEPT !.msg = 2], [One(c) EXCEPT !.sig.here = FALSE]}
        \cup {[One(c) EXCEPT !.Q = [point |-> P]] : P \in {c.h, 12 * c.h} \cup OutsidePoints(c)}
        \cup {[One(c) EXCEPT !.sig.r = c.XOf[P]] : P \in OutsidePoints(c)}

\* Zero challenges, s*G being the nonce point.
DegenerateItems(c) ==
  {[msg |-> msg, Q |-> [x |-> c.XOf[c.h]],
    sig |-> [r |-> Signing(c, {})!KeyPair(k).x, s |-> Signing(c, {})!KeyPair(k).q,
             here |-> TRUE]] :
    <<k, msg>> \in {km \in (1..12) \X {1, 2} :
                      c.Challenge[c.XOf[km[1] * c.h], c.XOf[c.h], km[2]] = 0}}

BatchOf(items) ==
  [msgs |-> [i \in DOMAIN items |-> items[i].msg],
   Qs   |-> [i \in DOMAIN items |-> items[i].Q],
   sigs |-> [i \in DOMAIN items |-> items[i].sig]]

\* One, two and three signatures, two whose errors cancel under the same
\* coefficient among them, and lists of unequal lengths.
BatchesFrom(c, items) ==
  {call \in {BatchOf(list) :
               list \in {<<i>> : i \in items} \cup {<<i, j>> : i, j \in items}
                        \cup {<<One(c), i, Two(c)>> : i \in items}
                        \cup {<<Off(One(c), 1), Off(Two(c), 12), One(c)>>}} : call.sigs[1].here}
  \cup {[msgs |-> << >>, Qs |-> << >>, sigs |-> << >>],
        [BatchOf(<<One(c), Two(c)>>) EXCEPT !.msgs = <<1>>],
        [BatchOf(<<One(c), Two(c)>>) EXCEPT !.sigs = <<One(c).sig>>],
        [BatchOf(<<One(c)>>) EXCEPT !.sigs = <<One(c).sig, Two(c).sig>>],
        [BatchOf(<<One(c)>>) EXCEPT !.Qs = << >>]}

Batches17 == BatchesFrom(Over17, HonestItems(Over17) \cup SpoiledItems(Over17)
                                   \cup DegenerateItems(Over17))
Batches31 == BatchesFrom(Over31, HonestItems(Over31) \cup SpoiledItems(Over31)
                                   \cup DegenerateItems(Over31))

Batch17 == INSTANCE SchnorrBatch WITH
  p <- 17, n <- 13, h <- 1, XOf <- X17, OddY <- Odd17, Msg <- {1, 2},
  Challenge <- Over17.Challenge, Batches <- Batches17,
  batch <- v1, stage <- v2, scalars <- v3, x_coords <- v4, t <- v5

Batch31 == INSTANCE SchnorrBatch WITH
  p <- 31, n <- 13, h <- 3, XOf <- X31, OddY <- Odd31, Msg <- {1, 2},
  Challenge <- Over31.Challenge, Batches <- Batches31,
  batch <- v1, stage <- v2, scalars <- v3, x_coords <- v4, t <- v5

-----------------------------------------------------------------------------
(* Proofs of equal logarithms, in a group of five elements and words of    *)
(* three bits, so that challenges are n or above as well.                  *)

Number(m) == IF m = none THEN 0 ELSE 1
DleqAuxHash(aux) == (11 * aux + 6) % 8
DleqNonceHash(t, A, C, m) == (7 * t + 5 * A + 3 * C + 9 * Number(m) + t * A * C) % 8
DleqChallengeHash(A, B, C, gen, R1, R2, m) ==
  (3 * A + 5 * B + 7 * C + 11 * gen + 13 * R1 + 9 * R2 * R1 + A * R2 + 6 * Number(m)) % 8

Equal == INSTANCE Dleq WITH
  n <- 5, w <- 3, Msg <- {none, m1}, Aux <- {0, 1}, MaxProofs <- 2,
  AuxHash <- DleqAuxHash, NonceHash <- DleqNonceHash, ChallengeHash <- DleqChallengeHash,
  key <- v1, made <- v2, failure <- v3, claim <- v4

-----------------------------------------------------------------------------
(* Range proofs.  First values of six bits, words of eight and a group of  *)
(* 251 elements: every value, up to three rings; and commitments whose     *)
(* part along G does not matter, under every small header.                 *)

Mix(xs) == FoldLeft(LAMBDA acc, x : (acc * 13 + x * 7 + 5) % 1009, 1, xs)
RangeHash(m, r, i, j) == (Mix(m) + 11 * Mix(r) + 17 * i + 29 * j) % 256
RangeBlock(seed, k)   == (Mix(seed) * (2 * k + 1) + 37 * k * k + 3) % 256

ProofCalls ==
  {c \in [blind : {5}, value : 0..63, nonce : {1, 3}, gen : {<<0, 1>>}, min : {0, 1, 5},
          exp : -1..1, bits : {0, 4, 6}, message : {<<21, 0, 9>>}, extra : {<<7>>}] :
     c.min <= c.value}
  \cup [blind : {0}, value : {3}, nonce : {1}, gen : {<<0, 1>>}, min : {0, 4}, exp : {0},
        bits : {0}, message : {<< >>, <<1, 2, 3, 4, 5>>}, extra : {<< >>}]
  \cup [blind : {2}, value : {9}, nonce : {1, 2}, gen : {<<0, 1>>, <<0, 3>>, <<0, 0>>},
        min : {0, 1}, exp : {0, 1}, bits : {0},
        message : {<< >>, <<1, 2, 3, 4>>, <<1, 2, 3, 4, 5>>}, extra : {<< >>}]

Narrow == INSTANCE RangeHeader WITH W <- 6, MaxExp <- 1
Wide   == INSTANCE RangeHeader WITH W <- 8, MaxExp <- 2

ClaimedHeaders ==
  {hd \in [exp : {-1, 0, 1}, mantissa : 0..6, min : {{}, {1}, {5}}] : Narrow!ValidHeader(hd)}
StatedValues(rings) == IF rings < 3 THEN 0..90 ELSE {0, 1, 2, 3, 4, 8, 10, 12, 40, 80}
ProofClaims ==
  UNION {[proof : [hd : {hd}, stated : [1..(Narrow!Rings(hd) - 1) ->
                                 {<<1, v>> : v \in StatedValues(Narrow!Rings(hd))}]],
          commitment : {<<2, v>> : v \in 0..80}, gen : {<<0, 1>>}] : hd \in ClaimedHeaders}

Proof == INSTANCE RangeProof WITH
  W <- 6, MaxExp <- 1, n <- 251, w <- 8, Block <- RangeBlock, Hash <- RangeHash,
  MaxRejected <- 3, Calls <- ProofCalls, Claims <- ProofClaims, Requests <- {},
  Strings <- {}, call <- v1, proof <- v2, reader <- v3, result <- v4

\* Then headers for values of eight bits: low and high floors under every value
\* at every exponent and precision, and octets of every shape.
HeaderRequests ==
  {r \in [value : 0..255, min : 0..255, exp : -1..2, bits : 0..8] :
     r.min <= r.value /\ (r.min < 12 \/ r.value - r.min < 30 \/ r.value \in {127, 128, 255})}
  \cup [value : {256}, min : {0}, exp : {0}, bits : {0}]
  \cup [value : {3}, min : {4}, exp : {0}, bits : {0}]
  \cup [value : {3}, min : {0}, exp : {-2, 3}, bits : {0}]
  \cup [value : {3}, min : {0}, exp : {0}, bits : {9}]

Flags == {0, 1, 31, 32, 33, 63, 64, 65, 66, 95, 96, 97, 98, 127, 128, 192, 224}
WordCounts == {Wide!Words(m) : m \in 0..8}
SignFields == {0, 1, 2, 3, 7, 8, 15, 16}
HeaderStrings ==
  (Flags \X WordCounts) \cup (Flags \X (0..8) \X WordCounts)
    \cup (Flags \X (0..8) \X SignFields \X WordCounts)
    \cup ({f \in Flags : f > 95} \X (0..8) \X {0, 1, 255} \X SignFields \X WordCounts)

Header == INSTANCE RangeProof WITH
  W <- 8, MaxExp <- 2, n <- 257, w <- 9, Block <- RangeBlock, Hash <- RangeHash,
  MaxRejected <- 3, Calls <- {}, Claims <- {}, Requests <- HeaderRequests,
  Strings <- HeaderStrings, call <- v1, proof <- v2, reader <- v3, result <- v4

-----------------------------------------------------------------------------
ASSUME InstancesAssumption ==
  /\ FrostLife!FrostAssumption /\ FrostSums!FrostAssumption /\ FrostDet!FrostAssumption
  /\ FrostSums!DealtSharesAgree
  /\ ExfilDsa!AntiExfilAssumption /\ ExfilSsa!AntiExfilAssumption
  /\ Ring!BorromeanAssumption /\ Batch17!BatchAssumption /\ Batch31!BatchAssumption
  /\ Equal!DleqAssumption /\ Proof!RangeProofAssumption /\ Header!RangeProofAssumption

Init ==
  /\ part \in Parts
  /\ \/ part = "frost life" /\ FrostLife!Init /\ v7 = << >> /\ v8 = << >>
     \/ part = "frost sums" /\ FrostSums!Init /\ v7 = << >> /\ v8 = << >>
     \/ part = "frost deterministic" /\ FrostDet!Init /\ v7 = << >> /\ v8 = << >>
     \/ part = "musig deterministic" /\ MuSigDet!Init /\ v7 = << >> /\ v8 = << >>
     \/ /\ part = "key material" /\ Keys!Init
        /\ v5 = << >> /\ v6 = << >> /\ v7 = << >> /\ v8 = << >>
     \/ part = "exfil dsa" /\ ExfilDsa!Init
     \/ part = "exfil ssa" /\ ExfilSsa!Init
     \/ part = "rings" /\ Ring!Init
     \/ part = "batch 17" /\ Batch17!Init /\ v6 = << >> /\ v7 = << >> /\ v8 = << >>
     \/ part = "batch 31" /\ Batch31!Init /\ v6 = << >> /\ v7 = << >> /\ v8 = << >>
     \/ /\ part = "dleq" /\ Equal!Init
        /\ v5 = << >> /\ v6 = << >> /\ v7 = << >> /\ v8 = << >>
     \/ /\ part = "range" /\ Proof!Init
        /\ v5 = << >> /\ v6 = << >> /\ v7 = << >> /\ v8 = << >>
     \/ /\ part = "header" /\ Header!Init
        /\ v5 = << >> /\ v6 = << >> /\ v7 = << >> /\ v8 = << >>

Next ==
  /\ UNCHANGED part
  /\ \/ part = "frost life" /\ FrostLife!Next /\ UNCHANGED <<v7, v8>>
     \/ part = "frost sums" /\ FrostSums!Next /\ UNCHANGED <<v7, v8>>
     \/ part = "frost deterministic" /\ FrostDet!Next /\ UNCHANGED <<v7, v8>>
     \/ part = "musig deterministic" /\ MuSigDet!Next /\ UNCHANGED <<v7, v8>>
     \/ part = "key material" /\ Keys!Next /\ UNCHANGED <<v5, v6, v7, v8>>
     \/ part = "exfil dsa" /\ ExfilDsa!Next
     \/ part = "exfil ssa" /\ ExfilSsa!Next
     \/ part = "rings" /\ Ring!Next
     \/ part = "batch 17" /\ Batch17!Next /\ UNCHANGED <<v6, v7, v8>>
     \/ part = "batch 31" /\ Batch31!Next /\ UNCHANGED <<v6, v7, v8>>
     \/ part = "dleq" /\ Equal!Next /\ UNCHANGED <<v5, v6, v7, v8>>
     \/ part = "range" /\ Proof!Next /\ UNCHANGED <<v5, v6, v7, v8>>
     \/ part = "header" /\ Header!Next /\ UNCHANGED <<v5, v6, v7, v8>>

Spec == Init /\ [][Next]_vars

-----------------------------------------------------------------------------
(* Properties *)

\* FROST's secret nonces keep the promise MuSig2's do: signing, misuse and
\* refusal do to a buffer exactly what OneTimeNonce allows (frost.py:800-930).
OneTimeNonces ==
  /\ part = "frost life" => FrostLife!Promise!Init
  /\ [][part = "frost life" =>
          FrostLife!Promise!Next \/ UNCHANGED FrostLife!Promise!vars]_vars

(* Every part's variables have their types; a ring signature in the making *)
(* is what its steps so far make of it.                                    *)
TypesHold ==
  /\ part = "frost life" => FrostLife!TypeOK
  /\ part = "frost sums" => FrostSums!TypeOK
  /\ part = "frost deterministic" => FrostDet!TypeOK
  /\ part = "musig deterministic" => MuSigDet!TypeOK
  /\ part = "exfil dsa" => ExfilDsa!TypeOK
  /\ part = "exfil ssa" => ExfilSsa!TypeOK
  /\ part = "rings" => Ring!Inv
  /\ part = "batch 17" => Batch17!Inv
  /\ part = "batch 31" => Batch31!Inv
  /\ part = "range" => Proof!TypeOK
  /\ part = "header" => Header!TypeOK

\* What a signer makes as it was told is accepted, by the library and by the
\* equation the other side checks, and nobody who did as told is blamed:
\* whatever the parities, the ring's shape, the subset of signers, the range's
\* precision or the accidents of the draws; and what is made has its type
\* (frost.py, musig2.py:914, ssa.py:1233-1356, borromean.py:505-657,
\* dleq.py:118-270, rangeproof.py:1119-1619).
HonestSignaturesVerify ==
  /\ TypesHold
  /\ part = "frost sums" => FrostSums!PartialSigsVerify
  /\ part = "frost deterministic" => FrostDet!DetSigsVerify
  /\ part = "frost life" => FrostLife!HonestNeverBlamed
  /\ part = "musig deterministic" => MuSigDet!DetSigsVerify
  /\ part = "exfil dsa" =>
       ExfilDsa!SigningVerifies /\ ExfilDsa!HonestAccepted /\ ExfilDsa!ReceiptOpens
  /\ part = "exfil ssa" =>
       ExfilSsa!SigningVerifies /\ ExfilSsa!HonestAccepted /\ ExfilSsa!ReceiptOpens
  /\ part = "rings" => Ring!SignaturesClose /\ Ring!OctetsReadBack
  /\ part = "dleq" => Equal!NeverImplausible
  /\ part = "range" => Proof!VerifiesWhatItWasWrittenFor /\ Proof!RewindReadsBack
  /\ part = "header" =>
       /\ Header!WrittenHeadersAreValid /\ Header!RangeHoldsTheValue
       /\ Header!DigitsAreReadBack
       /\ Header!WrittenIsParsed /\ Header!ParsedIsWrittenBack

\* FROST partial signatures that are all accepted aggregate to a valid
\* signature of the group's tweaked key, whichever subset signs and in
\* whichever order it is listed, and both ways to verify one agree
\* (frost.py:661-1040).
IdentifiableAbort ==
  part = "frost sums" =>
    FrostSums!IdentifiableAbort /\ FrostSums!OrderFree /\ FrostSums!WrapperAgrees

\* Public shares that pass validation are on one polynomial through the
\* threshold key, whichever of them the holder lacks, so that any subset of t
\* signs for that key (frost.py:285-470).
ValidatedMaterialSigns ==
  part = "key material" =>
    /\ Keys!ValidatedMaterialSigns /\ Keys!PassesIffOnPolynomial
    /\ Keys!CoefficientsAgree

\* Whatever the device sends and in whichever order, and however often the
\* exchange is restarted, the nonce of a signature the host accepts is up to
\* its sign a point the device sent while the host's randomness was secret,
\* moved by its tweak (dsa.py, ssa.py, anti-exfil).
OnlyPromisedNonce ==
  /\ part = "exfil dsa" => ExfilDsa!OnlyPromisedNonce
  /\ part = "exfil ssa" => ExfilSsa!OnlyPromisedNonce

\* A batch is accepted when every signature in it would be and refused when
\* one alone would not, whatever coefficients are drawn; errors that make up
\* for one another do so for one coefficient at most; what does not line up is
\* refused; and the key recovered from a signature is its signer's
\* (ssa.py:1400-1639).
BatchSaysWhatSinglesSay ==
  /\ part = "batch 17" =>
       /\ Batch17!BatchSaysWhatSinglesSay /\ Batch17!OddBatchesRefused
       /\ Batch17!OneCoefficientFools /\ Batch17!RecoveredKeyIsTheSigners
  /\ part = "batch 31" =>
       /\ Batch31!BatchSaysWhatSinglesSay /\ Batch31!OddBatchesRefused
       /\ Batch31!OneCoefficientFools /\ Batch31!RecoveredKeyIsTheSigners

\* Nothing false is proven and nothing else is told: rings of one opening state
\* a value of the header's range, a proof that was written opens at its digits
\* alone, no ring tells its signer, and a false equality of logarithms has one
\* challenge (rangeproof.py, borromean.py, dleq.py).
NothingFalseIsProven ==
  /\ part = "range" => Proof!RangeIsProven /\ Proof!OneKeyOpens
  /\ part = "rings" => Ring!AnyMemberCouldSign
  /\ part = "dleq" => Equal!FalseStatementsHaveOneChallenge /\ Equal!OneSpelling

\* No two different signatures or proofs share a secret nonce, be it kept in a
\* buffer or derived from what is signed (frost.py, dleq.py, anti-exfil).
NoncesAnswerOnce ==
  /\ part = "frost life" => FrostLife!NonceSignsOnce
  /\ part = "frost deterministic" => FrostDet!DetNonceBindsSession
  /\ part = "exfil dsa" => ExfilDsa!NonceSignsOnce
  /\ part = "exfil ssa" => ExfilSsa!NonceSignsOnce
  /\ part = "dleq" => Equal!NonceProvesOnce
=============================================================================
