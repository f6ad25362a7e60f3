---------------------------- MODULE MCAlgorithms ----------------------------
(***************************************************************************)
(* The arithmetic, keys as they are written and built, and what is derived *)
(* by hashing, each on a small instance: a behaviour is one of the parts', *)
(* in the registers v1 to v5.                                              *)
(***************************************************************************)
EXTENDS Integers, Sequences, FiniteSets

CONSTANTS
  Parts,       \* the parts that are checked
  Infinities,  \* first coordinates a caller spells infinity with
  Derivations  \* bound: nonces derived in a row

VARIABLES part, v1, v2, v3, v4, v5

vars == <<part, v1, v2, v3, v4, v5>>

-----------------------------------------------------------------------------
(* Moduli up to a bound, primes and composites, squares and even ones; for *)
(* the primality test numbers past its trial division, among them 8321, a  *)
(* strong pseudoprime to base 2, and 5459, a strong Lucas one.             *)

MaxModulus == 97
Of(op, as, ms) == [op : {op}, a : as, m : ms]
Batches(sizes, m) == UNION {[1..k -> 0..(m - 1)] : k \in sizes}
NumberCalls ==
  UNION {Of("sqrt", -2..m, {m}) \cup Of("tonelli", -2..m, {m}) : m \in 1..MaxModulus}
  \cup Of("xgcd", 0..12, 1..12)
  \cup UNION {Of("inv", -2..m, {m}) : m \in 1..12}
  \cup UNION {Of("batch", Batches(0..3, m), {m}) : m \in 1..6}
  \cup UNION {Of("batch", Batches(1..2, m), {m}) : m \in {8, 9, 11}}
  \cup UNION {Of("legendre", -3..m, {m}) : m \in {k \in 1..MaxModulus : k % 2 = 1}}
  \cup Of("prime", {0}, 0..60 \cup 1670..1770 \cup {2021, 5459, 5777, 8321} \cup 8310..8325)

Num == INSTANCE NumberTheory WITH
  Calls <- NumberCalls, pc <- v1, call <- v2, reg <- v3, out <- v4

-----------------------------------------------------------------------------
(* The walk in Jacobian coordinates on the tests' curves: ec17_13, where a *)
(* has no spelling of its own, and ec7_11, in whose characteristic the x   *)
(* of infinity vanishes.                                                   *)

Jac17 == INSTANCE JacobianWalk WITH
  p <- 17, a <- 6, b <- 8, J <- v1, K <- v2, P <- v3, R <- v4
Jac7 == INSTANCE JacobianWalk WITH
  p <- 7, a <- 4, b <- 6, J <- v1, K <- v2, P <- v3, R <- v4

-----------------------------------------------------------------------------
(* The multiplications over the free abelian group on two generators,      *)
(* where an answer is a pair of integers and what holds holds in every     *)
(* group. A Jacobian point counts the operations that made it.             *)

FreeZero == <<0, 0>>
FreeSum(x, y) == <<x[1] + y[1], x[2] + y[2]>>
FreeTwice(x) == FreeSum(x, x)
FreeOpposite(x) == <<-x[1], -x[2]>>

At(point) == [pt |-> point, adds |-> 0, dbls |-> 0]
FreeInfinity == At(FreeZero)
FreeDouble(Q) == [pt |-> FreeTwice(Q.pt), adds |-> Q.adds, dbls |-> Q.dbls + 1]
FreeAdd(Q, R) == [pt   |-> FreeSum(Q.pt, R.pt),
                  adds |-> Q.adds + R.adds + 1, dbls |-> Q.dbls + R.dbls]
FreeAddAff(Q, R) == FreeAdd(Q, At(R))
FreeNegate(Q) == [Q EXCEPT !.pt = FreeOpposite(Q.pt)]
FreePoint(Q) == Q.pt
Same(Q) == Q
Adds(Q) == Q.adds
Dbls(Q) == Q.dbls

First == At(<<1, 0>>)
Second == At(<<0, 1>>)

Free == INSTANCE Multiplications WITH
  INFJ <- FreeInfinity, DoubleJac <- FreeDouble, AddJac <- FreeAdd,
  NegateJac <- FreeNegate, INF <- FreeZero, DoubleAff <- FreeTwice, AddAff <- FreeSum,
  NegateAff <- FreeOpposite, AddJacAff <- FreeAddAff, JacFromAff <- At,
  AffFromJac <- FreePoint, BlindedJac <- Same,
  ScalarLen <- 5, FieldLen <- 8, MaxW <- 3, FixedPointW <- 6,
  Singles <- [m : -1..140, Q : {First}, w : 0..4],
  Pairs <- [u : -1..12, H : {First}, v : -1..12, Q : {Second, FreeNegate(First)},
            w : 0..4, fixed : {{}, {First}}],
  call <- v1, by <- v2, answer <- v3

-----------------------------------------------------------------------------
(* The same in Jacobian coordinates on ec7_11, so small that an            *)
(* accumulator keeps landing on table entries, their opposites and         *)
(* infinity.                                                               *)

C7 == INSTANCE JacobianGroup WITH p <- 7, a <- 4, b <- 6

G7      == C7!CurveFromAff(<<1, 2>>)
G7Twice == C7!CurveFromAff(C7!CurveToAff(C7!CurveDouble(G7)))

Double7(Q) == C7!CurveDouble(Q)
Add7(Q, R) == C7!CurveAdd(Q, R)
Negate7(Q) == C7!CurveNegate(Q)
DoubleAff7(Q) == C7!Double(Q)
AddAff7(Q, R) == C7!AddAff(Q, R)
NegateAff7(Q) == C7!CurveNegateAff(Q)
AddJacAff7(Q, R) == C7!CurveAddAff(Q, R)
FromAff7(Q) == C7!CurveFromAff(Q)
ToAff7(Q) == C7!CurveToAff(Q)
Blinded7(Q) == C7!CurveBlinded(Q)

OnCurve == INSTANCE Multiplications WITH
  INFJ <- C7!CurveInfinity, DoubleJac <- Double7, AddJac <- Add7, NegateJac <- Negate7,
  INF <- C7!INF, DoubleAff <- DoubleAff7, AddAff <- AddAff7, NegateAff <- NegateAff7,
  AddJacAff <- AddJacAff7, JacFromAff <- FromAff7, AffFromJac <- ToAff7,
  BlindedJac <- Blinded7,
  ScalarLen <- 4, FieldLen <- 8, MaxW <- 3, FixedPointW <- 3,
  Singles <- [m : 0..19, Q : {G7, C7!CurveBlinded(G7Twice), C7!CurveInfinity}, w : 1..4],
  Pairs <- [u : {0, 1, 2, 5, 6}, H : {G7, C7!CurveInfinity}, v : 0..6,
            Q : {C7!CurveBlinded(G7), C7!CurveNegate(G7), G7Twice, C7!CurveInfinity},
            w : {1, 2, 3}, fixed : {{}, {G7}}],
  call <- v1, by <- v2, answer <- v3

-----------------------------------------------------------------------------
(* The endomorphism on a curve of secp256k1's family, y^2 = x^3 + 5 over   *)
(* 97 elements, whose lattice has the shape of secp256k1's.                *)

Beta == 61   \* a cube root of one modulo 97
C97 == INSTANCE JacobianGroup WITH p <- 97, a <- 0, b <- 5

G97      == C97!CurveFromAff(<<1, 43>>)
G97Twice == C97!CurveFromAff(C97!CurveToAff(C97!CurveDouble(G97)))

Double97(Q) == C97!CurveDouble(Q)
Add97(Q, R) == C97!CurveAdd(Q, R)
Negate97(Q) == C97!CurveNegate(Q)
DoubleAff97(Q) == C97!Double(Q)
AddAff97(Q, R) == C97!AddAff(Q, R)
NegateAff97(Q) == C97!CurveNegateAff(Q)
AddJacAff97(Q, R) == C97!CurveAddAff(Q, R)
FromAff97(Q) == C97!CurveFromAff(Q)
ToAff97(Q) == C97!CurveToAff(Q)
Blinded97(Q) == C97!CurveBlinded(Q)
Endo97(Q) == [Q EXCEPT !.j = <<(@[1] * Beta) % 97, @[2], @[3]>>]

Endo == INSTANCE Endomorphism WITH
  INFJ <- C97!CurveInfinity, DoubleJac <- Double97, AddJac <- Add97,
  NegateJac <- Negate97, INF <- C97!INF, DoubleAff <- DoubleAff97, AddAff <- AddAff97,
  NegateAff <- NegateAff97, AddJacAff <- AddJacAff97, JacFromAff <- FromAff97,
  AffFromJac <- ToAff97, BlindedJac <- Blinded97, Endo <- Endo97,
  N <- 79, Lam <- 23, A1 <- 3, B1 <- -7, A2 <- 10, B2 <- 3, HalfLen <- 3,
  ScalarLen <- 7, FieldLen <- 8, MaxW <- 3, FixedPointW <- 4,
  Singles <- [m : 0..82, Q : {G97, C97!CurveBlinded(G97Twice), C97!CurveInfinity}, w : 1..3],
  Pairs <- [u : {0, 1, 7, 40, 78}, H : {G97, C97!CurveInfinity}, v : {0, 2, 23, 39, 79},
            Q : {C97!CurveBlinded(G97), C97!CurveNegate(G97), G97Twice},
            w : {1, 2, 3}, fixed : {{}, {G97}, {G97, G97Twice}}],
  call <- v1, by <- v2, answer <- v3

LatticeAssumption ==
  /\ (3 - 7 * 23) % 79 = 0 /\ (10 + 3 * 23) % 79 = 0
  /\ ToAff97(Endo97(G97)) = ToAff97(Endo!Times(23, G97))
  /\ ToAff97(Endo!Times(79, G97)) = C97!INF

-----------------------------------------------------------------------------
(* Multi multiplication over the free abelian group on four generators: an *)
(* element is an integer whose digits, in a base no coordinate gets to,    *)
(* are its coordinates.                                                    *)

VecSum(x, y) == x + y
VecTwice(x) == 2 * x
VecOpposite(x) == -x
Unit(i) == 150^(i - 1)

MultiOf(scalars, bosCoster) ==
  [scalars : scalars, bosCoster : bosCoster, points : {<<Unit(1), Unit(2), Unit(3), Unit(4)>>}]
\* As many points as scalars; the first two points of one call are the same.
Trim(c) == [c EXCEPT !.points = SubSeq(@, 1, Len(c.scalars))]
Doubled(c) == [c EXCEPT !.points[2] = c.points[1]]

MultiCalls ==
  LET twos   == MultiOf([1..2 -> 0..13], BOOLEAN)
                  \cup MultiOf({<<100, 1>>, <<89, 55>>, <<1, 64>>}, {TRUE})
      threes == MultiOf([1..3 -> 0..6], BOOLEAN)
      fours  == MultiOf([1..4 -> {0, 1, 4, 6, 7}], {FALSE})
  IN  {Trim(c) : c \in twos \cup threes \cup fours}
        \cup {Doubled(Trim(c)) : c \in MultiOf([1..3 -> {1, 2, 5}], {TRUE})}
        \cup MultiOf({<<1, 2>>, <<3, -1, 2, 2>>}, {FALSE})
        \cup {Trim(c) : c \in MultiOf({<<5>>}, {TRUE})}

Multi == INSTANCE MultiMult WITH
  INFJ <- 0, DoubleJac <- VecTwice, AddJac <- VecSum, NegateJac <- VecOpposite,
  INF <- 0, DoubleAff <- VecTwice, AddAff <- VecSum, NegateAff <- VecOpposite,
  AddJacAff <- VecSum, JacFromAff <- Same, AffFromJac <- Same, BlindedJac <- Same,
  ScalarLen <- 4, FieldLen <- 8, MaxW <- 3, FixedPointW <- 3,
  MultW <- 2, MultiMultW <- 3, Threshold <- 3, MaxSteps <- 30, Calls <- MultiCalls,
  call <- v1, pc <- v2, heap <- v3, steps <- v4, answer <- v5

-----------------------------------------------------------------------------
(* ElligatorSwift over a field of order 3 modulo 4 and 1 modulo 3, as      *)
(* secp256k1's is, and a curve of prime order, y^2 = x^3 + 3; halves up to *)
(* and past the field.                                                     *)

\* mod_sqrt_var where p is 3 modulo 4: a power of x.
Root19 ==
  LET power[x \in 0..18, e \in 0..5] == IF e = 0 THEN 1 ELSE (power[x, e - 1] * x) % 19
  IN  [x \in {(y * y) % 19 : y \in 0..18} |-> power[x, 5]]
C19 == INSTANCE JacobianGroup WITH p <- 19, a <- 0, b <- 3

Ell == INSTANCE Ellswift WITH
  p <- 19, b <- 3, Root <- Root19, Half <- 28, Keys <- C19!AffinePoints,
  point <- v1, draw <- v2, ell <- v3, decoded <- v4, raised <- v5

-----------------------------------------------------------------------------
(* An order of five bits in three octets of two, with digests as long and  *)
(* shorter ones: those are stretched, and do not divide the size.          *)

Octet(i) == <<"octet", i>>
Strings == {<< >>, <<Octet(0)>>, <<Octet(0), Octet(1)>>}
NonceCalls ==
  [kind : {"rfc6979"}, hf : {2}, q : {1, 16}, c : {0, 1}, extra : {<< >>, <<Octet(0)>>}]
  \cup [kind : {"rfc6979"}, hf : {3}, q : {1}, c : {0}, extra : {<< >>, <<Octet(0)>>}]
  \cup [kind : {"bip340"}, hf : {2, 3}, q : {2, 15}, aux : {<<Octet(0)>>, <<Octet(1)>>},
        msg : {<<Octet(0)>>}]
  \cup [kind : {"tweak"}, hf : {3}, receipt : {2, 15}, commit : Strings]
  \cup [kind : {"tweak"}, hf : {2}, receipt : {2}, commit : {<< >>}]

Non == INSTANCE Nonces WITH
  n <- 17, NLen <- 5, O <- 2, ExtraBits <- 2, MaxCalls <- Derivations, MaxRejected <- 2,
  Calls <- NonceCalls,
  call <- v1, state <- v2, tried <- v3, number <- v4, past <- v5

-----------------------------------------------------------------------------
(* Infos that a counter, or another info, may be mistaken for, and salts   *)
(* that are one to HMAC.                                                   *)

Kdf == INSTANCE KeyDerivation WITH
  HfSize <- 2, O <- 2, AnsiOctets <- 2, Secrets <- {<<0>>, <<1>>},
  Salts <- {<<>>, <<0>>, <<1>>, <<1, 0>>},
  Infos <- {<<>>, <<1>>, <<0, 1>>, <<1, 0>>}, Sizes <- {0, 1, 3, 6, 7, 30, 31},
  PrkSizes <- {0, 1, 2}, MaxCalls <- 2, calls <- v1

-----------------------------------------------------------------------------
(* Commitments on a curve of secp256k1's family, where seeds map to        *)
(* generators, and on one of cofactor three, where a caller may have any   *)
(* point of the curve for a generator, infinity as it may be spelled, or a *)
(* pair that is no point.                                                  *)

Squares79 == {(x * x) % 79 : x \in 1..78}
Squares19 == {(x * x) % 19 : x \in 1..18}
Curve79 == INSTANCE JacobianGroup WITH p <- 79, a <- 0, b <- 7
CurveOfThree == INSTANCE JacobianGroup WITH p <- 19, a <- 0, b <- 4

Seeded == INSTANCE Pedersen WITH
  p <- 79, a <- 0, b <- 7, xG <- 1, yG <- 18, n <- 67, h <- 1, O <- 7, Serves <- FALSE,
  Elements <- 0..78, Offered <- Curve79!AffinePoints \cup {C19!INF, <<1, 1>>, <<79, 1>>},
  Rs <- {0, 1, 2, 66, 67, 68}, Vs <- {0, 1, 66, 67, 68}, ReadOctets <- (7..12) \X (0..80),
  Squares <- Squares79,
  search <- v1, seed <- v2, gen <- v3, made <- v4, read <- v5

Searched == INSTANCE Pedersen WITH
  p <- 19, a <- 0, b <- 4, xG <- 1, yG <- 10, n <- 7, h <- 3, O <- 5, Serves <- FALSE,
  Elements <- {}, Offered <- CurveOfThree!AffinePoints \cup (Infinities \X {0})
                               \cup {<<1, 1>>, <<19, 1>>},
  Rs <- {0, 1, 2, 6, 7, 8}, Vs <- {0, 1, 6, 7, 8}, ReadOctets <- {},
  Squares <- Squares19,
  search <- v1, seed <- v2, gen <- v3, made <- v4, read <- v5

-----------------------------------------------------------------------------
(* Keys as they are spelled, on ec29_37, which the bindings are to serve,  *)
(* and on a curve of 17 with a cofactor of two.  Every spelling with a     *)
(* prefix up to 8 and as many octets as a point takes, one of each other   *)
(* length, and every pair of numbers up to the field.                      *)

Spelled(octets) == [spelled |-> "octets", as |-> octets]
SpelledKeys(p) ==
  {Spelled(octets) : octets \in (0..8) \X (0..31)}
    \cup {Spelled(octets) : octets \in (2..7) \X (0..31) \X (0..31)}
    \cup {Spelled(<<>>), Spelled(<<2>>), Spelled(<<p - 1>>), Spelled(<<4, 1, 2, 3>>)}
    \cup {[spelled |-> "pair", as |-> Q] : Q \in (-1..(p + 1)) \X (-1..(p + 1))}

Sec == INSTANCE SecPoint WITH
  p <- 29, a <- 4, b <- 9, xG <- 0, yG <- 3, n <- 37, h <- 1, O <- 5, Serves <- TRUE,
  Keys <- SpelledKeys(29), Multipliers <- {0, 1, 2, 36, 37, 38},
  key <- v1, by <- v2, said <- v3, answer <- v4

SecOfTwo == INSTANCE SecPoint WITH
  p <- 17, a <- 10, b <- 2, xG <- 0, yG <- 6, n <- 11, h <- 2, O <- 5, Serves <- FALSE,
  Keys <- SpelledKeys(17), Multipliers <- {0, 1, 2, 10, 11, 12},
  key <- v1, by <- v2, said <- v3, answer <- v4

-----------------------------------------------------------------------------
(* Key agreement on the curve of cofactor two: U is offered every pair     *)
(* that is on it, infinity in more spellings than one, and some that are   *)
(* not on it.                                                              *)

CurveOfTwo == INSTANCE JacobianGroup WITH p <- 17, a <- 10, b <- 2

OfferedPoints ==
  CurveOfTwo!Points \cup {CurveOfTwo!INF, <<1, 0>>, <<17, 1>>, <<1, 17>>} \cup ({0} \X (0..16))

Dh == INSTANCE KeyAgreement WITH
  p <- 17, a <- 10, b <- 2, xG <- 0, yG <- 6, n <- 11, h <- 2, O <- 5, Serves <- FALSE,
  Offered <- OfferedPoints, Secrets <- {0, 1, 3, 10, 11},
  secret <- v1, received <- v2, done <- v3, agreed <- v4

-----------------------------------------------------------------------------
(* Octets of five bits and an order of as many, so that half of the        *)
(* scalars need a pad.                                                     *)

Der == INSTANCE DerSig WITH
  n <- 29, NLen <- 5, RValues <- {1, 2, 5, 7, 15, 16, 18, 22, 28}, O <- 5,
  SigMarker <- 3, ScalarMarker <- 2, MaxSize <- 64, Pads <- {0, 1, 3, 26, 27, 28, 31},
  Put <- {0, 1, 2, 3, 6, 7, 8, 15, 16, 29, 30}, Boundary <- {1, 28},
  sig <- v1, octets <- v2, strict <- v3, lax <- v4

-----------------------------------------------------------------------------
(* Messages that end in a block and at the end of one, for two recipients. *)

Env == INSTANCE Ecies WITH
  n <- 5, PrvKeys <- {1, 2}, EphPrvKeys <- {1, 4}, Magics <- {1, 2},
  Messages <- {[value |-> k, length |-> k - 1] : k \in 1..3}, MaxSent <- 2,
  sent <- v1, text <- v2, opened <- v3

-----------------------------------------------------------------------------
(* Every curve over the smallest fields with every generator, order and    *)
(* cofactor around them, and some over a field large enough for a cofactor *)
(* of two to be told from the others.                                      *)

IsNear(p, a, b, Q) ==   \* on the curve, or infinity's y, or out of the field
  \/ (Q[2] * Q[2]) % p = ((Q[1] * Q[1] + a) * Q[1] + b) % p
  \/ Q[2] = 0 /\ Q[1] \in {0, 5}
  \/ Q[1] = p /\ Q[2] \in 0..1
CurveParams(p, as, bs, ns, hs) ==
  UNION {[p : {p}, a : {a}, b : {b}, n : ns, cofactor : hs, orderCheck : {TRUE},
          weaknessCheck : {FALSE},
          G : {Q \in (0..p) \X (0..(p - 1)) : IsNear(p, a, b, Q)}] : a \in as, b \in bs}

Candidates ==
  CurveParams(5, 0..5, 0..5, 2..11, 0..4)
    \cup CurveParams(7, 0..6, 0..6, 2..14, 0..4)
    \cup CurveParams(9, {1}, {1}, 2..14, 1..2)
    \cup CurveParams(13, {0, 1, 4, 12}, 0..12, 3..22, 1..4)
    \cup CurveParams(47, {0, 1, 2}, {1, 2, 3}, {29, 31, 47, 53, 59, 61}, 1..2)
    \cup [p : {7}, a : {1, 4}, b : {3, 6}, n : 3..13, cofactor : 1..2, G : (0..6) \X (0..6),
          orderCheck : BOOLEAN, weaknessCheck : BOOLEAN]

New == INSTANCE NewCurve WITH
  Candidates <- Candidates, MinDegree <- 4, params <- v1, curve <- v2

-----------------------------------------------------------------------------
ASSUME InstancesAssumption ==
  /\ LatticeAssumption /\ Ell!EllswiftAssumption /\ Non!NoncesAssumption
  /\ Kdf!KeyDerivationAssumption /\ Seeded!PedersenAssumption /\ Searched!PedersenAssumption
  /\ Sec!SecAssumption /\ SecOfTwo!SecAssumption /\ Dh!SecAssumption
  /\ Der!DerAssumption /\ Env!EciesAssumption /\ New!NewCurveAssumption
  /\ \A s \in Env!Sendable : Env!WasEncrypted(s)

Unused4 == v4 = <<>> /\ v5 = <<>>
Unused3 == v3 = <<>> /\ Unused4

Init ==
  /\ part \in Parts
  /\ \/ part = "numbers"      /\ Num!Init /\ v5 = <<>>
     \/ part = "jacobian 17"  /\ Jac17!Init /\ v5 = <<>>
     \/ part = "jacobian 7"   /\ Jac7!Init /\ v5 = <<>>
     \/ part = "free"         /\ Free!Init /\ Unused4
     \/ part = "on curve"     /\ OnCurve!Init /\ Unused4
     \/ part = "endomorphism" /\ Endo!Init /\ Unused4
     \/ part = "multi"        /\ Multi!Init
     \/ part = "ellswift"     /\ Ell!Init
     \/ part = "nonces"       /\ Non!Init
     \/ part = "kdf"          /\ Kdf!Init /\ v2 = <<>> /\ Unused3
     \/ part = "seeded"       /\ Seeded!Init
     \/ part = "searched"     /\ Searched!Init
     \/ part = "sec"          /\ Sec!Init /\ v5 = <<>>
     \/ part = "sec of two"   /\ SecOfTwo!Init /\ v5 = <<>>
     \/ part = "dh"           /\ Dh!Init /\ v5 = <<>>
     \/ part = "der"          /\ Der!Init /\ v5 = <<>>
     \/ part = "ecies"        /\ Env!Init /\ Unused4
     \/ part = "curve"        /\ New!Init /\ Unused3

Keep5 == UNCHANGED <<part, v5>>
Keep4 == UNCHANGED <<part, v4, v5>>
Keep3 == UNCHANGED <<part, v3, v4, v5>>

Next ==
  \/ part = "numbers"      /\ Num!Next /\ Keep5
  \/ part = "jacobian 17"  /\ Jac17!Next /\ Keep5
  \/ part = "jacobian 7"   /\ Jac7!Next /\ Keep5
  \/ part = "free"         /\ Free!Next /\ Keep4
  \/ part = "on curve"     /\ OnCurve!Next /\ Keep4
  \/ part = "endomorphism" /\ Endo!EndoNext /\ Keep4
  \/ part = "multi"        /\ Multi!Next /\ UNCHANGED part
  \/ part = "ellswift"     /\ Ell!Next /\ UNCHANGED part
  \/ part = "nonces"       /\ Non!Next /\ UNCHANGED part
  \/ part = "kdf"          /\ Kdf!Next /\ UNCHANGED v2 /\ Keep3
  \/ part = "seeded"       /\ Seeded!Next /\ UNCHANGED part
  \/ part = "searched"     /\ Searched!Next /\ UNCHANGED part
  \/ part = "sec"          /\ Sec!Next /\ Keep5
  \/ part = "sec of two"   /\ SecOfTwo!Next /\ Keep5
  \/ part = "dh"           /\ Dh!Next /\ Keep5
  \/ part = "der"          /\ Der!Next /\ Keep5
  \/ part = "ecies"        /\ Env!Next /\ Keep4
  \/ part = "curve"        /\ New!Build /\ Keep3

\* The passes of the loops, none of which waits for anything.
Pass ==
  /\ UNCHANGED part
  /\ \/ part = "numbers" /\ UNCHANGED v5
          /\ (Num!NextZ \/ Num!FoundZ \/ Num!Descend \/ Num!Finish)
     \/ part = "multi"    /\ (Multi!Step \/ Multi!Finish)
     \/ part = "ellswift" /\ Ell!DecodeIt
     \/ part = "nonces"   /\ Non!Try
     \/ part = "searched" /\ Searched!Search

EllDraw == part = "ellswift" /\ Ell!Draw /\ UNCHANGED part

\* A loop goes on; a draw of u and a case at random has a t in the end.
Spec ==
  /\ Init /\ [][Next]_vars
  /\ WF_vars(Pass)
  /\ SF_vars(EllDraw /\ v3' # {})

-----------------------------------------------------------------------------
(* Properties *)

\* Whichever multiplication runs, at whatever width and through the
\* endomorphism or Bos-Coster's heap too, it answers the sum of the multiples
\* asked for, on zero, even, full and overlong scalars; recodings and halves
\* are the scalar and as short as promised, and what is to cost the same for
\* every scalar does (curve_group.py:748-1790, curve_group_2.py:140-547).
MultiplicationsAgree ==
  /\ part = "free" => Free!EveryAlgorithmAgrees /\ Free!RecodingsHold /\ Free!RegularCost
  /\ part = "on curve" => OnCurve!EveryAlgorithmAgrees
  /\ part = "endomorphism" =>
       Endo!EveryAlgorithmAgrees /\ Endo!HalvesAreShort /\ Endo!EndomorphismCost
  /\ part = "multi" => Multi!SumIsKept /\ Multi!NeverZero /\ Multi!BitsBoundTheSteps

\* After any operations on points in any coordinates, and through every special
\* case of the formulas, a point is where the same operations of the affine
\* group law lead, rewriting it moving it nowhere; each way to read it off agrees
\* with the others, and coordinates stay reduced and on the curve
\* (curve_group.py:261-362, 379-573).
JacobianIsAffine ==
  /\ part = "jacobian 17" =>
       /\ Jac17!TypeOK /\ Jac17!WalksWithTheLaw
       /\ Jac17!ReadingsAgree /\ Jac17!JacEqualIsAffineEqual
  /\ part = "jacobian 7" => Jac7!TypeOK /\ Jac7!WalksWithTheLaw /\ Jac7!ReadingsAgree

\* Square roots are roots and are found where a prime modulus has them,
\* inverses invert whatever blinding was drawn, one of a batch without an
\* inverse fails it, the two symbols agree, and the primality test is right
\* about pseudoprimes to either of its halves (number_theory.py).
NumbersAreRight ==
  part = "numbers" =>
    /\ Num!DescentInvariant /\ Num!RootsAreRoots /\ Num!InversesInvert
    /\ Num!SymbolsAgree /\ Num!PrimesArePrime /\ Num!BezoutHolds

\* Kdf!Inv, of answers that are computed once.
KdfAnswers == Kdf!Answers
KdfInv == v1 \in Seq(KdfAnswers)

\* No two calls that were given different things come to one nonce, tweak or
\* block of keying data, whatever is rejected on the way and whatever sizes
\* are asked for; and a derivation that can be made is made, to the last block
\* (rfc6979_nonce.py, bip340_nonce.py, commit_nonce.py, kdf.py:48-204).
DerivationsNeverRepeat ==
  /\ part = "nonces" =>
       /\ Non!OneCandidateOneInput /\ Non!RejectionFollowsTheChain /\ Non!BitsCoverTheOrder
       /\ Non!Inv(0..2)
  /\ part = "kdf" => Kdf!NoBlockTwice /\ Kdf!EverySizeIsAnswered /\ KdfInv

\* Any pair of numbers decodes to a point, a point's encoding decodes to that
\* point, and the eight cases find each of its encodings once
\* (ellswift.py:100-330); and a seed's map is the paper's, on zero too
\* (pedersen.py:178-244).
MapsToTheCurve ==
  /\ part = "ellswift" => Ell!RoundTrips /\ Ell!NothingRaises /\ Ell!CasesFindEachTOnce
  /\ part = "seeded" => Seeded!MapIsThePapers

\* A commitment under an accepted generator cannot be opened to another value,
\* has no part outside the subgroup, adds up, and is read back from its octets
\* and from no others (pedersen.py:303-570).
CommitmentBinds ==
  /\ part = "seeded" => Seeded!CommitmentBinds /\ Seeded!SumsOpen /\ Seeded!OneSpelling
  /\ part = "searched" => Searched!CommitmentBinds /\ Searched!CommitmentsAreInside

\* What is read as a public key is a point of the generator's subgroup, a key
\* multiplied unread is what it is when it is read first, and two parties
\* derive from d*h*Q and nothing else, whatever point of the curve one of them
\* was handed: no coordinate, small order or spelling of infinity gets past
\* (sec_point.py:161-245, 366-416, dh.py:48-134).
OnlyTheSubgroup ==
  /\ part = "sec" => Sec!ReadIsInSubgroup /\ Sec!ProductIsTheSame
  /\ part = "sec of two" => SecOfTwo!ReadIsInSubgroup /\ SecOfTwo!ProductIsTheSame
  /\ part = "dh" => Dh!OnlyItsSubgroupPart /\ Dh!PartiesAgree

\* Octets that are read strictly are the ones that are written of what was
\* read: a signature has one DER spelling and a point one of each form, no
\* octets are both a public and a private key, and what is written of any
\* scalars, pads and wide sizes included, is read back
\* (dsa.py:1118-1240, sec_point.py:88-158, 195-245).
OneSpelling ==
  /\ part = "der" => Der!Inv /\ Der!StrictIsCanonical /\ Der!WrittenIsRead /\ Der!LaxReadsPads
  /\ part \in {"sec"} => Sec!OneSpelling /\ Sec!PublishedIsRead /\ Sec!NoKeyIsBoth
  /\ part = "sec of two" =>
       SecOfTwo!OneSpelling /\ SecOfTwo!PublishedIsRead /\ SecOfTwo!NoKeyIsBoth

\* Env!SentWasEncrypted, of texts that are computed once.
EnvSendable == Env!Sendable
SentWasEncrypted == v1 \subseteq EnvSendable

\* The cipher runs on what some encrypt made for this recipient and this magic
\* and on nothing else, whatever was lost, doubled, moved or mixed on the way;
\* what arrives as it was sent is read (ecies.py:205-245, 309-353, 387-421).
CipherOnlyAfterItsMac ==
  part = "ecies" =>
    SentWasEncrypted /\ Env!ReadOfSent /\ Env!CipherOnlyAfterItsMac /\ Env!SentIsRead

\* Whatever a curve is built from, n is the order of its generator and the
\* cofactor the index of its subgroup; and every subgroup of odd prime order
\* of every curve over the field is built (curve.py:281-379).
BuiltCurvesAreSound ==
  part = "curve" => New!BuiltHasItsOrder /\ New!BuiltHasItsCofactor /\ New!EveryCurveIsBuilt

Running ==
  \/ part = "numbers"  /\ v1 \in {"searching", "descending"}
  \/ part = "multi"    /\ v2 = "heap"
  \/ part = "ellswift" /\ v4 = {}
  \/ part = "nonces"   /\ v1 # <<>>
  \/ part = "searched" /\ v1 # {} /\ v3 = {}

\* Every loop ends: Tonelli-Shanks's search and descent for composite moduli
\* too, Bos-Coster's heap, the rejections of a nonce, the draws of
\* ElligatorSwift and the search for a second generator, wherever it begins
\* (number_theory.py:231-360, curve_group.py:1704, rfc6979_nonce.py:150,
\* ellswift.py:300, pedersen.py:100).
CallsReturn == Running ~> ~Running
=============================================================================
