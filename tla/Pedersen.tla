----------------------------- MODULE Pedersen -----------------------------
(***************************************************************************)
(* Pedersen commitments r*G + v*gen (ecc/pedersen.py): where the generator *)
(* gen comes from, what is committed under it, and the octets that         *)
(* libsecp256k1-zkp writes of either.                                      *)
(*                                                                         *)
(* A behaviour has one generator: the one searched for from a hash of G,   *)
(* the one a seed maps to, or one that a caller has.  An answer is a set   *)
(* with one value, empty for a refusal.  An octet is a number.             *)
(***************************************************************************)
EXTENDS PointOctets

CONSTANTS
  Elements,    \* what a seed may hash to, empty off secp256k1's family
  Offered,     \* bound: what a caller may have for a generator
  Rs, Vs,      \* bound: blinding factors and values
  ReadOctets,  \* bound: octets read for a commitment or a generator
  Squares      \* the residues modulo p, zero not among them

PedersenAssumption ==
  SecAssumption /\ Squares = {(x * x) % p : x \in 1..(p - 1)}

-----------------------------------------------------------------------------
(* second_generator: H from a hash of G, one x after another *)

NextX(x) == (x + 1) % p

\* The point of an x, where there is one to be had.
GeneratorAt(x) == {Q \in {<<x, y>> : y \in YEven(x)} : InSubgroup(Q)}

-----------------------------------------------------------------------------
(* generator_from_seed *)

\* sqrt(-3), the root that is a square, and (sqrt(-3) - 1)/2.
SqrtMinus3 == CHOOSE c \in Squares : (c * c) % p = p - 3
D == ((SqrtMinus3 - 1) * FieldInv(2)) % p

\* The three x-coordinates of t, over one inverse: none of the joint
\* denominator's where it is zero.
Joint(t) ==
  LET t2  == (t * t) % p
      wd  == (t2 + b + 1) % p
      x3d == (p - 3) * t2 % p
      j   == (wd * x3d) % p
  IN  [wd |-> wd, x3d |-> x3d, inv |-> IF j = 0 THEN 0 ELSE FieldInv(j)]
X1(t) ==
  LET j == Joint(t)
  IN  (D - ((((SqrtMinus3 * t * t) % p) * j.x3d) % p) * j.inv) % p
\* From the first.
X2(x1) == (p - x1 - 1) % p
\* Slip: a square where the cube belongs.
X3Squared(t) == LET j == Joint(t) IN (1 + ((j.wd * j.wd) % p) * j.inv) % p
X3(t) == LET j == Joint(t) IN (1 + ((((j.wd * j.wd) % p) * j.wd) % p) * j.inv) % p

IsX(x) == Y2(x) \in Squares \cup {0}
\* The power a root is found by is a square itself, of no root its opposite's.
Root(x) == CHOOSE y \in Squares \cup {0} : (y * y) % p \in {Y2(x), (p - Y2(x)) % p}

ShallueVanDeWoestijne(t) ==
  LET x1 == X1(t)
      x  == IF IsX(x1) THEN x1 ELSE IF IsX(X2(x1)) THEN X2(x1) ELSE X3(t)
  IN  <<x, IF t % 2 = 1 THEN p - Root(x) ELSE Root(x)>>

\* blind is an option.
GeneratorFromSeed(t1, t2, blind) ==
  LET Q == AddAff(ShallueVanDeWoestijne(t1), ShallueVanDeWoestijne(t2))
  IN  IF blind = {} THEN {Q}
      ELSE {AddAff(Q, Mult(k, G)) : k \in blind \cap (0..(n - 1))}

-----------------------------------------------------------------------------
(* commit and verify *)

\* Slip: infinity is not refused.
ValidGeneratorAny(gen) == IsOnCurve(gen) /\ InSubgroup(gen)
\* Slip: a point of any order will do.
ValidGeneratorOutside(gen) == IsOnCurve(gen) /\ gen # INF
\* _assert_valid_generator
ValidGenerator(gen) == IsOnCurve(gen) /\ gen # INF /\ InSubgroup(gen)

\* Slip: a blinding factor is a private key.
CommitBelowN(r, v, gen) ==
  IF ~ValidGenerator(gen) \/ r \notin 1..(n - 1) THEN {}
  ELSE {AddAff(Mult(r, G), Mult(v, gen))}
Commit(r, v, gen) ==
  IF ~ValidGenerator(gen) \/ r % n = 0 THEN {}
  ELSE {AddAff(Mult(r, G), Mult(v, gen))}

Verify(r, v, Q, gen) == Q \in Commit(r, v, gen)

-----------------------------------------------------------------------------
(* Octets: a tag, to which the residuosity of y is xored, and x *)

CommitmentTag == 9
GeneratorTag  == 11

TaggedBytes(Q, tag) ==
  IF ~IsOnCurve(Q) \/ IsInf(Q) THEN {}
  ELSE {<<IF Q[2] \in Squares THEN tag - 1 ELSE tag, Q[1]>>}

PointFromX(x, notSquare) ==
  IF x \notin Field \/ ~IsX(x) THEN {}
  ELSE {<<x, IF notSquare THEN p - Root(x) ELSE Root(x)>>}

PointFromTagged(octets, tag) ==
  IF octets[1] - (octets[1] % 2) # tag - 1 THEN {}
  ELSE PointFromX(octets[2], octets[1] % 2 = 1)

-----------------------------------------------------------------------------
VARIABLES
  search,   \* the x that second_generator is at, as an option
  seed,     \* what a seed hashed to, and its blinding factor, <<>> before
  gen,      \* the generator, as an option
  made,     \* the commitments made under it
  read      \* octets that were read, and their tag, <<>> before

vars == <<search, seed, gen, made, read>>

Init == search = {} /\ seed = <<>> /\ gen = {} /\ made = {} /\ read = <<>>

Fresh == search = {} /\ seed = <<>> /\ gen = {} /\ read = <<>>

\* The hash of G is any number below n.
Begin ==
  /\ Fresh
  /\ \E x \in 0..(n - 1) : search' = {x}
  /\ UNCHANGED <<seed, gen, made, read>>

\* A pass of second_generator's loop.
Search == \E x \in search :
  /\ gen = {}
  /\ gen' = GeneratorAt(x)
  /\ search' = IF gen' = {} THEN {NextX(x)} ELSE search
  /\ UNCHANGED <<seed, made, read>>

FromSeed ==
  /\ Fresh
  /\ \E t1, t2 \in Elements, blind \in {{}, {0}, {1}, {n - 1}, {n}} :
       seed' = <<t1, t2, blind>> /\ gen' = GeneratorFromSeed(t1, t2, blind)
  /\ UNCHANGED <<search, made, read>>

Offer ==
  /\ Fresh
  /\ \E Q \in Offered : gen' = {Q}
  /\ UNCHANGED <<search, seed, made, read>>

\* Somebody commits, under a generator of which nothing is known.
MakeCommitment ==
  /\ Cardinality(made) < 2 /\ seed = <<>>
  /\ \E r \in Rs, v \in Vs, base \in gen : \E Q \in Commit(r, v, base) :
       made' = made \cup {[r |-> r, v |-> v, Q |-> Q]}
  /\ UNCHANGED <<search, seed, gen, read>>

Read ==
  /\ Fresh
  /\ \E octets \in ReadOctets, tag \in {CommitmentTag, GeneratorTag} :
       read' = <<octets, tag, PointFromTagged(octets, tag)>>
  /\ UNCHANGED <<search, seed, gen, made>>

Next == Begin \/ Search \/ FromSeed \/ Offer \/ MakeCommitment \/ Read

\* second_generator is a loop: once begun it goes on.
Spec == Init /\ [][Next]_vars /\ WF_vars(Search)

-----------------------------------------------------------------------------
(* Properties *)

\* The map that the code computes over one inverse and three roots is the one
\* the paper states: the first of d - t*w, -(d - t*w + 1) and 1 + 1/w^2 that is
\* an x-coordinate, for w = c*t/(1 + b + t^2); and zero, which has no w, maps
\* to the curve too (pedersen.py:178-244).
MapIsThePapers ==
  seed # <<>> => \A t \in {seed[1], seed[2]} :
    LET w  == (((SqrtMinus3 * t) % p) * FieldInv((1 + b + t * t) % p)) % p
        d  == D
        v  == FieldInv(w)
        xs == <<(d - t * w) % p, (-(d - t * w + 1)) % p, (1 + v * v) % p>>
        Q  == ShallueVanDeWoestijne(t)
    IN  /\ Q \in AffinePoints
        /\ t # 0 => /\ \E i \in 1..3 : Q[1] = xs[i] /\ \A j \in 1..(i - 1) : ~IsX(xs[j])
                    /\ Q[2] \in Squares <=> t % 2 = 0

\* What is committed to under an accepted generator with one blinding factor is
\* one value: a commitment cannot be opened to another (pedersen.py:303-356).
CommitmentBinds ==
  \A c, d \in made : c.r % n = d.r % n /\ c.Q = d.Q => c.v % n = d.v % n

\* A commitment has no part outside the subgroup, which would tell its value
\* modulo the cofactor (pedersen.py:329-333).
CommitmentsAreInside == \A c \in made : IsInf(c.Q) \/ c.Q \in Subgroup

\* The sum of two commitments opens to the sums, whatever was reduced on the
\* way, but where the blinding factors cancel; and to no other value
\* (pedersen.py:316-323, 378-396).
SumsOpen ==
  \A c, d \in made, base \in gen :
    LET Q == AddAff(c.Q, d.Q)
    IN  /\ Verify(c.r + d.r, c.v + d.v, Q, base) <=> (c.r + d.r) % n # 0
        /\ ~Verify(c.r + d.r, c.v + d.v + 1, Q, base)

\* Octets that are read are the ones their point is written as, under the tag
\* they were read with and no other; whatever was committed is read back
\* (pedersen.py:472-570).
OneSpelling ==
  /\ read # <<>> => \A Q \in read[3] :
       /\ TaggedBytes(Q, read[2]) = {read[1]}
       /\ PointFromTagged(read[1], CommitmentTag + GeneratorTag - read[2]) = {}
  /\ \A c \in made : ~IsInf(c.Q) =>
       UNION {PointFromTagged(octets, CommitmentTag) : octets \in TaggedBytes(c.Q, CommitmentTag)}
         = {c.Q}
=============================================================================
