----------------------------- MODULE Ellswift -----------------------------
(***************************************************************************)
(* ElligatorSwift (ecc/ellswift.py): any pair of field elements (u, t)     *)
(* decodes to a point of a curve y^2 = x^3 + b, and a point is encoded by  *)
(* drawing u and one of eight cases until they have a t.                   *)
(*                                                                         *)
(* A behaviour is a call of encode_var, its answer decoded by decode_var,  *)
(* or a call of decode_var alone.  A set of at most one element is an      *)
(* answer that may be none.  This is the Python arm.                       *)
(***************************************************************************)
EXTENDS Integers, FiniteSets

CONSTANTS
  p, b,     \* the curve
  Root,     \* Root[x]: the root mod_sqrt_var finds of a square
  Keys,     \* points to encode
  Half      \* bound: the halves of an encoding are numbers below it

Field   == 0..(p - 1)
Squares == {(x * x) % p : x \in Field}

\* What _constants asks of a curve.
EllswiftAssumption ==
  /\ p \in Nat /\ p > 3 /\ \A d \in 2..(p - 1) : p % d # 0
  /\ b \in 1..(p - 1)
  /\ (p - 3) \in Squares
  /\ \A x \in Squares : (Root[x] * Root[x]) % p = x
  /\ Keys \subseteq Field \X Field /\ Half \in Nat

Cube(x) == (((x * x) % p) * x) % p
IsX(x)  == (Cube(x) + b) % p \in Squares

Inv[x \in 1..(p - 1)] == CHOOSE i \in 1..(p - 1) : (x * i) % p = 1
Inv2       == Inv[2]
Minus3Sqrt == Root[p - 3]

-----------------------------------------------------------------------------
(* _xswiftec_var                                                           *)

\* What u and t are replaced by, so that nothing divided by is zero.
\* Slip: a u and t whose Y would be zero are kept.
SubstitutedZerosOnly(u, t) ==
  LET u1 == IF u % p = 0 THEN 1 ELSE u % p
      t1 == IF t % p = 0 THEN 1 ELSE t % p
  IN  <<u1, t1>>
Substituted(u, t) ==
  LET u1 == IF u % p = 0 THEN 1 ELSE u % p
      t1 == IF t % p = 0 THEN 1 ELSE t % p
  IN  <<u1, IF (Cube(u1) + t1 * t1 + b) % p = 0 THEN (2 * t1) % p ELSE t1>>

\* The three candidates, in their order, for a Y that is not zero.
Candidates(u, X, Y) ==
  LET q == (X * Inv[Y]) % p
  IN  <<(u + 4 * Y * Y) % p, (((p - q) + p - u) * Inv2) % p, ((q + p - u) * Inv2) % p>>

XSwiftEC(u0, t0) ==
  LET u == Substituted(u0, t0)[1]
      t == Substituted(u0, t0)[2]
      X == ((Cube(u) + b + p * p - t * t) * Inv[(2 * t) % p]) % p
      Y == ((X + t) * Inv[(Minus3Sqrt * u) % p]) % p
  IN  IF Y = 0 THEN {}
      ELSE LET xs    == Candidates(u, X, Y)
               found == {i \in 1..3 : IsX(xs[i])}
           IN  {xs[i] : i \in {i \in found : \A j \in found : i <= j}}

\* _point_from_ell_var.
Lift(x, t) ==
  LET y == CHOOSE y \in Field : (y * y) % p = (Cube(x) + b) % p /\ y % 2 = 0
  IN  <<x, IF (t % p) % 2 = 1 THEN p - y ELSE y>>
Decode(ell) == {Lift(x, ell[2]) : x \in XSwiftEC(ell[1], ell[2])}

-----------------------------------------------------------------------------
(* _xswiftec_inv_var                                                       *)

FirstKind(case) == (case \div 2) % 2 = 0

\* The third candidate is not tried where the second is a point.
Shadowed(x, u) == IsX((2 * p - x - u) % p)

Denominator(x, u) == (u * u + u * x + x * x) % p

\* mod_inv_var refuses to invert zero.
InverseRaises(x, u, case) ==
  FirstKind(case) /\ ~Shadowed(x, u) /\ Denominator(x, u) = 0

Discriminant(u, s) ==
  ((p - s) * ((4 * (Cube(u) + b) + 3 * ((s * u) % p) * u) % p)) % p

\* The v and s of the two kinds of case, where they have them.
FirstPair(x, u) ==
  IF Shadowed(x, u) THEN {}
  ELSE {<<x, ((p - ((Cube(u) + b) % p)) * Inv[Denominator(x, u)]) % p>>}

SecondPair(x, u, d) ==
  LET s == (x + p - u) % p
  IN  {<<((p - u + Root[d] * Inv[s]) * Inv2) % p, s>>}

\* Slip: the two cases of a root of zero both answer.
PairsTwice(x, u, case) ==
  LET d == Discriminant(u, (x + p - u) % p)
  IN  IF FirstKind(case) THEN FirstPair(x, u)
      ELSE IF x = u \/ d \notin Squares THEN {} ELSE SecondPair(x, u, d)
Pairs(x, u, case) ==
  LET d == Discriminant(u, (x + p - u) % p)
  IN  IF FirstKind(case) THEN FirstPair(x, u)
      ELSE IF x = u \/ d \notin Squares \/ (case % 2 = 1 /\ d = 0) THEN {}
           ELSE SecondPair(x, u, d)

\* The case's other two bits are the signs of two roots.
TOf(u, v, w, case) ==
  LET c == IF case % 2 = 0 THEN p + 1 - Minus3Sqrt ELSE 1 + Minus3Sqrt
      t == (w * ((((u * c) % p) * Inv2 + v) % p)) % p
  IN  IF case \div 4 = case % 2 THEN (p - t) % p ELSE t

XSwiftECInv(x, u, case) ==
  {TOf(u, vs[1], Root[vs[2]], case) : vs \in {vs \in Pairs(x, u, case) : vs[2] \in Squares}}

\* _ell_from_point_var: t and p - t encode the two points of an x.
\* Slip: the t is taken as it comes.
EncodedUnsigned(Q, u, t) == <<u, t>>
Encoded(Q, u, t) == <<u, IF t % 2 # Q[2] % 2 THEN p - t ELSE t>>

-----------------------------------------------------------------------------
VARIABLES
  point,    \* the point to encode, as an option
  draw,     \* the u and the case drawn last
  ell,      \* the encoding, as an option
  decoded,  \* what it decodes to, as an option
  raised    \* whether the call raised

vars == <<point, draw, ell, decoded, raised>>

Init ==
  /\ \/ \E Q \in Keys : point = {Q} /\ ell = {}
     \/ \E u, t \in 0..(Half - 1) : point = {} /\ ell = {<<u, t>>}
  /\ draw = << >> /\ decoded = {} /\ raised = FALSE

\* What a pass of the loop may draw, after the last one.
Draws(last) == (1..(p - 1)) \X (0..7)

\* A pass of _ell_from_point_var's loop.
Draw ==
  /\ ell = {} /\ ~raised
  /\ \E Q \in point, d \in Draws(draw) :
       /\ draw' = d
       /\ raised' = InverseRaises(Q[1], d[1], d[2])
       /\ ell' = IF raised' THEN {}
                 ELSE {Encoded(Q, d[1], t) : t \in XSwiftECInv(Q[1], d[1], d[2])}
  /\ UNCHANGED <<point, decoded>>

DecodeIt ==
  /\ decoded = {} /\ ~raised
  /\ \E e \in ell :
       /\ decoded' = Decode(e)
       /\ raised' = (decoded' = {})
  /\ UNCHANGED <<point, draw, ell>>

Next == Draw \/ DecodeIt

\* u and the case are drawn at random: a draw that has a t comes up in the end.
Spec == /\ Init /\ [][Next]_vars
        /\ WF_vars(DecodeIt) /\ SF_vars(Draw /\ ell' # {})

-----------------------------------------------------------------------------
\* A point's encoding decodes to that point, y included; _xswiftec_inv_var's
\* docstring: "a t with _xswiftec_var(u, t) == x".
RoundTrips == point # {} /\ decoded # {} => decoded = point

\* Every pair decodes, halves at or past p included, and every point is
\* encoded: no draw and no pair makes an inverse of zero or runs out of
\* candidates, and what comes back is a point.
NothingRaises ==
  /\ ~raised
  /\ \A Q \in decoded : Q \in Field \X (1..(p - 1))
                        /\ (Q[2] * Q[2]) % p = (Cube(Q[1]) + b) % p

\* Under the u drawn, the eight cases find every t that decodes to the point's
\* x without being replaced first, and no t twice: an encoding is as likely
\* as its number of pairs makes it.
CasesFindEachTOnce ==
  draw # << >> /\ ~raised /\ point # {} =>
    LET u == draw[1]
        x == (CHOOSE Q \in point : TRUE)[1]
        answering == {case \in 0..7 : XSwiftECInv(x, u, case) # {}}
        found == UNION {XSwiftECInv(x, u, case) : case \in answering}
    IN  /\ Cardinality(found) = Cardinality(answering)
        /\ found = {t \in Field : Substituted(u, t) = <<u, t>> /\ x \in XSwiftEC(u, t)}

\* encode_var's loop ends, for every point.
CallsReturn == <>(decoded # {})
===========================================================================
