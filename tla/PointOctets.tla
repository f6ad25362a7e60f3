---------------------------- MODULE PointOctets ----------------------------
(***************************************************************************)
(* What a public key is read from and written as (curves/sec_point.py): a  *)
(* pair of coordinates, or SEC 1 octets, which name a point of the         *)
(* subgroup generated by G; and what is computed of one that is not read   *)
(* first.                                                                  *)
(*                                                                         *)
(* A coordinate takes one octet, whose bits are a constant: an octet may   *)
(* hold a number that is no coordinate, and a scalar may take one octet    *)
(* more than a coordinate does.  An answer is a set with one value, empty  *)
(* for a refusal.                                                          *)
(***************************************************************************)
EXTENDS JacobianGroup

CONSTANTS
  n, h, xG, yG,   \* the order of the generator, its cofactor, the generator
  O,              \* the bits of an octet
  Serves          \* whether the bindings answer for this curve

G == <<xG, yG>>
Octet == 0..(2^O - 1)

\* The multiples of the generator: where every key is to be.
Subgroup == LET times == Multiples(G, n) IN {times[k] : k \in 1..(n - 1)}

SecAssumption ==
  /\ p \in Nat /\ n \in Nat /\ h \in Nat /\ p > 3 /\ n > 2 /\ h > 0 /\ n # p
  /\ O \in Nat /\ 2^O >= p
  /\ Serves \in BOOLEAN /\ (Serves => h = 1)
  /\ G \in AffinePoints
  /\ \A k \in 1..(n - 1) : ~IsInf(Multiples(G, n)[k])
  /\ IsInf(Multiples(G, n)[n])

-----------------------------------------------------------------------------
(* Points *)

\* Double and add from the low bit up, m not reduced.
MultJacVar(m, Q) ==
  LET size == CHOOSE i \in 0..30 : m < 2^i /\ (i = 0 \/ 2^(i - 1) <= m)
      doubled[i \in 0..size] == IF i = 0 THEN Q ELSE DoubleJac(doubled[i - 1])
      sum[i \in 0..size] ==
        IF i = 0 THEN INFJ
        ELSE IF (m \div 2^(i - 1)) % 2 = 0 THEN sum[i - 1]
        ELSE IF i = 1 THEN Q
        ELSE AddJac(sum[i - 1], doubled[i - 1])
  IN  sum[size]

\* Slip: mult reduces its scalar, so that n times any point is infinity.
InSubgroupReduced(Q) == h = 1 \/ MultJacVar(n % n, JacFromAff(Q))[3] = 0
InSubgroup(Q) == h = 1 \/ MultJacVar(n, JacFromAff(Q))[3] = 0

\* Slip: x is reduced.
IsOnCurveModulo(Q) ==
  /\ Q[1] >= 0
  /\ IF Q[2] = 0 THEN Y2(Q[1]) # 0
     ELSE Q[2] \in Field /\ (Q[2] * Q[2]) % p = Y2(Q[1])
\* Curve.is_on_curve: infinity is, whatever its x, but not as the spelling of
\* a point of order two.
IsOnCurve(Q) ==
  /\ Q[1] \in Field
  /\ IF Q[2] = 0 THEN Y2(Q[1]) # 0
     ELSE Q[2] \in Field /\ (Q[2] * Q[2]) % p = Y2(Q[1])

\* mult, of a point that is in the subgroup.
Mult(m, Q) == AffFromJac(MultJacVar(m % n, JacFromAff(Q)))

YEven(x) ==
  LET roots == {y \in Field : (y * y) % p = Y2(x)}
      root  == CHOOSE y \in roots : TRUE
  IN  IF x \notin Field \/ roots = {} THEN {}
      ELSE {IF root % 2 = 1 THEN p - root ELSE root}

-----------------------------------------------------------------------------
(* Octets *)

Compressed   == {2, 3}
Uncompressed == 4
Hybrid       == {6, 7}

BytesFromPoint(Q, compressed) ==
  IF ~IsOnCurve(Q) \/ IsInf(Q) THEN {}
  ELSE {IF compressed THEN <<2 + (Q[2] % 2), Q[1]>> ELSE <<Uncompressed, Q[1], Q[2]>>}

\* What a well sized spelling says, before anything is asked of the point.
Lifted(octets) ==
  {<<octets[2], IF octets[1] = 2 THEN y ELSE p - y>> : y \in YEven(octets[2])}
Carried(octets) == {<<octets[2], octets[3]>>} \ (Octet \X {0})

PointFromOctets(octets, hybrid) ==
  LET named == IF Len(octets) = 2 /\ octets[1] \in Compressed THEN Lifted(octets)
               ELSE IF Len(octets) = 3 /\ octets[1] \in {Uncompressed} \cup (IF hybrid THEN Hybrid ELSE {})
               THEN {Q \in Carried(octets) : octets[1] \in Hybrid => Q[2] % 2 = octets[1] - 6}
               ELSE {}
  IN  {Q \in named : IsOnCurve(Q) /\ InSubgroup(Q)}

-----------------------------------------------------------------------------
(* Keys, however they are spelled: [spelled, as] *)

IsPair(key) == key.spelled = "pair"

PointFromPubKey(key) ==
  IF IsPair(key)
  THEN {Q \in {key.as} : IsOnCurve(Q) /\ ~IsInf(Q) /\ InSubgroup(Q)}
  ELSE PointFromOctets(key.as, FALSE)

\* The octets of a key that nobody has proved a point, but for a pair.
SecFromPubKey(key) ==
  IF IsPair(key) THEN BytesFromPoint(key.as, FALSE)
  ELSE {octets \in {key.as} : Len(octets) \in {2, 3} /\ octets[1] \notin Hybrid}

\* The bindings' parse, which takes hybrid octets.
LibsecpParse(octets) ==
  {Q \in PointFromOctets(octets, TRUE) : Q[1] \in Field /\ Q[2] \in Field}

\* Slip: hybrid octets are the bindings' to refuse.
MultSecHybrid(octets, m) ==
  LET served == IF m # 0 /\ Serves THEN LibsecpParse(octets) ELSE {}
  IN  {Mult(m, Q) : Q \in IF served # {} THEN served ELSE PointFromOctets(octets, FALSE)}
\* What the bindings decline is lifted here, and refused here.
MultSec(octets, m) ==
  LET served == IF m # 0 /\ octets[1] \notin Hybrid /\ Serves THEN LibsecpParse(octets) ELSE {}
  IN  {Mult(m, Q) : Q \in IF served # {} THEN served ELSE PointFromOctets(octets, FALSE)}

MultPubKey(m, key) == UNION {MultSec(sec, m % n) : sec \in SecFromPubKey(key)}

\* A private key is a number, or as many octets as the order takes.
NSize == IF n < 2^O THEN 1 ELSE 2
Value(octets) == IF Len(octets) = 1 THEN octets[1] ELSE octets[1] * 2^O + octets[2]
\* Slip: a number that is too large is reduced.
ScalarFromOctetsReduced(octets) ==
  IF Len(octets) # NSize THEN {} ELSE {Value(octets) % n} \ {0}
ScalarFromOctets(octets) ==
  IF Len(octets) # NSize THEN {} ELSE {Value(octets)} \cap (1..(n - 1))

\* bytes_from_prv_key_int: the bindings write it, or it is written here.
BytesFromPrvKeyInt(q, compressed) == BytesFromPoint(Mult(q, G), compressed)
=============================================================================
