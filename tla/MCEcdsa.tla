------------------------------ MODULE MCEcdsa ------------------------------
(***************************************************************************)
(* ECDSA on curves of the library's own tests: ec17_13, where n < p so     *)
(* that r may lose n, and ec31_13h3, whose cofactor is 3 so that recovery  *)
(* meets points outside the subgroup.                                      *)
(***************************************************************************)
EXTENDS Ecdsa

CONSTANTS a, b,   \* the curve's equation
          xG, yG  \* its generator

\* What Curve.__init__ asks of the equation.
ASSUME CurveAssumption ==
  /\ p \in Nat /\ p > 3
  /\ \A d \in 2..(p - 1) : p % d # 0
  /\ a \in 0..(p - 1) /\ b \in 0..(p - 1)
  /\ (4 * a * a * a + 27 * b * b) % p # 0

\* ec17_13: the multiples of its generator (0, 12).
X17_13   == <<0, 16, 3, 1, 7, 9, 9, 7, 1, 3, 16, 0>>
Odd17_13 == {2, 4, 6, 8, 10, 12}

\* ec31_13h3: the multiples of (21, 8), three times which is its generator.
X31_13h3 ==
  <<21, 17, 11, 6, 23, 28, 22, 2, 27, 30, 19, 24, 0, 26, 16, 29, 12, 18, 10,
    10, 18, 12, 29, 16, 26, 0, 24, 19, 30, 27, 2, 22, 28, 23, 6, 11, 17, 21>>
Odd31_13h3 ==
  {2, 3, 5, 9, 13, 14, 17, 19, 21, 23, 24, 27, 28, 29, 31, 32, 33, 35, 38}

Affine == INSTANCE JacobianGroup

\* The tables are the affine group law's: some point's multiples have these
\* coordinates, reach every point of the curve, end at infinity after N and
\* pass the generator at h.
ASSUME TablesAreTheCurve ==
  \E B \in Affine!AffinePoints :
    LET times == Affine!Multiples(B, N)
    IN  /\ \A k \in Finite : /\ times[k][1] = XOf[k]
                             /\ (times[k][2] % 2 = 1) = (k \in OddY)
                             /\ ~Affine!IsInf(times[k])
        /\ Affine!AffinePoints = {times[k] : k \in Finite}
        /\ Affine!IsInf(times[N])
        /\ times[h] = <<xG, yG>>

\* Hashes that repeat neither with the counter nor with the commitment.
EntropyCode(e) == IF Len(e) = 0 THEN 0 ELSE IF Len(e) = 1 THEN 5 * e[1] ELSE 3 * e[2] + 1
MCNonce == [t \in Scalar \X (1..(n - 1)) \X Entropy |->
             1 + ((3 * t[1] + 5 * t[2] + EntropyCode(t[3])) % (n - 1))]
MCTweak == [t \in Finite \X Commit |-> 1 + ((t[1] + 4 * t[2]) % (n - 1))]

Args(cs, keys, nonces, lowerSs, grinds, verifies, givens, commits) ==
  [c : cs, key : keys, nonce : nonces, lowerS : lowerSs, grind : grinds,
   verify : verifies, given : givens, commit : commits]

\* Every way to call sign_, clashing arguments included.
SignRequests ==
  Args({0, 2, 7}, {1, 3}, {{}, {0}, {2}, {9}}, BOOLEAN, BOOLEAN, BOOLEAN,
       {{}, {INF}, {Mult(1, G)}, {Mult(3, G)}}, {{}, {1}, {2}})
  \cup Args({5}, {0, n}, {{}}, {TRUE}, {TRUE}, {TRUE}, {{}}, {{}})

\* Every key, nonce and challenge; public keys outside the subgroup; grinding
\* and commitments for every key and challenge.
RecoverRequests ==
  Args(Scalar, 1..(n - 1), {{k} : k \in 1..(n - 1)}, BOOLEAN, {FALSE}, {FALSE},
       {{}}, {{}})
  \cup Args({0, 6}, {5}, {{4}}, {TRUE}, {FALSE}, {TRUE}, {{P} : P \in Point}, {{}})
  \cup Args(Scalar, 1..(n - 1), {{}}, {TRUE}, BOOLEAN, {TRUE}, {{}}, {{}, {1}})
=============================================================================
