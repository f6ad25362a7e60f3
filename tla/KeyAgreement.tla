---------------------------- MODULE KeyAgreement ----------------------------
(***************************************************************************)
(* Cofactor Diffie-Hellman (ecc/dh.py) between two parties, one of which   *)
(* may be handed any pair of numbers in place of the other's public key.   *)
(*                                                                         *)
(* The multiplications are the library's own, of any point of the curve:   *)
(* what they answer of a point outside the subgroup is what the scheme is  *)
(* about.  Keying data is the field element it is derived from:            *)
(* KeyDerivation is about the derivation.                                  *)
(***************************************************************************)
EXTENDS PointOctets

CONSTANTS
  Offered,   \* bound: what the first party may receive
  Secrets    \* bound: what the parties hold as private keys

Parties == {"U", "V"}
Other(party) == IF party = "U" THEN "V" ELSE "U"

-----------------------------------------------------------------------------
(* curves.mult on a curve the bindings do not serve *)

NegateAff(Q) == <<Q[1], (p - Q[2]) % p>>
\* _blinded_jac, with one of its random factors.
Blind(Q) == BlindedJac(Q, p - 2)
NLen == CHOOSE i \in 0..30 : n < 2^i /\ 2^(i - 1) <= n

Windows == INSTANCE ScalarMult WITH
  DoubleAff <- Double, BlindedJac <- Blind, ScalarLen <- NLen, FieldLen <- 8,
  MaxW <- 4, FixedPointW <- 8

\* mult of a point that is not the generator; the window is _MULT_W.
MultWindow(m, Q) ==
  AffFromJac(Windows!MultRegularWindow(m % n, Blind(JacFromAff(Q)), 4))
\* m*G, by the generator's tables.
MultGenerator(m) == Mult(m, G)
MultPoint(m, Q) == IF Q = G THEN MultGenerator(m) ELSE MultWindow(m, Q)

-----------------------------------------------------------------------------
(* diffie_hellman *)

\* Slip: what QV has outside the subgroup is left in it.
ClearedNot(QV) == QV
Cleared(QV) == IF h = 1 THEN QV ELSE MultPoint(h, QV)

\* The shared field element: none where a point is not one, or is infinity.
DiffieHellman(d, QV) ==
  IF d \notin 1..(n - 1) \/ ~IsOnCurve(QV) \/ IsInf(QV) THEN {}
  ELSE IF Serves THEN {Mult(d, QV)[1]}
  ELSE IF ~IsOnCurve(Cleared(QV)) THEN {}   \* mult asks it of an infinity too
  ELSE LET shared == MultPoint(d, Cleared(QV))
       IN  IF IsInf(shared) THEN {} ELSE {shared[1]}

-----------------------------------------------------------------------------
VARIABLES
  secret,     \* what each party holds as its private key
  received,   \* the public key each has received, <<>> before
  done,       \* the parties that have asked for keying data
  agreed      \* what each derives it from, nothing if it was refused

vars == <<secret, received, done, agreed>>

Init ==
  /\ secret \in [Parties -> Secrets]
  /\ received = [party \in Parties |-> <<>>]
  /\ done = {} /\ agreed = [party \in Parties |-> {}]

\* A party receives the other's public key, or U something else.
Receive(party) ==
  /\ received[party] = <<>>
  /\ \E Q \in {MultGenerator(secret[Other(party)])} \cup (IF party = "U" THEN Offered ELSE {}) :
       received' = [received EXCEPT ![party] = Q]
  /\ UNCHANGED <<secret, done, agreed>>

Agree(party) ==
  /\ received[party] # <<>> /\ party \notin done
  /\ done' = done \cup {party}
  /\ agreed' = [agreed EXCEPT ![party] = DiffieHellman(secret[party], received[party])]
  /\ UNCHANGED <<secret, received>>

Next == \E party \in Parties : Receive(party) \/ Agree(party)

Spec == Init /\ [][Next]_vars

-----------------------------------------------------------------------------
(* Properties *)

\* Whoever derives, derives from d*h*Q, for every point of the curve: what Q
\* has outside the subgroup is annihilated, and all that is refused is a point
\* with nothing inside it, the point of order two for having no spelling of its
\* own (dh.py:70-80, 121-134).
OnlyItsSubgroupPart ==
  \A party \in done :
    LET d      == secret[party]
        Q      == received[party]
        shared == IF Q \in Points /\ Q[2] # 0 /\ d \in 1..(n - 1)
                  THEN TimesTo(d * h, Q)[d * h] ELSE None
    IN  agreed[party] = IF shared = None THEN {} ELSE {shared[1]}

Honest == \A party \in Parties :
  secret[party] \in 1..(n - 1) /\ received[party] = MultGenerator(secret[Other(party)])

\* Two parties with private keys that received each other's public ones derive,
\* and from the same (dh.py:48-134).
PartiesAgree ==
  done = Parties /\ Honest => agreed["U"] # {} /\ agreed["U"] = agreed["V"]
=============================================================================
