---------------------------- MODULE KeyMaterial ----------------------------
(***************************************************************************)
(* A participant who collects the public shares of a FROST group           *)
(* (ecc/frost.py).  It knows the threshold and the threshold public key,   *)
(* learns the shares one at a time, in any order and some of them never,   *)
(* and asks validate_threshold_info about what it holds.                   *)
(***************************************************************************)
EXTENDS Shares

CONSTANT Total   \* the number of participants

VARIABLES t, thresh_pk,  \* what the participant was told of the group
          pub_shares,    \* the shares it has learnt, Unknown the others
          verdict        \* the answer about these shares, "none" before it

vars == <<t, thresh_pk, pub_shares, verdict>>

Init ==
  /\ t \in 0..(Total + 1)
  /\ thresh_pk \in Encoding
  /\ pub_shares = [i \in 1..Total |-> Unknown]
  /\ verdict = "none"

\* A ThresholdInfo is frozen: with one more share there is another one.
Learn(i, share) ==
  /\ pub_shares[i] = Unknown
  /\ pub_shares' = [pub_shares EXCEPT ![i] = share]
  /\ verdict' = "none"
  /\ UNCHANGED <<t, thresh_pk>>

Validate ==
  /\ verdict = "none"
  /\ verdict' = ValidateThresholdInfo(t, thresh_pk, pub_shares)
  /\ UNCHANGED <<t, thresh_pk, pub_shares>>

Next == Validate \/ \E i \in 1..Total, share \in Encoding : Learn(i, share)
Spec == Init /\ [][Next]_vars

-----------------------------------------------------------------------------
\* The lists of signers that could meet in a session: known shares only, each
\* participant once, in any order.
Signers ==
  UNION {{ids \in [1..k -> ToSet(PresentIds(pub_shares))] : IsInjective(ids)} :
         k \in 1..Total}

\* Key material that passed signs with every set of t or more known
\* participants, in any order: whichever of the shares a session takes, its own
\* check reconstructs the same threshold key.  This is what the docstring of
\* ThresholdInfo promises, of a check that looks at one base set only.
ValidatedMaterialSigns ==
  verdict = "ok" =>
    \A ids \in Signers :
      Len(ids) >= t =>
        ValidateSessionParams(Total, t, ids, SharesOf(pub_shares, ids), thresh_pk) = "ok"

\* The value at x of the polynomial with coefficients c.
Value(c, x) == FoldLeft(LAMBDA v, a : (v * x + a) % n, 0, c)

\* Shares pass exactly when at least t of them are known and they are values
\* of one polynomial of degree below t whose value at -1 is the threshold key:
\* an honest dealer's material is never refused, and no other is accepted.
PassesIffOnPolynomial ==
  (verdict # "none" /\ t \in 1..Total) =>
    (verdict = "ok" <=>
       /\ Len(PresentIds(pub_shares)) >= t
       /\ \E c \in [1..t -> Scalar] :
            /\ Value(c, -1) = thresh_pk
            /\ \A i \in ToSet(PresentIds(pub_shares)) : Value(c, i) = pub_shares[i + 1])

\* The two spellings of Lagrange's coefficient agree: the one sign applies to
\* a secret share and the one the key material is checked with.
CoefficientsAgree ==
  \A ids \in Signers : \A i \in ToSet(ids) :
    DeriveInterpolatingValue(ids, i) = Coefficient(ids, i, -1)
=============================================================================
