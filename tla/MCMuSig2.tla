----------------------------- MODULE MCMuSig2 -----------------------------
(***************************************************************************)
(* MuSig2 on a group of seven elements: hashes that take every value the   *)
(* code has to cope with, zero and one included, and plans that reach each *)
(* branch of the session.                                                  *)
(***************************************************************************)
EXTENDS MuSig2, TLC

CONSTANTS m1, m2, s1, s2

MCOddY == {3, 5, 6}
MCMsg == {m1, m2}

Code(m) == IF m = m1 THEN 1 ELSE 3

MCChallenge ==
  [t \in Scalar \X Scalar \X Msg |-> (t[1] + 2 * t[2] + 3 * Code(t[3])) % n]
MCNonceCoeffHash ==
  [t \in Point \X Point \X Finite \X Msg |->
    (2 * t[1] + t[2] + 3 * t[3] + Code(t[4])) % n]
MCKeyCoeffHash ==
  [t \in KeyLists \X Finite |-> (3 * t[2] + Len(t[1])) % n]

Tw(t, x) == [t |-> t, is_xonly |-> x]
Plan(pks, tweaks, m, a) == [pks |-> pks, tweaks |-> tweaks, msg |-> m, adaptor |-> a]

\* Two nonces of one system are two names: no definition tells them apart.
MCSymmetry == Permutations({s1, s2})

\* The lifecycle of nonces: two signers with keys 2 and 3, two messages, a key
\* list without signer 3, one with a key that does not parse.
ProtocolPlans ==
  {Plan(<<2, 3>>, << >>, m1, NoAdaptor),
   Plan(<<2, 4>>, << >>, m2, NoAdaptor),
   Plan(<<2, Bad>>, << >>, m1, NoAdaptor)}
ProtocolNonces == {<<2, 3>>}
ProtocolForeignPubNonces == {<<Bad, 1>>, <<1, Bad>>}
ProtocolForeignNonces == {<<4, INF>>, <<Bad, 1>>}

\* The arithmetic of one session: plain and x-only tweaks of keys of either
\* parity, a tweak out of range, one that cancels the key, repeated keys, a
\* lone signer, adaptors of either parity.
AlgebraPlans ==
  {Plan(pks, tweaks, m1, a) :
     pks \in {<<2, 3>>},
     tweaks \in {<< >>, <<Tw(3, TRUE)>>, <<Tw(2, FALSE), Tw(5, TRUE)>>},
     a \in {NoAdaptor, 2, 5}}
  \cup {Plan(<<3, 3>>, <<Tw(3, TRUE)>>, m1, NoAdaptor),
        Plan(<<5, 2>>, <<Tw(7, FALSE)>>, m1, NoAdaptor),
        Plan(<<3>>, <<Tw(1, TRUE), Tw(6, FALSE)>>, m2, NoAdaptor),
        Plan(<<2, 3, 5>>, <<Tw(4, TRUE), Tw(4, TRUE)>>, m2, NoAdaptor),
        Plan(<<2, 3>>, << >>, m2, Bad)}
  \cup {Plan(<<2, 3>>, <<Tw(t, FALSE)>>, m2, NoAdaptor) : t \in Scalar}
AlgebraNonces == {<<2, 3>>, <<5, 1>>}
AlgebraForeignPubNonces == {<<3, 6>>}
=============================================================================
