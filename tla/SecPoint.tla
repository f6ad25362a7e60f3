------------------------------ MODULE SecPoint ------------------------------
(***************************************************************************)
(* Somebody with a key in hand, public or private, as it was spelled to    *)
(* them (curves/sec_point.py): it is read, multiplied unread, written      *)
(* again, or published.                                                    *)
(***************************************************************************)
EXTENDS PointOctets

CONSTANTS
  Keys,           \* bound: what somebody holds as a key
  Multipliers     \* bound: what they multiply one by

-----------------------------------------------------------------------------
VARIABLES
  key,    \* the key in hand
  by,     \* the call that was made of it, "nothing" before
  said,   \* what that call was told: whether hybrid, or the scalar
  answer  \* what it answered

vars == <<key, by, said, answer>>

Init == key \in Keys /\ by = "nothing" /\ said = <<>> /\ answer = {}

Answer(call, told, value) ==
  /\ by = "nothing" /\ by' = call /\ said' = told /\ answer' = value
  /\ UNCHANGED key

ReadOctets == ~IsPair(key) /\ \E hybrid \in BOOLEAN :
  Answer("octets", <<hybrid>>, PointFromOctets(key.as, hybrid))
ReadPubKey == Answer("key", <<>>, PointFromPubKey(key))
Multiply == \E m \in Multipliers : Answer("multiple", <<m>>, MultPubKey(m, key))
MultiplySec == ~IsPair(key) /\ key.as # <<>> /\ \E m \in Multipliers :
  Answer("multiple of octets", <<m>>, MultSec(key.as, m % n))
ReadScalar == ~IsPair(key) /\ Answer("scalar", <<>>, ScalarFromOctets(key.as))

\* The owner of a private key publishes it, and somebody who held no octets
\* holds these.
Publish == \E q \in Multipliers, compressed \in BOOLEAN :
  /\ by = "nothing" /\ key.as = <<>>
  /\ \E octets \in BytesFromPrvKeyInt(q, compressed) :
       key' = [spelled |-> "octets", as |-> octets]
  /\ by' = "published" /\ said' = <<q, compressed>> /\ answer' = {}

\* What was published is read.
ReadPublished ==
  /\ by = "published" /\ by' = "read published" /\ UNCHANGED <<key, said>>
  /\ answer' = PointFromPubKey(key)

\* A point that was read is written again.
Rewrite == \E compressed \in BOOLEAN :
  /\ by \in {"octets", "key"} /\ answer # {}
  /\ by' = "written" /\ said' = <<compressed>>
  /\ answer' = UNION {BytesFromPoint(Q, compressed) : Q \in answer}
  /\ UNCHANGED key

Next ==
  \/ ReadOctets \/ ReadPubKey \/ Multiply \/ MultiplySec \/ ReadScalar
  \/ Publish \/ ReadPublished \/ Rewrite

Spec == Init /\ [][Next]_vars

-----------------------------------------------------------------------------
(* Properties *)

\* A key that is read is a multiple of the generator, and not infinity:
\* neither a point of a small order, nor (x, 0) for whatever it stands, nor a
\* coordinate p or above (sec_point.py:161-245, curve.py:122-152).
ReadIsInSubgroup ==
  by \in {"octets", "key", "read published"} => \A Q \in answer : Q \in Subgroup

\* A point of the subgroup has one compressed and one uncompressed spelling:
\* what was read is written as the octets it was read from; hybrid ones, read
\* when asked for, differ in a prefix that says the parity they have
\* (sec_point.py:110-128, 195-245).
OneSpelling ==
  by = "written" /\ ~IsPair(key) /\ said[1] = (Len(key.as) = 2) =>
    IF key.as[1] \in Hybrid
    THEN answer = {<<Uncompressed, key.as[2], key.as[3]>>} /\ key.as[1] = 6 + (key.as[3] % 2)
    ELSE answer = {key.as}

\* A key multiplied unread is what it is when it is read first, and what is no
\* key is refused either way, whichever arm answers (sec_point.py:366-416).
ProductIsTheSame ==
  /\ by = "multiple" => answer = {Mult(said[1], Q) : Q \in PointFromPubKey(key)}
  /\ by = "multiple of octets" => answer = {Mult(said[1], Q) : Q \in PointFromOctets(key.as, FALSE)}

\* A private key published either way is read as its multiple of the
\* generator; zero has nothing to publish (sec_point.py:131-158).
PublishedIsRead ==
  /\ by = "published" => said[1] % n # 0
  /\ by = "read published" => answer = {Multiples(G, n)[said[1] % n]}

\* No octets that are a public key are also a private one, not even where the
\* two take as many octets (sec_point.py:88-107).
NoKeyIsBoth ==
  by = "scalar" /\ answer # {} => PointFromOctets(key.as, TRUE) = {}
=============================================================================
