------------------------------- MODULE Shares -------------------------------
(***************************************************************************)
(* The arithmetic of FROST's key material (ecc/frost.py): the public       *)
(* shares of participants 0, 1, 2, ... are the values at those arguments   *)
(* of one polynomial whose value at -1 is the threshold public key.        *)
(*                                                                         *)
(* A list of shares holds points, octets that encode none (Bad), and       *)
(* Unknown where the holder does not have the share.                       *)
(***************************************************************************)
EXTENDS PrimeGroup, SequencesExt

CONSTANTS
  Bad,             \* octets of the right size that encode no point
  Unknown,         \* None
  MaxParticipants  \* MAX_PARTICIPANTS

Encoding == Finite \cup {Bad}

ModInverse(x) == CHOOSE y \in Scalar : (x * y) % n = 1

\* The product of a sequence, reduced after each factor.
Products(s) ==
  LET upTo[i \in 0..Len(s)] == IF i = 0 THEN 1 ELSE (upTo[i - 1] * s[i]) % n
  IN  upTo
Product(s) == Products(s)[Len(s)]

\* Slip: the value at 0 taken for the one at -1.
InterpolatingValueShifted(ids, my_id) ==
  LET num  == Product([i \in DOMAIN ids |-> IF ids[i] = my_id THEN 1 ELSE ids[i]])
      deno == Product([i \in DOMAIN ids |-> IF ids[i] = my_id THEN 1 ELSE ids[i] - my_id])
  IN  (num * ModInverse(deno)) % n

\* The coefficient of one participant's share in the secret, at -1.
DeriveInterpolatingValue(ids, my_id) ==
  LET num  == Product([i \in DOMAIN ids |-> IF ids[i] = my_id THEN 1 ELSE ids[i] + 1])
      deno == Product([i \in DOMAIN ids |-> IF ids[i] = my_id THEN 1 ELSE ids[i] - my_id])
  IN  (num * ModInverse(deno)) % n

\* The same at any argument x.
Coefficient(ids, my_id, x) ==
  LET num  == Product([i \in DOMAIN ids |-> IF ids[i] = my_id THEN 1 ELSE x - ids[i]])
      deno == Product([i \in DOMAIN ids |-> IF ids[i] = my_id THEN 1 ELSE my_id - ids[i]])
  IN  (num * ModInverse(deno)) % n

\* The value at x of the polynomial the shares sit on; it may be infinity.
DerivePubshareAt(ids, shares, x) ==
  SumAll([i \in DOMAIN ids |-> Mult(Coefficient(ids, ids[i], x), shares[i])])
DeriveThreshPubkey(ids, shares) == DerivePubshareAt(ids, shares, -1)

-----------------------------------------------------------------------------
\* The identifiers whose shares are known, in increasing order: shares[i + 1]
\* belongs to participant i.
PresentIds(shares) ==
  SelectSeq([i \in DOMAIN shares |-> i - 1], LAMBDA id : shares[id + 1] # Unknown)
SharesOf(shares, ids) == [i \in DOMAIN ids |-> shares[ids[i] + 1]]

\* Slip: the shares past the first t not looked at.
ValidateThresholdInfoBase(t, thresh_pk, shares) ==
  LET present == PresentIds(shares)
      base == SubSeq(present, 1, t)
  IN  IF t \notin 1..Len(shares) THEN "threshold range"
      ELSE IF thresh_pk = Bad THEN "threshold key"
      ELSE IF Bad \in ToSet(shares) THEN "pubshare"
      ELSE IF Len(present) < t THEN "too few"
      ELSE IF DeriveThreshPubkey(base, SharesOf(shares, base)) # thresh_pk THEN "mismatch"
      ELSE "ok"

\* validate_threshold_info: the first t known shares are the base every other
\* one and the threshold key are checked against.
ValidateThresholdInfo(t, thresh_pk, shares) ==
  LET present == PresentIds(shares)
      base == SubSeq(present, 1, t)
      known == SharesOf(shares, base)
      Q == DeriveThreshPubkey(base, known)
  IN  IF t \notin 1..Len(shares) THEN "threshold range"
      ELSE IF Len(shares) > MaxParticipants THEN "too many"
      ELSE IF thresh_pk = Bad THEN "threshold key"
      ELSE IF Bad \in ToSet(shares) THEN "pubshare"
      ELSE IF Len(present) < t THEN "too few"
      ELSE IF \E i \in ToSet(present) \ ToSet(base) :
                DerivePubshareAt(base, known, i) # shares[i + 1] THEN "polynomial"
      ELSE IF Q = INF THEN "infinite threshold"
      ELSE IF Q # thresh_pk THEN "mismatch"
      ELSE "ok"

\* What the loop of _parse_session_pub_shares raises at one index.
ParseShare(total, ids, shares, i) ==
  IF ids[i] \notin 0..(total - 1) THEN "id"
  ELSE IF shares # Unknown /\ shares[i] = Bad THEN "pubshare"
  ELSE "ok"

\* _validate_session_params: total and t are the numbers of participants and
\* of those who can sign, ids the signers', shares theirs or Unknown.
ValidateSessionParams(total, t, ids, shares, thresh_pk) ==
  LET refused == {i \in DOMAIN ids : ParseShare(total, ids, shares, i) # "ok"}
      Q == DeriveThreshPubkey(ids, shares)
  IN  IF t \notin 1..total THEN "threshold range"
      ELSE IF total > MaxParticipants THEN "too many"
      ELSE IF Len(ids) \notin t..total THEN "signers"
      ELSE IF shares # Unknown /\ Len(shares) # Len(ids) THEN "lengths"
      ELSE IF refused # {}
           THEN ParseShare(total, ids, shares,
                           CHOOSE i \in refused : \A j \in refused : i <= j)
      ELSE IF ~IsInjective(ids) THEN "duplicates"
      ELSE IF shares = Unknown THEN "ok"
      ELSE IF Q = INF THEN "infinite threshold"
      ELSE IF Q # thresh_pk THEN "mismatch"
      ELSE "ok"
=============================================================================
