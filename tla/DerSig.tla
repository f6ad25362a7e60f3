------------------------------- MODULE DerSig -------------------------------
(***************************************************************************)
(* The octets of an ECDSA signature (dsa.Sig.serialize and dsa.Sig.parse): *)
(* [0x30][size][0x02][size][r][0x02][size][s], read strictly, as BIP66     *)
(* has it, or not.                                                         *)
(*                                                                         *)
(* An octet has O bits, 8 in the code; what is written about 0x80 is       *)
(* about the highest of them.  The three wide prefixes of a CompactSize    *)
(* are the last three octets.  Octets are read from the front of a         *)
(* sequence: an answer is a set with what was read and what is left, empty *)
(* for a refusal.                                                          *)
(***************************************************************************)
EXTENDS Integers, Sequences, FiniteSets

CONSTANTS
  n, NLen,          \* the order of secp256k1's generator, and its bits
  RValues,          \* what is congruent to an x-coordinate
  O,                \* the bits of an octet
  SigMarker, ScalarMarker,
  MaxSize,          \* _MAX_SIZE
  Put,              \* bound: the octets an edit puts in
  Boundary,         \* bound: the scalars of the signatures edited twice
  Pads              \* bound: how many zeros somebody puts before a scalar

HighBit == 2^(O - 1)
OctetOf == 0..(2^O - 1)

\* The most octets a body takes, 70 on secp256k1.
MaxSigDataSize == 2 * (2 + NLen \div O + 1)

\* parse reads signatures of secp256k1, whose sizes serialize writes in one
\* octet, the only form that is read strictly; with pads they fit two.
DerAssumption ==
  /\ n \in Nat /\ n > 2 /\ NLen \in Nat \ {0} /\ 2^(NLen - 1) <= n /\ n < 2^NLen
  /\ RValues \subseteq 1..(n - 1)
  /\ O \in Nat /\ O > 2
  /\ MaxSize \in Nat /\ MaxSigDataSize < HighBit /\ MaxSigDataSize <= MaxSize
  /\ {SigMarker, ScalarMarker} \cup Put \subseteq OctetOf
  /\ Pads \subseteq Nat /\ \A pad \in Pads : MaxSigDataSize + 4 + 2 * pad < 2^(2 * O)

IsSig(r, s) == r \in RValues /\ s \in 1..(n - 1)

BitLength(k) == CHOOSE i \in 0..k : k < 2^i /\ (i = 0 \/ 2^(i - 1) <= k)
ToBytes(k, size) == [i \in 1..size |-> (k \div 2^(O * (size - i))) % 2^O]
FromBytes(octets) ==
  LET value[i \in 0..Len(octets)] ==
        IF i = 0 THEN 0 ELSE value[i - 1] * 2^O + octets[i]
  IN  value[Len(octets)]
Reversed(octets) == [i \in DOMAIN octets |-> octets[Len(octets) + 1 - i]]

-----------------------------------------------------------------------------
(* Writing                                                                 *)

DerLength(k) ==
  IF k < HighBit THEN <<k>>
  ELSE LET octets == ToBytes(k, (BitLength(k) + O - 1) \div O)
       IN  <<HighBit + Len(octets)>> \o octets

\* One octet more than the bits fill, so that the highest bit is never set.
\* Slip: as many as they need.
ScalarSizeUnpadded(k) == (BitLength(k) + O - 1) \div O
ScalarSize(k) == BitLength(k) \div O + 1

SerializeScalar(k) ==
  <<ScalarMarker>> \o DerLength(ScalarSize(k)) \o ToBytes(k, ScalarSize(k))

Serialize(sig) ==
  LET out == SerializeScalar(sig.r) \o SerializeScalar(sig.s)
  IN  <<SigMarker>> \o DerLength(Len(out)) \o out

-----------------------------------------------------------------------------
(* Reading                                                                 *)

Rest(octets, k) == SubSeq(octets, k + 1, Len(octets))

\* How many octets of size follow a wide prefix, and the least they may say.
Wide(prefix) ==
  CASE prefix = 2^O - 3 -> {<<2, prefix>>}
    [] prefix = 2^O - 2 -> {<<4, 2^(2 * O)>>}
    [] prefix = 2^O - 1 -> {<<8, 2^(4 * O)>>}
    [] OTHER            -> {}

\* The size a wide prefix announces, little-endian and the shortest there is.
\* Slip: big-endian.
WideSizesBig(octets, wm) ==
  IF Len(octets) <= wm[1] THEN {}
  ELSE {k \in {FromBytes(SubSeq(octets, 2, wm[1] + 1))} : k >= wm[2]}
WideSizes(octets, wm) ==
  IF Len(octets) <= wm[1] THEN {}
  ELSE {k \in {FromBytes(Reversed(SubSeq(octets, 2, wm[1] + 1)))} : k >= wm[2]}

\* _parse_der_size: the size and what follows it.
ParseDerSize(octets, strictly) ==
  IF octets = << >> \/ (strictly /\ octets[1] >= HighBit) THEN {}
  ELSE LET wide  == Wide(octets[1])
           sizes == IF wide = {} THEN {<<octets[1], Rest(octets, 1)>>}
                    ELSE UNION {{<<k, Rest(octets, wm[1] + 1)>> : k \in WideSizes(octets, wm)} : wm \in wide}
       IN  {sr \in sizes : sr[1] <= MaxSize}

\* _parse_der_value: neither an empty value nor one that is cut off.
ParseDerValue(octets, strictly) ==
  {<<SubSeq(sr[2], 1, sr[1]), Rest(sr[2], sr[1])>> :
     sr \in {sr \in ParseDerSize(octets, strictly) : sr[1] > 0 /\ sr[1] <= Len(sr[2])}}

\* Slip: any zero in front is a pad.
CanonicalPadded(value) == value[1] < HighBit
\* What BIP66 asks of the octets of a scalar.
Canonical(value) ==
  /\ ~(Len(value) > 1 /\ value[1] = 0 /\ value[2] < HighBit)
  /\ value[1] < HighBit

DeserializeScalar(octets, strictly) ==
  IF octets = << >> \/ octets[1] # ScalarMarker THEN {}
  ELSE {<<FromBytes(vr[1]), vr[2]>> :
          vr \in {vr \in ParseDerValue(Rest(octets, 1), strictly) :
                    strictly => Canonical(vr[1])}}

\* The two scalars of a body, which they fill.
Scalars(body, strictly) ==
  {[r |-> pair[1][1], s |-> pair[2][1]] :
     pair \in {pair \in UNION {{rr} \X DeserializeScalar(rr[2], strictly) :
                                 rr \in DeserializeScalar(body, strictly)} :
                 pair[2][2] = << >>}}

\* Sig.parse before check_validity.
Parse(octets, strictly) ==
  IF octets = << >> \/ octets[1] # SigMarker THEN {}
  ELSE UNION {Scalars(br[1], strictly) :
                br \in {br \in ParseDerValue(Rest(octets, 1), strictly) :
                          strictly => Len(br[1]) <= MaxSigDataSize /\ br[2] = << >>}}

\* _compact and _sig_from_compact.
NSize == (NLen + O - 1) \div O
Compact(sig) == ToBytes(sig.r, NSize) \o ToBytes(sig.s, NSize)
SigFromCompact(octets) ==
  [r |-> FromBytes(SubSeq(octets, 1, NSize)), s |-> FromBytes(Rest(octets, NSize))]

-----------------------------------------------------------------------------
VARIABLES
  sig,      \* a signature somebody made, or only a pair of numbers
  octets,   \* what became of its octets, empty before they are written
  strict, lax   \* what the two parses of them answer

vars == <<sig, octets, strict, lax>>

Init ==
  /\ sig \in [r : 0..n, s : 0..n]
  /\ octets = << >> /\ strict = {} /\ lax = {}

\* What may become of octets: one is replaced, left out or put in; twice
\* where a size and what it counts are to be edited together.
Replaced(s) == {[s EXCEPT ![i] = x] : i \in DOMAIN s, x \in Put}
Without(s)  == {SubSeq(s, 1, i - 1) \o SubSeq(s, i + 1, Len(s)) : i \in DOMAIN s}
With(s)     == {SubSeq(s, 1, i) \o <<x>> \o SubSeq(s, i + 1, Len(s)) :
                  i \in 0..Len(s), x \in Put}
Edited(s) == Replaced(s) \cup Without(s) \cup With(s)
Edits(s) ==
  {s} \cup Edited(s)
  \cup IF {sig.r, sig.s} \subseteq Boundary THEN UNION {Edited(t) : t \in Edited(s)} ELSE {}

\* serialize, without its own check, and what the caller does to the octets.
Write ==
  /\ octets = << >>
  /\ octets' \in Edits(Serialize(sig))
  /\ strict' = Parse(octets', TRUE) /\ lax' = Parse(octets', FALSE)
  /\ UNCHANGED sig

Next == Write

Spec == Init /\ [][Next]_vars

-----------------------------------------------------------------------------
\* The octets are octets, and each parse answers what it answers of them.
Inv ==
  /\ sig \in [r : 0..n, s : 0..n] /\ octets \in Seq(OctetOf)
  /\ strict = Parse(octets, TRUE) /\ lax = Parse(octets, FALSE)

\* What serialize writes of a signature is read back by either parse and by
\* the compact form, whatever the scalars' lengths and highest bits.
WrittenIsRead ==
  octets = Serialize(sig) /\ IsSig(sig.r, sig.s) =>
    strict = {sig} /\ lax = {sig} /\ SigFromCompact(Compact(sig)) = sig

\* BIP66: whatever was done to them, octets that are read strictly are the
\* ones serialize writes of what was read, so a signature has one spelling.
StrictIsCanonical ==
  \A read \in strict : Serialize(read) = octets

\* Octets somebody wrote with zeros in front of the scalars and the sizes
\* CompactSize gives them.
CompactSize(k) ==
  IF k < 2^O - 3 THEN <<k>> ELSE <<2^O - 3>> \o Reversed(ToBytes(k, 2))
Zeros(k) == [i \in 1..k |-> 0]
LaxScalar(k, pad) ==
  LET value == Zeros(pad) \o ToBytes(k, ScalarSize(k))
  IN  <<ScalarMarker>> \o CompactSize(Len(value)) \o value
LaxSpelling(pad1, pad2) ==
  LET out == LaxScalar(sig.r, pad1) \o LaxScalar(sig.s, pad2)
  IN  <<SigMarker>> \o CompactSize(Len(out)) \o out

\* Without strict those zeros are read over, wide sizes included, up to the
\* size that is refused; what is read strictly is read the same without.
LaxReadsPads ==
  /\ strict \subseteq lax
  /\ octets = << >> =>
       \A pad1, pad2 \in Pads :
         Parse(LaxSpelling(pad1, pad2), FALSE)
           = IF Len(LaxScalar(sig.r, pad1)) + Len(LaxScalar(sig.s, pad2)) <= MaxSize
             THEN {sig} ELSE {}
===========================================================================
