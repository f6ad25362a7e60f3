---------------------------- MODULE RangeHeader ----------------------------
(***************************************************************************)
(* The header of a Confidential Transactions range proof                   *)
(* (ecc/rangeproof.py): what it proves of a value, the rings it asks for,  *)
(* what is written for a request, and its octets.                          *)
(*                                                                         *)
(* A value has W bits where the format has 64, and the thresholds follow:  *)
(* 2**63-1 is IMax, 61 bits of precision are W-3.  The base stays ten.     *)
(* An octet string is the sequence of its fields: the flags, the mantissa, *)
(* the floor's eight octets as one number, the sign octets as one, and     *)
(* last how many 32-octet words follow.                                    *)
(***************************************************************************)
EXTENDS Integers, Sequences, Folds

CONSTANTS
  W,       \* the bits of a value, 64 in the format
  MaxExp   \* _MAX_EXP, 18 in the format

UMax == 2^W - 1
IMax == 2^(W - 1) - 1

HeaderAssumption ==
  /\ W \in Nat /\ W > 3
  /\ MaxExp \in 0..31 /\ 10^MaxExp <= IMax

Least(i, j)    == IF i < j THEN i ELSE j
Greatest(i, j) == IF i < j THEN j ELSE i

\* No power of ten is just above a power of two, as far as it goes for values
\* of W bits: a digits' range that fits once it is scaled leaves room for the
\* highest floor a request with that precision can end with.  It is so in the
\* format, for 64 bits and exponents to 18, and is what keeps the headers that
\* are written from overflowing; it is not so for every W.
RoomAssumption ==
  \A a \in 1..(W - 3), e \in 1..MaxExp :
    (2^a - 1) * 10^e <= UMax
      => (2^a - 1) * 10^e + Least(10^e + 2^(W - a) - 2, IMax) <= UMax

\* exp is -1 and mantissa 0 where the value is stated; min is an option.
Header == [exp : -1..31, mantissa : 0..(W + 1), min : {{}} \cup {{k} : k \in 0..UMax}]

Floor(hd) == IF hd.min = {} THEN 0 ELSE CHOOSE k \in hd.min : TRUE
ScaleOf(hd) == 10^Greatest(hd.exp, 0)

BitLength(k) == CHOOSE i \in 0..W : k < 2^i /\ (i = 0 \/ k >= 2^(i - 1))

-----------------------------------------------------------------------------
\* _rsizes: a ring of four for two bits, a last ring of two for an odd one.
Rsizes(mantissa) ==
  IF mantissa = 0 THEN <<1>>
  ELSE [i \in 1..((mantissa + 1) \div 2) |-> IF 2 * i > mantissa THEN 2 ELSE 4]

Rings(hd)    == Len(Rsizes(hd.mantissa))

\* _max_value, which is refused where it overflows: at one of its steps, or
\* what comes to the same, at the last.
MaxValue(hd) == (2^hd.mantissa - 1) * ScaleOf(hd) + Floor(hd)

\* _assert_valid_header; the floor's own bound is Header's.
ValidHeader(hd) ==
  /\ hd.mantissa <= W
  /\ IF hd.mantissa = 0 THEN hd.exp = -1 ELSE hd.exp \in 0..MaxExp
  /\ MaxValue(hd) <= UMax

\* _mantissa_value and sign_key_idx: the digits of a value, as keys of the
\* rings, least significant first; refused where the value has none.
HasDigits(hd, value) ==
  /\ value \in Floor(hd)..MaxValue(hd)
  /\ (value - Floor(hd)) % ScaleOf(hd) = 0
MantissaValue(hd, value) == (value - Floor(hd)) \div ScaleOf(hd)
Digit(v, i) == (v \div 4^(i - 1)) % 4
SignKeyIdx(v, mantissa) == [i \in 1..Len(Rsizes(mantissa)) |-> Digit(v, i)]

-----------------------------------------------------------------------------
(* _prove_params                                                           *)

\* The loop: how many divisions by ten there is room for.
\* Slip: one more than there is room for.
ReachedPast(exp, v2) ==
  CHOOSE k \in 0..exp : /\ k = exp \/ v2 * 10^k > UMax
                        /\ \A i \in 0..(k - 1) : v2 * 10^i <= UMax
Reached(exp, v2) ==
  CHOOSE k \in 0..exp : /\ k = exp \/ v2 * 10^k > UMax \div 10
                        /\ \A i \in 0..(k - 1) : v2 * 10^i <= UMax \div 10

\* The header for a value below the floor's and the field's ceilings.
\* Slip: the floor asked for is kept though the division lost digits.
BlindedFloorKept(value, min, exp, bits) ==
  LET asked == Least(bits, IF min = 0 THEN W ELSE W - BitLength(min))
      kept  == IF asked > W - 3 \/ value > IMax THEN 0 ELSE exp
      e     == Reached(kept, 2^asked - 1)
      v     == (value - min) \div 10^e
  IN  [v |-> v, floor |-> min, exp |-> e,
       mantissa |-> Greatest(Greatest(BitLength(v), 1), asked)]
Blinded(value, min, exp, bits) ==
  LET asked == Least(bits, IF min = 0 THEN W ELSE W - BitLength(min))
      kept  == IF asked > W - 3 \/ value > IMax THEN 0 ELSE exp
      e     == Reached(kept, 2^asked - 1)
      v     == (value - min) \div 10^e
  IN  [v |-> v, floor |-> value - v * 10^e, exp |-> e,
       mantissa |-> Greatest(Greatest(BitLength(v), 1), asked)]

Stated(value) == [v |-> 0, floor |-> value, exp |-> -1, mantissa |-> 0]

\* No parameters where the range does not fit.
ProveParams(value, min, exp, bits) ==
  IF min = UMax \/ exp < 0 THEN {Stated(value)}
  ELSE IF (min > 0 /\ value > IMax) \/ (value > 0 /\ min >= IMax) THEN {}
       ELSE {Blinded(value, min, exp, bits)}

\* sign: a floor of zero is no field.
HeaderFor(params) ==
  [exp |-> params.exp, mantissa |-> params.mantissa,
   min |-> IF params.floor = 0 THEN {} ELSE {params.floor}]

-----------------------------------------------------------------------------
(* Octets                                                                  *)

HasRange(flags) == (flags \div 64) % 2 = 1
HasMin(flags)   == (flags \div 32) % 2 = 1

\* _header_octets.
\* Slip: the mantissa is written as it is.
HeaderFieldsWhole(hd) ==
  <<(IF hd.mantissa = 0 THEN 0 ELSE 64 + hd.exp) + (IF hd.min = {} THEN 0 ELSE 32)>>
  \o (IF hd.mantissa = 0 THEN << >> ELSE <<hd.mantissa>>)
  \o (IF hd.min = {} THEN << >> ELSE <<Floor(hd)>>)
HeaderFields(hd) ==
  <<(IF hd.mantissa = 0 THEN 0 ELSE 64 + hd.exp) + (IF hd.min = {} THEN 0 ELSE 32)>>
  \o (IF hd.mantissa = 0 THEN << >> ELSE <<hd.mantissa - 1>>)
  \o (IF hd.min = {} THEN << >> ELSE <<Floor(hd)>>)

\* The ring commitments but the last, e0 and a scalar for each key.
Words(mantissa) ==
  LET sizes == Rsizes(mantissa)
  IN  Len(sizes) + MapThenFoldSet(+, 0, LAMBDA i : sizes[i],
                                  LAMBDA I : CHOOSE i \in I : TRUE, DOMAIN sizes)

\* serialize: a sign is a bit of the sign octets, the first the lowest.
SignNumber(signs) ==
  MapThenFoldSet(+, 0, LAMBDA i : IF signs[i] THEN 2^(i - 1) ELSE 0,
                 LAMBDA I : CHOOSE i \in I : TRUE, DOMAIN signs)
Serialize(hd, signs) ==
  HeaderFields(hd)
  \o (IF Len(signs) = 0 THEN << >> ELSE <<SignNumber(signs)>>)
  \o <<Words(hd.mantissa)>>

\* parse: what the flags say follows is there, and nothing else.
Fields(flags) ==
  [mantissa |-> 2, min |-> IF HasRange(flags) THEN 3 ELSE 2,
   signs |-> 2 + (IF HasRange(flags) THEN 1 ELSE 0) + (IF HasMin(flags) THEN 1 ELSE 0)]

HeaderOf(octets) ==
  LET flags == octets[1]
      at    == Fields(flags)
  IN  [exp      |-> IF HasRange(flags) THEN flags % 32 ELSE -1,
       mantissa |-> IF HasRange(flags) THEN octets[at.mantissa] + 1 ELSE 0,
       min      |-> IF HasMin(flags) THEN {octets[at.min]} ELSE {}]

SignsOf(octets) ==
  LET hd == HeaderOf(octets)
      at == Fields(octets[1])
  IN  [i \in 1..(Rings(hd) - 1) |-> (octets[at.signs] \div 2^(i - 1)) % 2 = 1]

\* Slip: bits above the last sign are not looked at.
ParsesPadded(octets) ==
  LET flags == octets[1]
      at    == Fields(flags)
      hd    == HeaderOf(octets)
      rings == Rings(hd)
  IN  /\ flags < 128
      /\ Len(octets) >= at.signs
      /\ hd.mantissa <= W
      /\ Len(octets) = at.signs + (IF rings > 1 THEN 1 ELSE 0)
      /\ octets[Len(octets)] = Words(hd.mantissa)
      /\ ValidHeader(hd)
Parses(octets) ==
  LET flags == octets[1]
      at    == Fields(flags)
      hd    == HeaderOf(octets)
      rings == Rings(hd)
  IN  /\ flags < 128
      /\ Len(octets) >= at.signs
      /\ hd.mantissa <= W
      /\ Len(octets) = at.signs + (IF rings > 1 THEN 1 ELSE 0)
      /\ rings > 1 => octets[at.signs] < 2^(rings - 1)
      /\ octets[Len(octets)] = Words(hd.mantissa)
      /\ ValidHeader(hd)
=============================================================================
