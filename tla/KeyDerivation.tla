--------------------------- MODULE KeyDerivation ---------------------------
(***************************************************************************)
(* Keying data of any size from a secret (kdf.py): ANSI-X9.63-KDF hashes   *)
(* the secret, a counter and what the caller adds; HKDF-Expand chains the  *)
(* hashes as well.                                                         *)
(*                                                                         *)
(* Octets have O bits.  A hash is a term, what was hashed: no two inputs   *)
(* have the same one.  An octet of keying data is a place in a hash.       *)
(***************************************************************************)
EXTENDS Integers, Sequences

CONSTANTS
  HfSize,       \* the octets of a hash
  O,            \* the bits of an octet
  AnsiOctets,   \* the octets of ANSI-X9.63-KDF's counter, 4
  Secrets,      \* z, in octets; the secrets of a curve have one length
  Salts, Infos, \* what a caller adds, in octets; none is as good as no octet
  Sizes,        \* bound: the sizes asked for
  PrkSizes,     \* bound: the octets of a pseudorandom key that was not extracted
  MaxCalls      \* bound: calls that are made

KeyDerivationAssumption ==
  /\ HfSize \in Nat \ {0} /\ O \in Nat \ {0} /\ AnsiOctets \in Nat \ {0}
  /\ Secrets \cup Salts \cup Infos \subseteq Seq(0..(2^O - 1))
  /\ \A z1, z2 \in Secrets : Len(z1) = Len(z2)
  /\ Sizes \subseteq Int /\ PrkSizes \subseteq Nat /\ MaxCalls \in Nat

CeilDiv(x, y) == (x + y - 1) \div y

\* What a counter of k octets can number.
\* Slip: one block more.
BlocksOfMore(k) == 2^(O * k)
BlocksOf(k) == 2^(O * k) - 1

\* _assert_valid_keying_data_size
IsSize(size, blocks) == size \in 1..(blocks * HfSize)

ToBytes(x, k) == [i \in 1..k |-> (x \div 2^(O * (k - i))) % 2^O]

\* Slip: the counter is one octet.
AnsiInputNarrow(z, counter, info) == z \o ToBytes(counter % 2^O, AnsiOctets) \o info
AnsiInput(z, counter, info) == z \o ToBytes(counter, AnsiOctets) \o info

\* The hash of each block in turn; a block of HKDF hashes the one before it.
AnsiBlocks(z, info, size) ==
  [i \in 1..CeilDiv(size, HfSize) |-> <<"hash", AnsiInput(z, i, info)>>]
HkdfBlocks(prk, info, size) ==
  LET block[i \in 0..CeilDiv(size, HfSize)] ==
        IF i = 0 THEN <<>> ELSE <<prk, block[i - 1], info, i % 2^O>>
  IN  [i \in 1..CeilDiv(size, HfSize) |-> block[i]]

\* HMAC pads a key with zeros, so those at its end say nothing, and no salt and
\* an empty one are the same.  (One longer than a block would be hashed first.)
HmacKey(salt) ==
  SubSeq(salt, 1, CHOOSE k \in 0..Len(salt) :
                    /\ k = 0 \/ salt[k] # 0
                    /\ \A i \in (k + 1)..Len(salt) : salt[i] = 0)
HkdfExtract(ikm, salt) == [salt |-> HmacKey(salt), ikm |-> ikm, size |-> HfSize]

Blocks(call) ==
  IF call.kdf = "ansi" THEN AnsiBlocks(call.key, call.info, call.size)
  ELSE HkdfBlocks(call.key, call.info, call.size)

-----------------------------------------------------------------------------
VARIABLE calls   \* the calls that were answered, and how: "derived", or what they raised

Init == calls = <<>>

\* A counter that does not fit its octets is an error of the interpreter's.
Outcome(size, octets) ==
  IF ~IsSize(size, BlocksOf(octets)) THEN "refused"
  ELSE IF CeilDiv(size, HfSize) >= 2^(O * octets) THEN "overflow"
  ELSE "derived"

Record(kdf, key, info, size, outcome) ==
  [kdf |-> kdf, key |-> key, info |-> info, size |-> size, outcome |-> outcome]
AnsiAnswer(z, info, size) == Record("ansi", z, info, size, Outcome(size, AnsiOctets))
HkdfAnswer(prk, info, size) ==
  LET outcome == Outcome(size, 1)
  IN  Record("hkdf", prk, info, size,
             IF outcome = "derived" /\ prk.size < HfSize THEN "refused" ELSE outcome)

Answer(answer) == Len(calls) < MaxCalls /\ calls' = Append(calls, answer)

AnsiX963Kdf == \E z \in Secrets, info \in Infos, size \in Sizes :
  Answer(AnsiAnswer(z, info, size))
HkdfExpand(prk) == \E info \in Infos, size \in Sizes : Answer(HkdfAnswer(prk, info, size))
\* A caller that holds a random key expands it; hkdf extracts one.
Expand == \E size \in PrkSizes : HkdfExpand([salt |-> <<>>, ikm |-> <<>>, size |-> size])
Hkdf == \E ikm \in Secrets, salt \in Salts : HkdfExpand(HkdfExtract(ikm, salt))

Next == AnsiX963Kdf \/ Expand \/ Hkdf

Spec == Init /\ [][Next]_calls

-----------------------------------------------------------------------------
(* Properties *)

Prks ==
  {[salt |-> <<>>, ikm |-> <<>>, size |-> size] : size \in PrkSizes}
    \cup {HkdfExtract(ikm, salt) : ikm \in Secrets, salt \in Salts}

\* What a call may be answered.
Answers ==
  {AnsiAnswer(z, info, size) : z \in Secrets, info \in Infos, size \in Sizes}
    \cup {HkdfAnswer(prk, info, size) : prk \in Prks, info \in Infos, size \in Sizes}

\* What was answered is what its arguments are answered, at any time.
Inv == calls \in Seq(Answers)

\* No two blocks of keying data are one hash, in one answer or in two: unless
\* they are the same block for the same key and the same info, whatever sizes
\* were asked for (kdf.py:73-125, 158-204).
NoBlockTwice ==
  \A k, l \in DOMAIN calls :
    LET c  == calls[k]
        d  == calls[l]
        cs == Blocks(c)
        ds == Blocks(d)
    IN  c.outcome = "derived" /\ d.outcome = "derived" /\ c.kdf = d.kdf =>
          \A i \in DOMAIN cs, j \in DOMAIN ds :
            cs[i] = ds[j] => i = j /\ c.key = d.key /\ c.info = d.info

\* Every size a counter can number is derived, to the last block, by the call
\* it is within reach of, and no other is begun (kdf.py:48-70, 94-97, 186-191).
EverySizeIsAnswered ==
  \A k \in DOMAIN calls :
    LET c == calls[k]
        most == HfSize * (2^(O * (IF c.kdf = "ansi" THEN AnsiOctets ELSE 1)) - 1)
    IN  /\ c.outcome # "overflow"
        /\ c.kdf = "ansi" \/ c.key.size >= HfSize =>
             (c.outcome = "derived" <=> c.size \in 1..most)
=============================================================================
