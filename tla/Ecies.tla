------------------------------- MODULE Ecies -------------------------------
(***************************************************************************)
(* BIE1 envelopes (ecc/ecies.py): messages encrypted to public keys,       *)
(* handed on as text that may reach anybody and not as it was sent, and    *)
(* decrypted by who holds a private key.                                   *)
(*                                                                         *)
(* Hashes and ciphers are terms, and what a text carries is a sequence of  *)
(* atoms, tuples named for what they are: one for the magic and for the    *)
(* MAC, two for the ephemeral key (a prefix and an x-coordinate, as a      *)
(* compressed point is), two for a block of ciphertext.  A message is a    *)
(* value and a length, in atoms.                                           *)
(***************************************************************************)
EXTENDS PrimeGroup, SequencesExt

CONSTANTS
  PrvKeys,    \* the recipients', who are named by them
  EphPrvKeys, \* those a sender may draw
  Magics,     \* what an envelope may start with
  Messages,   \* [value, length]
  MaxSent     \* bound: messages that are sent

EciesAssumption ==
  /\ n % 2 = 1
  /\ PrvKeys \subseteq 1..(n - 1) /\ EphPrvKeys \subseteq 1..(n - 1)
  /\ \A msg \in Messages : msg.length \in Nat

BlockSize == 2

-----------------------------------------------------------------------------
(* Keys *)

\* Opposite points have one x-coordinate, and prefixes 2 and 3.
XOf(P) == IF P < n - P THEN P ELSE n - P
Sec(P) == <<<<"prefix", IF P < n - P THEN 2 ELSE 3>>, <<"x", XOf(P)>>>>
IsSec(octets) == \E P \in Finite : octets = Sec(P)
PointOf(octets) == CHOOSE P \in Finite : octets = Sec(P)

\* derive_keys: the shared point hashed, and the hash cut in three.
DeriveKeys(q, P) ==
  LET shared == Mult(q, P)
  IN  [iv |-> <<shared, "iv">>, e |-> <<shared, "e">>, m |-> <<shared, "m">>]

-----------------------------------------------------------------------------
(* The ciphers a caller brings.  Only the first honours the contract.      *)

Ciphers == {"pkcs7", "zeros", "none", "tagged"}

\* How long a ciphertext each makes.
CipherLength(cipher, length) ==
  CASE cipher = "pkcs7"  -> BlockSize * (length \div BlockSize + 1)
    [] cipher = "zeros"  -> BlockSize * ((length + BlockSize - 1) \div BlockSize)
    [] cipher = "none"   -> length
    [] cipher = "tagged" -> length + 1

Ciphertext(cipher, keys, msg) ==
  [i \in 1..CipherLength(cipher, msg.length) |-> <<"octet", keys.e, keys.iv, cipher, msg, i>>]

\* decrypt_f, of what some cipher made under these keys: the message.
Plaintexts(keys, ciphertext) ==
  {msg \in Messages : \E cipher \in Ciphers : ciphertext = Ciphertext(cipher, keys, msg)}

-----------------------------------------------------------------------------
(* Envelopes *)

\* mac_from_key.  Slip: the MAC is over the ciphertext alone.
MacOfCiphertext(keyM, magic, eph, ciphertext) == <<"mac", keyM, ciphertext>>
MacFromKey(keyM, magic, eph, ciphertext) == <<"mac", keyM, <<<<"magic", magic>>>> \o eph \o ciphertext>>

\* Envelope.assert_valid, on what is left of the fields' sizes.
IsValid(eph, ciphertext) ==
  IsSec(eph) /\ Len(ciphertext) >= BlockSize /\ Len(ciphertext) % BlockSize = 0

\* Envelope.parse, at fixed offsets: none where the octets are too few, or
\* start with another magic, or their fields are not valid.
Fields(octets) ==
  [eph        |-> SubSeq(octets, 2, 3),
   ciphertext |-> SubSeq(octets, 4, Len(octets) - 1),
   mac        |-> Last(octets)]
Parse(octets, magic) ==
  IF Len(octets) < 1 + 2 + BlockSize + 1 THEN {}
  ELSE {e \in {Fields(octets)} : octets[1] = <<"magic", magic>> /\ IsValid(e.eph, e.ciphertext)}

\* encrypt, q the ephemeral private key: the octets under the armor, none where
\* the cipher did not pad.
Encrypt(msg, P, cipher, q, magic) ==
  LET keys       == DeriveKeys(q, P)
      ciphertext == Ciphertext(cipher, keys, msg)
      eph        == Sec(Mult(q, G))
  IN  IF Len(ciphertext) <= msg.length \/ ~IsValid(eph, ciphertext) THEN {}
      ELSE {<<<<"magic", magic>>>> \o eph \o ciphertext
              \o <<MacFromKey(keys.m, magic, eph, ciphertext)>>}

\* b64decode: blanks around the text are dropped, and nothing else is put up with.
Armors == {"canonical", "blanks around", "not canonical", "not base64"}
B64Decode(armored) ==
  IF armored.armor \in {"canonical", "blanks around"} THEN {armored.octets} ELSE {}

\* assert_valid_mac
HasItsMac(envelope, magic, keyM) ==
  envelope.mac = MacFromKey(keyM, magic, envelope.eph, envelope.ciphertext)

-----------------------------------------------------------------------------
VARIABLES
  sent,     \* what was encrypted: the message, for whom, and the text
  text,     \* the text that somebody has
  opened    \* what a recipient made of it, <<>> before

vars == <<sent, text, opened>>

NoText == [octets |-> <<>>, armor |-> "not base64"]

Init == sent = {} /\ text = NoText /\ opened = <<>>

Send ==
  /\ Cardinality(sent) < MaxSent /\ text = NoText
  /\ \E msg \in Messages, to \in PrvKeys, cipher \in Ciphers, q \in EphPrvKeys, magic \in Magics :
       \E octets \in Encrypt(msg, Mult(to, G), cipher, q, magic) :
         sent' = sent \cup {[msg |-> msg, to |-> to, magic |-> magic, octets |-> octets]}
  /\ UNCHANGED <<text, opened>>

\* What may become of octets: an atom is lost, doubled or another one's.
Atoms == (UNION {ToSet(s.octets) : s \in sent}) \cup {<<"prefix", 4>>, <<"x", 0>>}
\* The front of one and the rest of another.
Spliced(front, i, back, j) == SubSeq(front, 1, i) \o SubSeq(back, j, Len(back))
Splices(front, back) == {Spliced(front, i, back, j) : i \in DOMAIN front, j \in DOMAIN back}
Edited(octets) ==
  {RemoveAt(octets, i) : i \in DOMAIN octets}
    \cup {InsertAt(octets, i, octets[i]) : i \in DOMAIN octets}
    \cup {ReplaceAt(octets, i, atom) : i \in DOMAIN octets, atom \in Atoms}
    \cup UNION {Splices(octets, s.octets) : s \in sent}

Arrive ==
  /\ text = NoText
  /\ \E s \in sent :
       \/ \E armor \in Armors : text' = [octets |-> s.octets, armor |-> armor]
       \/ \E octets \in Edited(s.octets) : text' = [octets |-> octets, armor |-> "canonical"]
  /\ UNCHANGED <<sent, opened>>

\* decrypt: ran is whether the cipher was reached.
Opened(keys, magic, envelope) ==
  IF HasItsMac(envelope, magic, keys.m)
  THEN [ran |-> TRUE, msgs |-> Plaintexts(keys, envelope.ciphertext)]
  ELSE [ran |-> FALSE, msgs |-> {}]
Results(prvKey, magic) ==
  LET envelopes == UNION {Parse(octets, magic) : octets \in B64Decode(text)}
  IN  {Opened(DeriveKeys(prvKey, PointOf(e.eph)), magic, e) : e \in envelopes}
Decrypt ==
  /\ text # NoText /\ opened = <<>>
  /\ \E prvKey \in PrvKeys, magic \in Magics : opened' = <<prvKey, magic, Results(prvKey, magic)>>
  /\ UNCHANGED <<sent, text>>

Next == Send \/ Arrive \/ Decrypt

Spec == Init /\ [][Next]_vars

-----------------------------------------------------------------------------
(* Properties *)

WasEncrypted(s) ==
  /\ s.msg \in Messages /\ s.to \in PrvKeys /\ s.magic \in Magics
  /\ \E cipher \in Ciphers, q \in EphPrvKeys :
       s.octets \in Encrypt(s.msg, Mult(s.to, G), cipher, q, s.magic)

\* Every answer of encrypt, as Send keeps it.
Sendable ==
  UNION {[msg : {msg}, to : {to}, magic : {magic},
          octets : Encrypt(msg, Mult(to, G), cipher, q, magic)] :
           msg \in Messages, to \in PrvKeys, magic \in Magics, cipher \in Ciphers,
           q \in EphPrvKeys}

\* What is sent was encrypted.
SentWasEncrypted == \A s \in sent : WasEncrypted(s)

\* A text is made of what was sent, for nobody else makes a MAC, and what is
\* read of it depends on it alone.
ReadOfSent ==
  /\ text.octets \in Seq(Atoms)
  /\ opened # <<>> =>
       /\ text # NoText
       /\ \E prvKey \in PrvKeys, magic \in Magics :
            opened = <<prvKey, magic, Results(prvKey, magic)>>

Inv == SentWasEncrypted /\ ReadOfSent

Ran == opened # <<>> /\ \E result \in opened[3] : result.ran

\* The cipher runs on what some encrypt made for this recipient and this magic
\* and on nothing else: whatever was lost, doubled, moved or mixed with what
\* was sent to others, or armored in another way, it is not reached
\* (ecies.py:230-245, 330-353, 413-421).
CipherOnlyAfterItsMac ==
  Ran => /\ text.armor \in {"canonical", "blanks around"}
         /\ \E s \in sent :
              s.to = opened[1] /\ s.magic = opened[2] /\ s.octets = text.octets

\* What encrypt answers, its recipient reads, with blanks around it or not:
\* a cipher whose answer decrypt would refuse is refused before it is sent
\* (ecies.py:205-220, 309-322, 387-401).
SentIsRead ==
  opened # <<>> /\ text.armor \in {"canonical", "blanks around"} =>
    \A s \in sent :
      s.octets = text.octets /\ s.to = opened[1] /\ s.magic = opened[2] =>
        opened[3] = {[ran |-> TRUE, msgs |-> {s.msg}]}
=============================================================================
