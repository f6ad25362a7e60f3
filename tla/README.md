# Verification of btclib-ecc

TLA+ models of `btclib_ecc` (the Python library under `src/src/btclib_ecc`),
their TLC configurations, and proofs checked by TLAPS. Paths below are relative
to `src/src/btclib_ecc` unless they start with `src/`.

The library is elliptic-curve cryptography in pure Python, with an optional
delegation to libsecp256k1. It runs no threads, no event loop and no callback of
its own, and persists nothing: a call runs to completion before the next one
starts. What is hard is therefore not concurrency but

- **objects that live across calls** in whatever order a caller makes them:
  secret nonces that must be used once, session contexts, `TweakChain`, the two
  `Signer` classes, the process-wide switch between C and Python;
- **signs and ranges**: the even-y conventions of BIP340 negate nonces, keys,
  tweaks and adaptor secrets independently of each other, and each verifier has
  to undo exactly what its signer did;
- **failure half way**: which state a call that raises leaves behind, and whom
  its error blames.

## 1. Inventory

| component | source | state | operations | interacts with |
|---|---|---|---|---|
| group | `curves/curve.py`, `curve_group.py`, `curve_group_2.py`, `sec_point.py` | memo tables (`lru_cache`), immutable otherwise | `mult`, `add_var`, `sum_var`, `double_mult_var`, `multi_mult_var`, `negate`, `PreparedPoint` | asks the switch at every dispatch |
| switch | `_libsecp256k1.py`, `curves/curve.py:570-652` | one global, `_libsecp256k1_available` | `set_libsecp256k1_serving`, `_libsecp256k1_serves` | read by everything below |
| `TweakChain` | `curves/curve.py:1428-1525` | base, last tweak, the bindings' chain or `None` | constructor, `point` | switch, group |
| BIP340 | `ecc/ssa.py`, `ecc/bip340_nonce.py` | none | `sign_`, `assert_as_valid_`, batch verification, `challenge_` | group, commitments |
| ECDSA | `ecc/dsa.py`, `ecc/rfc6979_nonce.py` | none | `sign_` with grinding and check, `assert_as_valid_`, recovery, DER | group, commitments |
| `Signer` | `ecc/ssa.py:762-926`, `ecc/dsa.py:1381-1591` | key (integer or buffer), arm, wiped flag | constructor, `sign_`, `wipe`, `with` | switch, BIP340, ECDSA |
| MuSig2 | `ecc/musig2.py` | secret nonces (mutable buffers), session contexts with memoised values | key aggregation, tweaks, nonces, `sign`, partial verification, aggregation, adaptors, `deterministic_sign` | BIP340 challenge, group |
| FROST | `ecc/frost.py` | secret nonces, session contexts | threshold info, tweaks, nonces, `sign`, partial verification, aggregation | BIP340 challenge, group |
| commitments | `ecc/commit_nonce.py`, anti-exfil in `ssa.py` and `dsa.py` | none (the device keeps none on purpose) | `commit_nonce_`, `commit_point_`, the four anti-exfil steps | both schemes |
| Borromean | `ecc/borromean.py` | none | `sign_`, `assert_as_valid` | group |
| Pedersen, range proofs | `ecc/pedersen.py`, `ecc/rangeproof.py` | a deterministic generator replayed by `rewind` | `commit`, `sign`, `assert_as_valid`, `rewind` | Borromean rings |
| DLEQ, ElligatorSwift | `ecc/dleq.py`, `ecc/ellswift.py` | none | prove and verify; encode and decode | group |
| DH, ECIES, derivation | `ecc/dh.py`, `ecc/ecies.py`, `kdf.py` | none; the ciphers are the caller's | one function each way | group, point encodings |
| curve validation | `CurveGroup.__init__`, `Curve.__init__` | immutable once built | the checks of the parameters | number theory, group |
| number theory | `number_theory.py` | none | inverses, batch inverse, square roots | group |
| encodings, types | `sec_point.py`, `_utils.py`, `alias.py`, `hashes.py`, `exceptions.py` | none | parsing | everything |

What makes each correct, and what is hard about it:

- *switch*: answers are the same on either arm, and a call crosses to C only
  while C serves. Hard: objects that outlive a move of the switch.
- *TweakChain*: `point(t)` is `base + t*G` whatever was asked before. Hard: a step
  is relative to the last tweak, and a step onto infinity loses the point.
- *Signer*: one copy of the key; none after `wipe`; every signature under the
  key. Hard: `wipe`, the switch and `sign_` in any order on two arms.
- *MuSig2, FROST*: a nonce signs once; an honest partial signature verifies;
  partial signatures that verify aggregate to a valid signature, so a spoiled
  session names its culprit; an honest signer is never named. Hard: four
  independent parities, accumulated tweaks, misuse and retries, an aggregate
  nonce at infinity, interpolation over any subset.
- *BIP340, ECDSA*: sign then verify; recovery ids survive the low-s negation; a
  failed self-check blames the right cause; grinding ends with a low r.
- *commitments*: the receipt published before rho opens in the signature.
- *Borromean*: every ring closes for every position of the signer.
- *range proofs*: exponent, mantissa and minimum agree; `rewind` replays the
  prover's draws.
- *group*: the coordinate formulas and recodings agree with the group law at
  their exceptional cases.
- *number theory*: loops end; the batch equals the one-by-one answer.
- *nonces*: a candidate out of range is followed by the one the standard names,
  and no two calls that differ hash one input. *DLEQ*: one nonce, one statement.
- *ElligatorSwift*: what is drawn decodes to what was encoded, on every case.
- *encodings*: what is read is in the subgroup, and has one strict spelling.
- *curve validation*: a curve that is built has the order and cofactor it says.
- *DH, ECIES, derivation*: nothing outside the subgroup counts; the cipher runs
  only on what carries the recipient's MAC; no keying data comes twice.

The hazards, each at its line and with the properties that cover it, are in
`PROJECT.json` under `hazards`.

## 2. Modules

One module per component; two composites put the smaller ones together for TLC.

| module | what it is |
|---|---|
| `PrimeGroup` | the group every scheme computes in, through discrete logarithms |
| `SchnorrGroup` | parity of y, x-only keys, the challenge, BIP340 verification; the lemmas the proofs of both multi-signature schemes share |
| `MuSig2` | `ecc/musig2.py`: functions as operators, calls that change state as actions |
| `OneTimeNonce` | abstract specification: what secret nonces promise |
| `MuSig2Proofs` | theorems about `MuSig2` |
| `Serving` | the switch: one variable, one operation, one predicate |
| `TweakChain` | the class of that name over `Serving` |
| `Signers` | `ssa.Signer` and `dsa.Signer` over `Serving`, and their theorems |
| `CofactorGroup` | all the points of a curve of any cofactor, with the x-coordinates and parities ECDSA looks at |
| `Ecdsa`, `EcdsaProofs` | `ecc/dsa.py`: a signing call as a machine, verification, commitments and recovery as operators; theorems about it and about `SchnorrBatch`, which live on the same curves |
| `ArithmeticLemmas` | modular arithmetic, numbers written in octets, induction over sets, functions defined by recursion |
| `Shares`, `KeyMaterial` | FROST's interpolation and `validate_threshold_info`; a participant who collects shares |
| `Frost`, `FrostProofs` | `ecc/frost.py`: sessions, nonces and signatures, over `Shares` and `SchnorrGroup`; its theorems |
| `AntiExfil`, `AntiExfilProofs` | sign-to-contract and the anti-exfil exchange of `ssa.py` and `dsa.py`: host, device and wire; its theorems |
| `Borromean` | `ecc/borromean.py`: the walk of `sign_` a position at a time, verification, octets |
| `SchnorrBatch` | single and batch verification of `ssa.py`, key recovery, with coordinates |
| `Nonces` | RFC6979, the BIP340 nonce and the tweak of a commitment: what is hashed, and the loops |
| `Dleq` | `ecc/dleq.py`: a prover called twice, and any claim against the verifier |
| `RangeHeader`, `RangeProof` | the header of a range proof and its octets; `sign`, `assert_as_valid` and `rewind` of `ecc/rangeproof.py` |
| `Pedersen` | `ecc/pedersen.py`: both ways to a generator, commitments, octets |
| `NumberTheory` | `number_theory.py`, Tonelli-Shanks and its search a pass at a time |
| `JacobianGroup`, `JacobianWalk` | the affine law and the Jacobian formulas; two registers walked by the formulas in any representation, as the affine law says. The affine law of `JacobianGroup`, its points and their multiples are what tables and curves of the other modules are built from or compared with |
| `ScalarMult`, `Multiplications` | recodings and multiplication algorithms over any group; a call answered by any of them |
| `Endomorphism` | the split of a scalar and the algorithms on it, of `curve_group_2.py` |
| `MultiMult` | interleaved wNAFs and Bos-Coster, the latter a heap step at a time |
| `NewCurve` | the checks of `CurveGroup.__init__` and `Curve.__init__`, against the points counted one by one |
| `Ellswift` | `ecc/ellswift.py` |
| `PointOctets`, `SecPoint` | `curves/sec_point.py`; somebody who reads, multiplies, rewrites or publishes a key |
| `DerSig` | `dsa.Sig.serialize` and `parse`, strict and lax |
| `KeyAgreement`, `KeyDerivation`, `Ecies` | `ecc/dh.py`, `kdf.py`, `ecc/ecies.py` |
| `SchemeProofs` | theorems about `TweakChain`, `Borromean`, `Ecies`, `KeyDerivation`, `Nonces` and `DerSig` |
| `MCMuSig2`, `MCEcdsa` | the small instances of `MuSig2` and `Ecdsa` |
| `MCAlgorithms`, `MCSchemes` | composites: the small instances of all the other modules |

**Composites.** The instances in a composite are its *parts*. They do not interact,
as the library's modules do not, except through the modules they share, and so
need not be checked in every combination: a behaviour belongs to the part its
initial state names (`part`), whose variables are the registers `v1`, `v2`, ...
(`INSTANCE M WITH call <- v1, ...`); the registers a part has no use for stay empty.
`Init` and `Next` are disjunctions over the parts, and a property of the composite
is a conjunction of what each part promises on one subject. The constant `Parts`
says which parts a run checks: a cfg with one part is that instance alone.

**Points as numbers.** For the Schnorr schemes: in a group of prime order `n` a
point is its discrete logarithm: `k*G` is `k`, infinity is 0, addition is addition
modulo `n`. All protocol arithmetic of the schemes is arithmetic in that group and in the scalar
field, so this loses nothing but the coordinates, and three questions about
those remain: whether an encoding parses (`Bad` is octets that do not), whether
y is odd (the constant `OddY`, of which only `P odd <=> -P even` is assumed) and
what a hash makes of them (constant functions: any function at all).

**Calls as actions.** A call that changes something a caller holds is an action;
a call that only computes is an operator, and the properties quantify over its
arguments. A call that raises is a step whose `outcome` names the error, with
every state change made before the `raise` kept.

### `MuSig2`

| code | model |
|---|---|
| the `bytearray` from `nonce_gen` | `secNonce[slot]`: two scalars and the public key |
| public nonces | `pubNonce[slot]`; `ReceivePubNonce` for those of other systems |
| `SessionContext` | an element of `sessions`; `slots` remembers whose nonces were aggregated (a history of the model) |
| `sign` | `Sign`: session values first, then read, zero, and the checks in order |
| `deterministic_sign` | `DeterministicSign`, its nonce a choice |
| `key_agg`, `apply_tweak`, `nonce_agg`, `session_values`, `_agg_s`, `adapt`, ... | operators of those names |

Memoisation (`SessionContext._values`) is a function of an immutable context, so
it is computed anew. `key_sort`, serialisation and the types of arguments are
abstracted; a tweak of the wrong size is refused like one out of range.

### `Serving`, `TweakChain`, `Signers`

`Serving` holds the global and whether the package is installed; each module over
it has a `Switch` action, so the switch moves between any two calls. `TweakChain`
keeps `held` (`_chain is not None`), the tweak the chain stands at and the point
on the far side, which belongs to the bindings and is modelled from how
`TweakChain.point` uses it. `Signers` keeps the integer and the buffer of each
signer apart, records each signature made with the key and arm that made it, and
lets a computation go wrong (`faulty`) to reach the check after signing.

### `Ecdsa`

ECDSA needs more of the curve than the Schnorr schemes: r is an x-coordinate
reduced modulo n, so it has lost how many times n came off it and which of two
roots y was, and where the cofactor is above 1 some points with that x are not
multiples of G. `CofactorGroup` numbers all the points of a cyclic curve group
by their logarithm to a generator of the whole group, `G` being h times that
one, and keeps the table of x-coordinates (`XOf`) and the points of odd y
(`OddY`). Of the tables only that opposite points share x and differ in parity
is assumed. The runs use curves of the library's own tests, and
`TablesAreTheCurve`, an assumption TLC evaluates, holds the tables to the affine
law of `curve_group.py` (`AddAff` of `JacobianGroup`, infinity as (5, 0) included). A curve
whose whole group is not cyclic is outside the model.

| code | model |
|---|---|
| the arguments of `sign_` | a record of `Requests`; an argument that may be `None` is a set of at most one element |
| `sign_recoverable_` | a call without check, grinding or commitment; `sig.keyId`, which `sign_` drops, is kept in both |
| the refusals before signing | `Refused`, in `Call` |
| `_grind_low_r`, or the single attempt | `Attempt`, once per counter |
| `_abort_unless_checked` | `Check`, `CheckOutcome` |
| `verify_`, `recover_pub_key_`, `recover_pub_keys_` | `Verify_`, `RecoverPubKey` (infinity for a key_id that recovers nothing), `RecoverPubKeys` |
| `commit_nonce_`, `commit_point_`, `_assert_commitment_` | `CommitNonce`, `CommitPoint`, `AssertCommitment` |

Calls share no state, so a behaviour is one call. Between its steps the private
key or the computed r or s may be spoiled (`Faults`), the faults the check after
signing is documented to be for; `faulted` remembers whether anything was.
RFC6979 and the tagged hash of a commitment are constant functions (`Nonce`,
`Tweak`) of what they hash; their rejection loops are inside them. This is the
Python arm: the delegated one promises the same answers. The octets of a
signature are `DerSig`'s, anti-exfil is `AntiExfil`'s.

### `Frost`, `KeyMaterial`

As `MuSig2`, with a subset of the participants for signers. `Shares` works on the
values of a polynomial at 0, 1, 2, ... and at -1, the threshold key's argument;
`KeyMaterial` adds shares one at a time and asks `validate_threshold_info` at
every stage, `Unknown` being a share one does not have and `Bad` one that does
not parse. A plan is what a session is opened from, and may be foolish: too few
signers, one twice, shares of another polynomial. `deterministic_sign` hashes the
session into its nonce, which is a term here: it recurs where its input does.

### `AntiExfil`

One host runs an exchange with restarts; the wire is a set of messages that only
grows, so messages are lost, repeated and reordered; the device answers whatever
it is asked, by anyone, and is honest or not, a choice of the initial state. The
five functions of the library are the actions. `Scheme` selects the code of
`dsa.py` or of `ssa.py` where the two differ.

### `Borromean`, `RangeProof`, `Pedersen`

The first keeps positions where the code has indices and steps at each, since a
ring point at infinity or a zero challenge stops the call there. A hash is the
tuple of what it hashes. In `RangeProof` a point is `<<g, v>>` for `g*G + v*H`,
because nobody knows the logarithm of H; `RangeHeader` scales the 64 bits of a
value to `W` and the exponents to `MaxExp`, the base staying ten, and
`RoomAssumption` says the header's octets hold what they must at that scale.
A prover's draws are a sequence a seed determines (`Block`); the part of
`RewindReadsBack` that names an accident (`Mistaken`, `BareChainHolds`) says when,
with words of eight bits, padding is met by chance: at 256 bits it is not.
`Pedersen` has its own coordinates: the search from a hash of G, the
Shallue-van de Woestijne map with the joint inverse, and the squareness of y.

### The group itself

`ScalarMult` has the group for CONSTANTS: the free abelian group on two
generators, where an answer is the pair of its multiples and so holds in every
group; and Jacobian coordinates on tiny curves, where accumulators meet table
entries, opposites and infinity. Points count the additions and doublings that made
them, so that the cost of the regular algorithms is a property. `JacobianWalk`
keeps beside its two points what they would be had every operation been one of
the affine law (P and R, history variables that no operation reads): each action
moves both, and rewriting a point in other coordinates moves P and R nowhere.
Sequences start at 1 where lists of the code start at 0. `MultiMult` runs over
four generators; its heap is a bag ordered by scalar. `NewCurve` builds curves
from parameters and compares the result with the affine points
counted one by one.

### Numbers, octets, hashes

`NumberTheory` runs the loops whose end is the question a pass at a time and the
rest in one step. In `Nonces`, `KeyDerivation` and `Ecies` a digest is the term of
what was hashed, so that two are equal only where their inputs are; what number
it reads as is drawn when it is looked at and stays. In `PointOctets` and `DerSig`
an octet has `O` bits and a coordinate one octet. `SecPoint` holds one spelled
key, public or private; `KeyAgreement` two parties, one of whom is handed any
pair of numbers; `Ecies` keeps what was sent and a text anybody edited, spliced,
or put in other armor.

## 3. Runs

| run | what it asks | bounds |
|---|---|---|
| `musig2_protocol` | life of the nonces: fresh, refused, misused, tried again; `OneTimeNonce` refined; nobody honest blamed | n = 7, two slots, two sessions, one deterministic signature, three plans (one without a signer, one that does not parse), received nonces that do not parse |
| `musig2_algebra` | every sign in a session: partial signatures verify, accepted ones aggregate, adaptors complete, wrapper agrees | n = 7, sixteen or so plans with zero to two tweaks, keys of either parity, one to three keys, adaptors of either parity; two nonce pairs; one session |
| `tweak_chain` | two chains, any order, the switch moving | n = 5, every residue, tweaks below 0 and above n |
| `tweak_chain_switched_off` | a documented promise that fails, see 5 | one chain |
| `signers` | two signers of either scheme, built, used, wiped in any order | n = 3 (keys 0..3 tried), served and two unserved combinations |
| `signers_python_arm` | a documented promise that fails, see 5 | one signer |
| `ecdsa_sign` | every combination of arguments, every fault: what may be returned, which error is raised, commitments | `ec17_13` (p = 17, n = 13: r may have lost n), three challenges, two keys, nonces in and out of range, one fault per step |
| `ecdsa_recover` | without faults: verification, key_ids, recovery, grinding, every call returns | `ec31_13h3` (p = 31, n = 13, cofactor 3), every key, nonce and challenge, every point as a public key |
| `schemes` | the parts of `MCSchemes`, below | below |
| `algorithms` | the parts of `MCAlgorithms`, below | below |
| `loops` | the parts numbers, multi, ellswift, nonces and searched of `algorithms`: every loop ends | as below, one nonce derived where `algorithms` derives two in a row |
| `pedersen_infinity` | a documented promise that fails, see 5 | the part "searched" of `MCAlgorithms`, its caller spelling infinity (6, 0) |

The parts of the run `schemes`:

| part | module | what it asks | bounds |
|---|---|---|---|
| frost life | `Frost` | life of FROST nonces, as `musig2_protocol`: `OneTimeNonces`, `NoncesAnswerOnce` | n = 7, two slots, two sessions, three plans |
| frost sums | `Frost` | every sign in a session; accepted shares aggregate; signers in another order: `HonestSignaturesVerify`, `IdentifiableAbort` | n = 7, thresholds 1 to 3, subsets out of order, up to two tweaks, every plan that is refused |
| frost deterministic | `Frost` | a nonce made twice signs one session; it fits the others' | two deterministic signatures |
| musig deterministic | `MuSig2` | `deterministic_sign` with every kind of aggregate nonce of the others | n = 7, plans with tweaks and adaptors, one aggregate halfway infinite |
| key material | `KeyMaterial` | what `validate_threshold_info` accepts lies on one polynomial and signs with every subset: `ValidatedMaterialSigns` | n = 5, three participants, every list of shares with gaps, every threshold and key |
| exfil dsa, exfil ssa | `AntiExfil` | an honest device is accepted, a cheating one bound to what it sent: `OnlyPromisedNonce` | `ec17_13`, two restarts, three calls, two messages and rho |
| rings | `Borromean` | signatures close, any member could have made them, octets | n = 5, no ring, one and two rings of one to three keys, every index, nonce and draw |
| batch 17, batch 31 | `SchnorrBatch` | `BatchSaysWhatSinglesSay` | `ec17_13`, `ec31_13h3`, batches of 0 to 3, good, spoiled and degenerate, every coefficient |
| dleq | `Dleq` | nonces, spellings and false statements | n = 5, words of three bits, two proofs and one claim of any kind |
| range | `RangeProof` | verified, rewound, and nothing proved that is out of range: `NothingFalseIsProven` | W = 6, n = 251, words of eight bits, up to three rings |
| header | `RangeHeader` | every request for a header, octets of every shape | W = 8, exponents up to 2 |

Of the run `algorithms`:

| part | module | what it asks | bounds |
|---|---|---|---|
| numbers | `NumberTheory` | `NumbersAreRight`: roots, inverses, batches, symbols, primality, Bezout | roots of every residue of every modulus up to 97, composites included; inverses up to 12; batches up to three; primality at 8321 and 5459, pseudoprimes of either half |
| jacobian 17, jacobian 7 | `JacobianWalk` | `JacobianIsAffine`: after any operations, where the same ones of the affine law lead | `ec17_13`, `ec7_11`: every representation of every point |
| free | `Multiplications` | `MultiplicationsAgree`: fifteen algorithms, one answer; recodings; cost | the free abelian group, scalars up to 140, widths 0 to 4 |
| on curve | `Multiplications` | the same where operands collide | `ec7_11`, scalars up to 19 |
| endomorphism | `Endomorphism` | halves are short, algorithms on them agree | p = 97, b = 5, n = 79, a lattice of secp256k1's shape |
| multi | `MultiMult` | Bos-Coster keeps its sum | two to four scalars up to 13, and 100, 89 and 64 |
| ellswift | `Ellswift` | `MapsToTheCurve`: encode and decode, every case | p = 19, b = 3, every u, case and point |
| nonces | `Nonces` | `DerivationsNeverRepeat`: one input one candidate, rejection follows the standard | n = 17 in octets of two bits, digests of two octets (short of the order) and three, two calls, two rejected candidates |
| kdf | `KeyDerivation` | no block twice, every size answered | octets of two bits, hashes of two octets, salts that HMAC pads to one key, sizes at both limits and one past them |
| seeded, searched | `Pedersen` | `CommitmentBinds`: the map, binding, sums, octets | p = 79, b = 7, n = 67, every pair of hashes; p = 19, cofactor 3; every generator |
| sec, sec of two | `SecPoint` | what is read is in the subgroup, one spelling, both arms: `OnlyTheSubgroup`, `OneSpelling` | p = 29, n = 37, served; p = 17, n = 11, cofactor 2; every pair of numbers and every octets with prefixes to 8 |
| dh | `KeyAgreement` | only the subgroup's part counts; parties agree | p = 17, n = 11, cofactor 2, every point offered |
| der | `DerSig` | one strict spelling, pads of the lax one | octets and order of five bits, one edit anywhere |
| ecies | `Ecies` | `CipherOnlyAfterItsMac` | n = 5, two envelopes, two recipients, two magics |
| curve | `NewCurve` | what is built is sound and what is sound is built: `BuiltCurvesAreSound` | every curve over 5 and 7 elements, some over 13 and 47, one modulus that is no prime |

A group of seven elements suffices for `MuSig2` because every parity of R, Q and
of each tweaked key occurs, sums hit zero (infinite keys and nonces) and the
hashes take the values 0 and 1; every error of `Outcomes` is reached in one of
these runs. Two sessions suffice for one-use: a third adds no further kind of
reuse. Checks for deadlock are off where the number of sessions is bounded or
nonces run out: there the system stops because its caller does.

In the ECDSA runs `LowRBound` is 8: the bound `2^(8*n_size - 1)` scaled to an octet
of four bits, so that about half of the r are low, as on secp256k1. `MaxCounter` = 4
suffices because `GrindAssumption`, which TLC evaluates, finds a low r for every
key and challenge by then; two attempts and more do happen. The key_ids asked
for run from below the range to above it. `ec17_13` is of prime order with
n < p; `ec31_13h3` has points outside the subgroup, candidates that wrap modulo p
and more than one j. Deadlock is off: a call that returned ends the behaviour.

The other bounds. Curves are as small as lets the case in question happen: n
below p and above it, a cofactor that divides nothing, points of order two,
characteristic 7 where the x of infinity vanishes. The orders of `Borromean`,
`Dleq` and `Ecies` are 5 because they make challenges of zero, equal keys and
words above the order frequent. An octet of `O` bits makes the first bit of a
scalar, the last value of a counter and a coordinate past the field happen in a
few states; a mantissa of `W` bits makes every minimum at either end of the range
enumerable. Bos-Coster at 100 and 89 meets Fibonacci neighbours, its slowest
case; `MultiMult`'s threshold of 3 puts both algorithms on either side of it. Two
calls after each other are enough for the reuse of a nonce or a block.

**Liveness and fairness.** Most calls are one step that returns; nothing waits,
no fairness is assumed. A loop in the code goes on by itself: it is straight-line
code in one thread, which weak fairness of its step states. In `MCAlgorithms`
these steps are `Pass`, and `CallsReturn` says of all of them that a loop which
runs is one that ends. The run `loops` asks it of the parts that loop and of no other,
with one nonce derived: what was derived before only fixes how some candidates
read, and the first derivation has them read as anything.

- `Ecdsa`, `_grind_low_r`, no cap: `CallsReturn` under weak fairness of `Next` and
  `GrindAssumption`.
- `NumberTheory` and `MultiMult`: the passes of Tonelli-Shanks and of the heap, with
  no further assumption, on composite moduli and equal scalars too.
- `Nonces`: `Try`. `MaxRejected` bounds the candidates out of range; that they do
  not all are is the hash's.
- `Ellswift`: decoding, and strong fairness of a draw that has an answer
  (`EllDraw`). Draws are independent and uniform in the code, so each comes up.
- `Pedersen`: the next candidate of the search, from every hash.

What a caller does (asking again, moving the switch, sending a message) is never
under fairness.

`IdentifiableAbort` and `AdaptorCompletes` leave out one kind of session,
`placeholder`: an aggregate nonce at infinity, for which `session_values` takes
G (`ecc/musig2.py:768`). There no honest partial signature adds up to a valid
signature, on purpose, as the code's comment says. `PartialSigsVerify` does cover
it: each signer's own share is still accepted.

`BuffersMatch` is a property of its own because it is the invariant the others
rest on. `SignsAsBuilt` is the four things a signer must be at once: typed, one
copy of its key, every signature under that key, and for `dsa` one arm.

Each property has a mutant in `PROJECT.json`: a definition changed by a plausible
slip (in the modules under "Slip:"), with which the same run finds the property
violated. A property composed of several has several mutants, spread over
the components it speaks of.

## 4. Proofs

What is proved holds for every value of the constants the named assumptions
admit: any order, key set, hash, plan and number of calls. TLC evaluates each of
the assumptions on the instances it runs. The definitions are those the runs
check, so every theorem about a property has a run beside it; the properties of
`AntiExfil`, `Frost`, `Borromean`, `SchnorrBatch`, `Ecies`, `KeyDerivation`, `Nonces`
and `DerSig` are conjuncts of those of `MCSchemes` and `MCAlgorithms`, and the
inductive invariants of the last six are checked by the same runs. Those of
`KeyDerivation` and `Ecies` compare what was answered with the set of all answers
(`Answers`, `Sendable`), which `MCAlgorithms` names so that TLC makes it once; an
assumption there has each member of `Sendable` be one of `Encrypt`.

### `MuSig2` (every property)

For every group order above 2 and every choice of parities, hash, key list and
plan (`MuSig2Assumption`, `GroupAssumption`):

- `TypeCorrect`: `TypeOK` is inductive as it stands; the work is in showing that
  sums, tweaked keys and session values have their types, whatever the recursion
  they are computed by.
- `BuffersAlwaysMatch` and `NonceNeverReused`: `NonceSignsOnce` is not inductive
  by itself (nothing in it says a nonce that signed is gone); `BuffersMatch` is
  the strengthening: a slot that has signed holds zeros.
- `HonestPartialSigsVerify`, `DetSigsAlwaysVerify`: what `sign` returns is accepted
  by `partial_sig_verify_`. The argument follows the two shares separately:
  `NonceShare` (negating both nonces by the parity of R is negating the public
  nonce) and `KeyShare` (the signs on the key), added by the congruence lemmas of
  `ArithmeticLemmas`; then that the session a signature points to never changes.
- `SessionsAlwaysMatch`: a session aggregates the public nonces of the slots it
  names. The properties below speak of one session and of nonces that may have
  been published again since, so none of them is inductive without this.
- `AbortIsIdentifiable`: each accepted share satisfies the verifier's equation;
  summed, the nonces give the aggregate nonce (the bilinear coefficient comes out
  of the sum) and the keys give Q less the tweaks with their accumulated sign;
  the term `_agg_s` adds for the tweaks closes the Schnorr equation.
  `AdaptorAlwaysCompletes` adds the adaptor's secret with R's sign.
- `WrapperAlwaysAgrees`, `HonestSignerNeverBlamed`: the two verifiers see one
  session; `nonce_agg` names a position only where a nonce does not parse.
- `NoncesAreOneTime`: every step of `MuSig2` is a step of `OneTimeNonce` or a
  stutter, where a slot's state is read off its buffer (`NonceState`) and its
  answers off the partial signatures made with it (`Answered`).

### `Frost` (every property)

For every prime order (`FrostAssumption`: every scalar but zero has an inverse,
as the order of secp256k1 is prime, the one curve of `frost.py`), at most
`MaxParticipants < n` participants, every set of plans and signers:

- `FrostInvariant`: the types (`StateTypes`); `BuffersMatch` and `NonceSignsOnce`
  as above; that every partial signature kept is the one `sign` makes of the
  slot's nonce in its session (`PsigsMade`), that sessions name the nonces
  they aggregate (`SessionsMatch`), and that a deterministic signature is its
  input's (`DetSigsMade`). FROST's secret nonce holds no public key that would
  let `sign` refuse it, so one answer per nonce rests on the zeroing alone.
- `HonestPartialSigsVerify`, `DetSigsAlwaysVerify`, `AbortIsIdentifiable`: as for
  MuSig2, each share weighted by its interpolating value, whose denominator is a
  product of differences of distinct ids and so has an inverse.
- `SignersInAnyOrder`: signers and shares listed in another order are the same
  session. Any two orders that pass the checks have the same values, because
  these are hashes of the set and products that depend on the set alone
  (`SessionOfSet`, `InterpolatingValueOfSet`); that the checks pass in the other
  order, the sum of the public shares included, is proved for the order with the
  first signer last, the one the property is stated of.
- `DetNoncesBindSessions`: under one key and its tweaks a nonce made twice signs
  one thing; the nonce is a term of what it hashes, and the values of a session
  depend on the ids as a set.
- `NonceNeverReused`, `WrapperAlwaysAgrees`, `HonestSignerNeverBlamed`,
  `NoncesAreOneTime`: as for MuSig2.

One assumption is about data. `DealtSharesAgree` says that the dealt shares of
any subset interpolate to the threshold key: Lagrange's theorem for a polynomial
of degree below t. Its proof is an induction over data, out of reach here; TLC
evaluates it on the instance. Only sessions without public shares use it, for
there `partial_sig_agg` has nothing to check the key with.

### `AntiExfil` (every property)

For a curve of cofactor 1, either scheme, any hashes, restarts and calls
(`AntiExfilAssumption`; that some draw of the tweak fits is the hash's):

- `ExchangeInvariant`: the types; the point the host was promised was on the wire
  when rho was first revealed, and what it accepted had verified (`HostKnows`);
  and what an honest device answered is what its signing makes of the call
  (`MadeBySigning`). The device keeps no state, so the last says of messages what
  an invariant of a device would say of memory.
- `PromisedNonceOnly`: a signature the host accepts from any device, honest or
  not, has the nonce point it promised, tweaked by rho.
- `HonestIsAccepted`, `SigningAlwaysVerifies`, `ReceiptsOpen`, `NoncesSignOnce`.

### `Signers`, `TweakChain` (every property but the two of section 5)

- `SignersSignAsBuilt`, `WipedSignersStayWiped`: the invariant is the types, one
  copy of the key where the arm says it is, none after `wipe` (`HoldsItsKey`), and
  every signature made by the key and arm it names (`MadeBy`).
- `ChainsStand`, `PointsAreAbsolute`: for every group order above 2 and any tweaks,
  `ChainStands` is inductive with the types, and the answers follow from it.

### `Borromean` (all but the octets)

For every order above 2, every list of rings, message, index, nonce and draw, and
every hash whose values are scalars (`BorromeanAssumption`, `HashAssumption`):

- `RingInvariant`: `SignaturesClose` speaks of what `assert_as_valid` recomputes, and
  nothing in it holds before the call returns. The invariant says what each of
  the two loops leaves behind: `Closed`, a ring walked in step 1 from the signing
  index to its end is a chain of challenges, each of the point before it;
  `Answered`, step 2 has done the same from `e0` to the signing index. What makes
  it inductive is that step 2 writes challenges and s values only up to the
  signing index, so that step 1's part of every ring still stands, and that the
  signer's own s, `k + q*e`, makes the point at his position his nonce's again:
  the point the first chain started from.
- `RingSignaturesClose`: the challenges of the verifier are those of the signer, by
  induction along each ring; none is zero, no point is infinite, and the last
  points are those `e0` was made of. The ring of one key, where both loops are
  empty, and the signer at the last position are in it.
- `RingSignersAreHidden`: at every position the point that was not refused for
  being infinite is the nonce that would have given the s found there.

### `Ecies` (every property)

For every set of keys, magics and messages and any number of envelopes
(`EciesAssumption`):

- `EnvelopeInvariant`: what is sent was encrypted, a text is made of atoms of what
  was sent, and what is read of a text depends on the text.
- `OnlyItsMacReachesTheCipher`: the argument is over every edit and every splice of
  two envelopes. A text with a MAC that verifies carries one whole MAC atom, which
  is some envelope's and holds its magic, its ephemeral key and its ciphertext; so
  the text is that envelope. It was to the reader because the shared point
  `q*P` is his only where the recipient's key is: here the order must be prime
  (`Prime`: every scalar but zero has an inverse), which the rest does not need.
- `WhatIsSentIsRead`: the fixed offsets of `parse` cut an envelope where `encrypt`
  joined it, both ends derive one point, and of the four ciphers those that did
  not pad were refused, so that what decrypts is the message alone.

### `KeyDerivation`, `Nonces` (every property but liveness)

For octets of any number of bits, hashes of any number of octets, any order above
2, and any secrets, entropies, messages, sizes and numbers of calls
(`KeyDerivationAssumption`, `NoncesAssumption`; nothing is assumed of what a
candidate reads as). `Doubling`, the one further hypothesis, is the second equation
of the standard module's `^`, whose recursive definition the provers do not read.

- `DerivationsAreAnswers`, `EverySizeAnswered`: a size within the bound needs no more
  blocks than the counter numbers, so that `to_bytes` never overflows.
- `NoBlockComesTwice`: in ANSI-X9.63-KDF the octets of the counter tell two blocks
  apart (`DigitsTell`), and the secret before them, of one length on a curve, says
  where they are. In HKDF a block holds the one before it, so two equal ones are
  walked back together, by induction, to the first, which alone holds none.
- `NonceInvariant`: a call is where the candidates it rejected have led it, these
  being the first of its chain and none of them twice. What makes it inductive is
  that a chain never comes back to where it was.
- `OneCandidateOfOneInput`: two calls may have rejected different numbers of
  candidates, so their chains are compared at any two places. In RFC6979 an octet,
  0 or 1, tells a generator reseeded from one just seeded, and two that were
  reseeded are walked back together to their seeds; in BIP340 and the tweak what is
  hashed again begins with a digest, which nothing hashed first does. Equal first
  inputs have equal arguments because all before the last argument has a fixed
  length, and the octets of scalars tell them (`n < 2^(O*NSize)`).
- `RejectionsFollowTheChain`, `BitsAreEnough`. Stating the latter for every digest
  showed that the tweak of a commitment is an exception the runs had not met: with a
  digest shorter than the order it is read from one digest
  (`ecc/commit_nonce.py:99-125`), where a BIP340 nonce is stretched. It is public and
  only has to bind, and the property now says so; the run has such a digest.

### `DerSig` (every property)

For octets of any number of bits above 2, any order, markers, edits and pads
(`DerAssumption`, and `Doubling`). The clause that a body's size is below the
highest bit of an octet is the code's: `parse` reads signatures of secp256k1
alone, 70 octets at most, and `serialize` writes the longer ones of 521-bit curves
in a form no strict reading accepts (`ecc/dsa.py:128-140, 162-170, 445`).

- `OneStrictSpelling`: any octets at all, edits of a signature or not, if they are read
  strictly at all, are those `serialize` writes of what was read. Read from the
  front, they are a marker, a size below the highest bit, and as many octets as the
  size says, down to the two scalars. What remains is that BIP66's test of the first
  two octets of a scalar says exactly that there are as many octets as `serialize`
  takes, `bit_length // 8 + 1` (`CanonicalFills`): both say that the number's bits
  leave the highest bit free and would not with one octet less. Big-endian reading is
  a recursion along the octets, so that it is undone by writing is by induction on
  their prefixes, each of which is a quotient of the number (`PassesAreQuotients`).
- `WrittenSignaturesAreRead`: the converse, under either reading and in the compact
  form, of every pair of numbers up to the order.
- `ZerosAreReadOver`: zeros in front of a scalar change no number, and CompactSize's
  sizes of one and of three octets are read back, or refused above `_MAX_SIZE`.

`SpellingsAreOctets` is the invariant: whatever was done to them, the octets are
octets and each reading answers what it answers of them.

### `SchnorrBatch` (every property)

For every cyclic curve group with inverses modulo n, every cofactor, coordinates,
challenge function and set of batches of any length (`GroupAssumption`,
`PrimeAssumption`, `CoordinatesAssumption`, `BatchAssumption`). Stating the last
took a clause the instances had satisfied without saying so: the curve of a batch
is that of its first signature (`sigs[0].ec`), so the first is never of another.

- `BatchInvariant`: an answer says nothing of the terms it came from, so the
  invariant is about the loop. After m signatures the terms sum to `S*G`
  (`Gathered`): the same `t` as on the other side where all of them are good, and
  another one modulo n where exactly one is bad. A term is a coefficient times the
  signature's own equation; a bad one's defect, times a coefficient that is not
  zero modulo a prime, is not zero either, and good ones add nothing to it. Where
  the cofactor is above 1 the sum is a multiple of G only because every turn asks
  the key and the nonce point where they lie.
- `BatchesSayWhatSinglesSay` follows, refusals included.
- `OneCoefficientAtMost`: two coefficients that both balance the sum differ by one
  that the last signature's defect times it is zero, which makes it good.
- `SignersKeyIsRecovered`: `(s*G - K)/c` is the key's even point, whose x it is.

### `Ecdsa` (every property but `CallsReturn`)

For every cyclic curve group, order above 2 with inverses, cofactor, coordinates,
nonce function and tweak (`GroupAssumption`, `PrimeAssumption`,
`CoordinatesAssumption`, `EcdsaAssumption`, `GrindAssumption`):

- `SigningInvariant`: the types; no counter before the present one had a low r;
  and, where nothing went wrong, a signature to be checked or returned is what
  `_sign_recoverable_` makes of the caller's key and the nonce of the present
  counter. None of the properties is inductive without the last part: they speak
  of `sig` alone.
- `SignaturesVerify`, `KeyIdsRecover`: from the equation `c + r*q = k*s` modulo n
  (`Fits`), which negating k and s together keeps (`NegatedFits`, the low-s
  branch), verification recomputes `k*G` (`VerifiedNonce`) and recovery `q*G`
  (`RecoveredKey`); `ScaleMod` carries arithmetic modulo n into the group of n*h
  points. `FittingRecovers` is the converse of the key_id: the x it asks for is
  the nonce point's and the parity picks that point.
- `CommitmentsOpen`, `GroundSignaturesAreFirst`, `CausesAreBlamed`.

And with `RecoveryAssumption`, which bounds how often n comes off an x-coordinate
(`p <= n*(h+1)`) and, where there is a cofactor, has n invertible modulo p and
h + 1 below p, which keeps two candidates of one r apart:

- `ListsAreVerifiers`: `recover_pub_keys_` lists exactly the keys `verify_` accepts,
  each once, whatever r and s are. A key that verifies fixes one nonce point, of
  the subgroup, whose x has r for its remainder; that x is reached at one j. The
  other way, a candidate outside the subgroup recovers nothing. That no key comes
  twice is the injectivity of multiples of G.
- `KeyIdsNameSigners`: the key_id of a signature is listed, and from 2p below the
  listed ones to 2p above no other names the signer on a curve of prime order.
  On one with a cofactor x is reduced modulo p and nothing bounds a key_id
  (`ecc/dsa.py:2276`), so those a multiple of 2p away name the signer too, and no
  others do (`SameKeyWrapped`, `WrappedSameKey`).
- `SpoiledAreNotReturned`: whatever went wrong, a checked signature that is
  returned verifies under a key fixed before it existed, and has a key_id.
  `CheckedSignaturesVerify` is the half of it that needs no bound on p.

p and n are different primes, so by Hasse's bound the assumption holds wherever n
is above 2*sqrt(p), and so wherever `Curve.__init__` says the bound settles the
cofactor, n being above twice that (`curves/curve.py:295-313`). Smaller n are accepted too, and there the promise
of the code fails (section 5).

### Lemmas

`ArithmeticLemmas` proves induction from the library's well-foundedness of `<` on
the naturals, stated of sets, because the library's own induction theorem takes a
predicate parameter the provers cannot instantiate; from it, that functions
defined by recursion along a sequence exist and keep an invariant
(`BoundedRecursionExists`, `LoopInvariant`), that reduction modulo n may be
moved through sums and products, and that numbers below 2^(O*k) are told apart by
their k octets (`DigitsTell`, from powers of two that add their exponents). On these `SchnorrGroup` proves what both
multi-signature schemes need: sums of points, parities, and the equation of
BIP340 verification.

### Only model-checked

- Provable and not proved yet: the properties of the modules without theorems,
  that is `KeyMaterial`, `RangeHeader`, `Pedersen`, `NewCurve`, `Ellswift`,
  `PointOctets`, `SecPoint`, `KeyAgreement` and the Jacobian formulas; and
  `OctetsReadBack` of `Borromean`, whose `FlattenSeq` is recursive in its definition.
- Out of reach: liveness and ENABLED (`CallsReturn`); induction over data, such as
  what `ScalarMult`, `Endomorphism` and `MultiMult` compute of every scalar, which
  the free group answers for as far as the bound goes, the loops of
  `NumberTheory`, and that shares on one polynomial sign with every subset
  (`ValidatedMaterialSigns`); `Dleq` and `RangeProof`, which take exclusive or from
  a module the prover cannot read.

## 5. Where code and documentation disagree

The first three have a run that shows them.

- `set_libsecp256k1_serving` promises that it is immediate and that "no module
  keeps an answer of its own" (`curves/curve.py:610-613`). A `TweakChain` built
  before goes on crossing to libsecp256k1 after `serving=False`
  (`tweak_chain_switched_off`); its answers stay right.
- `dsa.Signer` says its Python arm "never crosses into the bindings at all"
  (`ecc/dsa.py:1410-1417`). With secp256k1 and another hash function the nonce
  point is multiplied by `mult`, which asks the switch for the curve alone and
  crosses (`signers_python_arm`).
- `commit` says a generator at infinity is refused (`ecc/pedersen.py:329`). The
  comparison is with one spelling of infinity, (5, 0); (6, 0) is accepted and
  every value has the same commitment (`pedersen_infinity`). On secp256k1 too.
- `is_jac_equal` says whether two Jacobian points are one affine point
  (`curves/curve_group.py:351`). In characteristic 7, where INFJ is (0, 0, 0), it
  answers that infinity equals every point: `JacEqualIsAffineEqual` is asked of
  the part "jacobian 17" alone.
- `ecc/rangeproof.py:60` says the octets of a proof go back unchanged. Exponent
  bits of a proof that states its value are read by nobody and written as zero:
  `ParsedIsWrittenBack` says so.
- The inverse of the ElligatorSwift map answers only a `t` that decodes to the
  point. On a curve with a point of order two, which `Curve` and `_constants`
  accept, `u^3 + b` may vanish and `t` be zero, which decoding replaces by one.
  Not on secp256k1, nor on the curve of the part "ellswift".
- `curves/curve.py:129` says n times Q is infinity only inside the subgroup. Where
  n divides the cofactor and the curve has more than one subgroup of that order,
  it is not so: (3, 1) is read as a key on `Curve(7, 0, 2, (0, 3), 3, 3)`. Tiny
  curves only, and not those of the part "sec".
- `_recover_pub_keys_` says its range of key_ids is the whole of them
  (`ecc/dsa.py:2123`). On `Curve(29, 3, 13, (13, 4), 5, 4)`, accepted although its n
  is below 2*sqrt(p), x = 27 is 2 + 5*5: `sign_recoverable_` returns key_id 10 or
  11, past 2*(h+1), and `recover_pub_keys_` lists nothing. Tiny curves only, and
  those `RecoveryAssumption` excludes.
- `ecc/dh.py:122` says the cofactor is always below n. `Curve` accepts one above
  it, which `mult` then reduces. Tiny curves only, and not that of the part "dh".

## 6. Not modelled

- `crack_prv_key_var` of both schemes, which undoes a reused nonce on purpose: a
  computation of two lines of algebra, with no state.
- The catalogue of curves and its constants, names, printing and hashing of
  curves: data.
- `find_all_points` and the other enumerations of `curve_group_f.py`, test
  helpers; the tiebreakers of x that no scheme uses.
- The octets of BIP340 signatures, of MuSig2's and FROST's nonces and contexts,
  `key_sort`: fixed-width concatenations.
- The memo of a `SessionContext` and the `lru_cache` tables: functions of immutable
  arguments, recomputed at each use.
- `_utils.py`, `alias.py`, `exceptions.py`, `hashes.py`: argument conversion, types
  and error classes.
- The bindings themselves, the hash functions and the caller's ciphers: external,
  modelled from how the code uses them.
- Tests, fuzzers, documentation and release scripts.

What remains to be proved is what section 4 calls provable: first the agreement
of `KeyAgreement`.
