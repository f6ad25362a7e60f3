------------------------------ MODULE Signers ------------------------------
(***************************************************************************)
(* ssa.Signer and dsa.Signer: a private key held for several signatures,   *)
(* until it is wiped.  Where the bindings serve when the signer is built,  *)
(* the key is held in memory they can overwrite and every signature is     *)
(* theirs; elsewhere it is a Python integer and the Python arithmetic      *)
(* signs.                                                                  *)
(***************************************************************************)
EXTENDS PrimeGroup, Serving, TLAPS

CONSTANTS Signer,  \* the signers
          Keys,    \* what one may try to build a signer with
          Curves, Hashes

ASSUME SignersAssumption ==
  /\ Keys \subseteq Nat
  /\ Secp256k1 \in Curves /\ Sha256 \in Hashes

VARIABLES
  signers,  \* the signers, see NoSigner
  made,     \* the signatures made: by whom, under which key, on which arm
  outcome   \* how the last call ended

vars == <<installed, serving, signers, made, outcome>>

\* q is the integer, buffer what the bindings hold (a keypair for ssa, an array
\* for dsa), delegates the attribute that chooses the arm: _signer is not None
\* for ssa, _pub_key_sec is not None for dsa.  key, which the code does not
\* keep, is the key the signer was built with.
NoSigner == [scheme |-> "none", ec |-> Secp256k1, hf |-> Sha256, key |-> 0,
             q |-> 0, buffer |-> 0, delegates |-> FALSE, wiped |-> FALSE]
Built(x) == signers[x].scheme # "none"

Init ==
  /\ InitServing
  /\ signers = [x \in Signer |-> NoSigner]
  /\ made = {}
  /\ outcome = "ok"

Switch(on) ==
  /\ SetServing(on)
  /\ outcome' = IF Refused(on) THEN "not installed" ELSE "ok"
  /\ UNCHANGED <<signers, made>>

\* scalar_from_prv_key on an integer.
ValidKey(key) == key \in 1..(n - 1)

\* Slip: the integer kept beside the buffer.
NewKeepsBoth(x, scheme, key, ec, hf) ==
  /\ ~Built(x) /\ ValidKey(key)
  /\ signers' = [signers EXCEPT ![x] =
       [scheme |-> scheme, ec |-> ec, hf |-> hf, key |-> key, q |-> key,
        buffer |-> IF Serves(ec, hf) THEN key ELSE 0,
        delegates |-> Serves(ec, hf), wiped |-> FALSE]]
  /\ outcome' = "ok"
  /\ UNCHANGED <<servingVars, made>>

\* The two constructors: where the bindings serve, the integer is dropped once
\* the buffer holds the key.
New(x, scheme, key, ec, hf) ==
  /\ ~Built(x)
  /\ IF ~ValidKey(key)
     THEN outcome' = "private key" /\ UNCHANGED signers
     ELSE LET delegates == Serves(ec, hf)
          IN  /\ outcome' = "ok"
              /\ signers' = [signers EXCEPT ![x] =
                   [scheme |-> scheme, ec |-> ec, hf |-> hf, key |-> key,
                    q |-> IF delegates THEN 0 ELSE key,
                    buffer |-> IF delegates THEN key ELSE 0,
                    delegates |-> delegates, wiped |-> FALSE]]
  /\ UNCHANGED <<servingVars, made>>

\* Slip: the key dropped and the flag not set.
WipeUnmarked(x) ==
  /\ Built(x)
  /\ signers' = [signers EXCEPT ![x].q = 0, ![x].buffer = 0]
  /\ outcome' = "ok"
  /\ UNCHANGED <<servingVars, made>>

\* wipe, and so the end of a with statement, whether its block raised or not:
\* ssa drops the object it delegates to, dsa keeps the public key it found.
Wipe(x) ==
  /\ Built(x)
  /\ signers' = [signers EXCEPT ![x].q = 0, ![x].buffer = 0, ![x].wiped = TRUE,
                                ![x].delegates = @ /\ signers[x].scheme = "dsa"]
  /\ outcome' = "ok"
  /\ UNCHANGED <<servingVars, made>>

\* The scalar a signature would be made with, and the arm that would make it:
\* without an object of its own ssa calls the free sign_, which asks the switch
\* again; dsa does not ask again, and its Python arm multiplies the generator
\* by the nonce with mult, which asks for the curve alone.
ArmAskedAgain(sg) == IF Serves(sg.ec, sg.hf) THEN "bindings" ELSE "python"
SigningKey(sg) == IF sg.delegates THEN sg.buffer ELSE sg.q
Arm(sg) ==
  IF sg.delegates \/ (sg.scheme = "ssa" /\ Serves(sg.ec, sg.hf)) THEN "bindings" ELSE "python"
Crosses(sg) == Arm(sg) = "bindings" \/ Serves(sg.ec, AnyHash)

\* What sign_ can end with: faulty says that the computation went wrong, which the check verify
\* asks for turns into an error.  dsa checks under the public key it derived
\* when it was built, and its Python arm is the one that asks nothing of q.
Fails(sg, verify, faulty) ==
  verify /\ (faulty \/ (sg.scheme = "dsa" /\ SigningKey(sg) # sg.key))
OutOfRange(sg) ==
  ~ValidKey(SigningKey(sg)) /\ (sg.scheme = "ssa" \/ sg.delegates)

\* Slip: the flag wipe sets not asked for.
SignUnasked(x, verify, faulty) ==
  LET sg == signers[x]
  IN  /\ Built(x) /\ ~OutOfRange(sg) /\ ~Fails(sg, verify, faulty)
      /\ made' = made \cup {[by |-> x, key |-> SigningKey(sg), arm |-> Arm(sg),
                             crossed |-> Crosses(sg)]}
      /\ outcome' = "ok"
      /\ UNCHANGED <<servingVars, signers>>

\* sign_ of either class: a wiped signer refuses before anything else.
Sign(x, verify, faulty) ==
  LET sg == signers[x]
  IN  /\ Built(x)
      /\ outcome' = IF sg.wiped THEN "wiped"
                    ELSE IF OutOfRange(sg) THEN "private key"
                    ELSE IF Fails(sg, verify, faulty) THEN "does not verify"
                    ELSE "ok"
      /\ made' = IF outcome' # "ok" THEN made
                 ELSE made \cup {[by |-> x, key |-> SigningKey(sg), arm |-> Arm(sg),
                                  crossed |-> Crosses(sg)]}
      /\ UNCHANGED <<servingVars, signers>>

Next ==
  \/ \E on \in BOOLEAN : Switch(on)
  \/ \E x \in Signer, scheme \in {"ssa", "dsa"}, key \in Keys, ec \in Curves, hf \in Hashes :
       New(x, scheme, key, ec, hf)
  \/ \E x \in Signer : Wipe(x)
  \/ \E x \in Signer, verify \in BOOLEAN, faulty \in BOOLEAN : Sign(x, verify, faulty)

Spec == Init /\ [][Next]_vars

-----------------------------------------------------------------------------
\* Every variable has its type: what is held is zero or a valid private key.
TypeOK ==
  /\ installed \in BOOLEAN /\ serving \in BOOLEAN
  /\ signers \in [Signer -> [scheme : {"none", "ssa", "dsa"}, ec : Curves, hf : Hashes,
                             key : Scalar, q : Scalar, buffer : Scalar,
                             delegates : BOOLEAN, wiped : BOOLEAN]]
  /\ made \subseteq [by : Signer, key : Scalar, arm : {"bindings", "python"}, crossed : BOOLEAN]
  /\ outcome \in {"ok", "not installed", "private key", "wiped", "does not verify"}

\* A signer holds its key once, in the buffer or in the integer, and a wiped one
\* nowhere: no second copy is left behind by the constructor or by wipe.
HeldOnce ==
  \A x \in Signer : Built(x) =>
    IF signers[x].wiped THEN signers[x].q = 0 /\ signers[x].buffer = 0
    ELSE {signers[x].q, signers[x].buffer} = {signers[x].key, 0}

\* Whatever a signer answers with is a signature under the key it was built
\* with: never under the zeros wipe leaves, though the Python arm of dsa would
\* sign with them, and never under an integer the constructor has dropped.
SignsUnderItsKey ==
  \A a \in made : Built(a.by) /\ a.key = signers[a.by].key

\* "Which arm a given instance uses is decided once, at construction" (dsa):
\* moving the switch between two signatures does not move a dsa.Signer.
DsaKeepsItsArm ==
  \A a, b \in made :
    (a.by = b.by /\ signers[a.by].scheme = "dsa") => a.arm = b.arm

\* A signer is for as long as it is used what it was built as: one copy of one
\* key, every signature under that key, and for dsa on one arm, however often
\* the switch moves and whoever else is wiped (ssa.py:762-926, dsa.py:1381-1591).
SignsAsBuilt == TypeOK /\ HeldOnce /\ SignsUnderItsKey /\ DsaKeepsItsArm

\* After wipe a signer stays wiped and makes no signature, whatever is done to
\* the switch and to the other signers.
WipedForGood ==
  [][\A x \in Signer : signers[x].wiped =>
       /\ signers'[x] = signers[x]
       /\ {a \in made' : a.by = x} = {a \in made : a.by = x}]_vars

\* dsa.Signer, of its Python arm: "every signature is the Python arithmetic of
\* `_sign_`, which never crosses into the bindings at all".
PythonArmNeverCrosses ==
  \A a \in made :
    (signers[a.by].scheme = "dsa" /\ a.arm = "python") => ~a.crossed

-----------------------------------------------------------------------------
(***************************************************************************)
(* Theorems, for every set of signers, keys, curves and hashes and every   *)
(* order of the group.                                                     *)
(***************************************************************************)

SignerRecord ==
  [scheme : {"none", "ssa", "dsa"}, ec : Curves, hf : Hashes, key : Scalar, q : Scalar,
   buffer : Scalar, delegates : BOOLEAN, wiped : BOOLEAN]
Signature ==
  [by : Signer, key : Scalar, arm : {"bindings", "python"}, crossed : BOOLEAN]

\* What HeldOnce leaves open: a signer that is not wiped holds its key on the
\* arm it delegates to and nothing on the other; a wiped ssa.Signer has dropped
\* the object it delegated to; who is not built has nothing to wipe.
HoldsItsKey(sg) ==
  /\ sg.scheme = "none" => ~sg.wiped
  /\ sg.scheme # "none" => sg.key \in 1..(n - 1)
  /\ sg.scheme # "none" /\ ~sg.wiped =>
       IF sg.delegates THEN sg.q = 0 /\ sg.buffer = sg.key ELSE sg.q = sg.key /\ sg.buffer = 0
  /\ sg.wiped => sg.q = 0 /\ sg.buffer = 0 /\ (sg.delegates => sg.scheme = "dsa")

\* A signature tells of whoever made it: a signer, its key, and for dsa the arm
\* it still delegates to, wiped or not.
MadeBy(a, sg) ==
  /\ sg.scheme # "none"
  /\ a.key = sg.key
  /\ sg.scheme = "dsa" => (a.arm = "bindings" <=> sg.delegates)

\* The inductive invariant.
Inv ==
  /\ TypeOK
  /\ \A x \in Signer : HoldsItsKey(signers[x])
  /\ \A a \in made : MadeBy(a, signers[a.by])

-----------------------------------------------------------------------------
LEMMA InitInv == Init => Inv
<1> SUFFICES ASSUME Init PROVE Inv
  OBVIOUS
<1>1. n \in Nat /\ 0 \in Scalar
  BY OrderAssumption DEF Scalar
<1>2. NoSigner \in SignerRecord /\ HoldsItsKey(NoSigner)
  BY <1>1, SignersAssumption DEF NoSigner, SignerRecord, HoldsItsKey
<1>3. TypeOK
  BY <1>2 DEF Init, InitServing, TypeOK, SignerRecord
<1> QED BY <1>2, <1>3 DEF Init, Inv

\* One signer changed, and no signature made: the others are as they were.
LEMMA OneChanged ==
  ASSUME Inv, NEW x \in Signer, NEW new \in SignerRecord,
         signers' = [signers EXCEPT ![x] = new], made' = made,
         outcome' \in {"ok", "not installed", "private key", "wiped", "does not verify"},
         UNCHANGED servingVars, HoldsItsKey(new),
         \A a \in made : a.by = x => MadeBy(a, new)
  PROVE  Inv'
<1>1. \A y \in Signer : signers'[y] = IF y = x THEN new ELSE signers[y]
  BY DEF Inv, TypeOK
<1>2. TypeOK'
  BY DEF Inv, TypeOK, SignerRecord, servingVars
<1>3. \A a \in made' : a.by \in Signer
  BY DEF Inv, TypeOK
<1> QED BY <1>1, <1>2, <1>3 DEF Inv

LEMMA NewKeepsInv ==
  ASSUME Inv, NEW x \in Signer, NEW scheme \in {"ssa", "dsa"}, NEW key \in Keys,
         NEW ec \in Curves, NEW hf \in Hashes, New(x, scheme, key, ec, hf)
  PROVE  Inv'
<1> DEFINE delegates == Serves(ec, hf)
           new == [scheme |-> scheme, ec |-> ec, hf |-> hf, key |-> key,
                   q |-> IF delegates THEN 0 ELSE key,
                   buffer |-> IF delegates THEN key ELSE 0,
                   delegates |-> delegates, wiped |-> FALSE]
<1>1. CASE ~ValidKey(key)
  <2>1. UNCHANGED <<servingVars, signers, made>> /\ outcome' = "private key"
    BY <1>1 DEF New
  <2> QED BY <2>1 DEF Inv, TypeOK, servingVars
<1>2. CASE ValidKey(key)
  <2>1. /\ signers' = [signers EXCEPT ![x] = new]
        /\ made' = made /\ outcome' = "ok" /\ UNCHANGED servingVars
    BY <1>2 DEF New
  <2>2. key \in 1..(n - 1) /\ key \in Scalar /\ 0 \in Scalar /\ delegates \in BOOLEAN
    BY <1>2, OrderAssumption DEF ValidKey, Scalar, Serves
  <2> HIDE DEF delegates
  <2>3. new \in SignerRecord
    BY <2>2 DEF SignerRecord
  <2>4. HoldsItsKey(new)
    BY <2>2 DEF HoldsItsKey
  <2>5. \A a \in made : a.by # x
    BY DEF New, Built, Inv, MadeBy
  <2> HIDE DEF new
  <2> QED BY <2>1, <2>3, <2>4, <2>5, OneChanged
<1> QED BY <1>1, <1>2

LEMMA WipeKeepsInv ==
  ASSUME Inv, NEW x \in Signer, Wipe(x)
  PROVE  Inv'
<1> DEFINE sg == signers[x]
           new == [sg EXCEPT !.q = 0, !.buffer = 0, !.wiped = TRUE,
                             !.delegates = @ /\ sg.scheme = "dsa"]
<1>1. sg \in SignerRecord /\ HoldsItsKey(sg) /\ sg.scheme # "none" /\ 0 \in Scalar
  <2>1. sg.scheme # "none"
    BY DEF Wipe, Built
  <2>2. sg \in SignerRecord /\ HoldsItsKey(sg)
    BY DEF Inv, TypeOK, SignerRecord
  <2> QED BY <2>1, <2>2, OrderAssumption DEF Scalar
<1>2. /\ signers' = [signers EXCEPT ![x] = new]
      /\ made' = made /\ outcome' = "ok" /\ UNCHANGED servingVars
  <2>1. DOMAIN signers' = Signer /\ signers' = [y \in Signer |-> signers'[y]]
    BY DEF Wipe, Inv, TypeOK
  <2>2. \A y \in Signer : signers'[y] = IF y = x THEN new ELSE signers[y]
    BY DEF Wipe, Inv, TypeOK
  <2> HIDE DEF new
  <2>3. signers' = [signers EXCEPT ![x] = new]
    BY <2>1, <2>2 DEF Inv, TypeOK
  <2> QED BY <2>3 DEF Wipe
<1>3. \A a \in made : a.by = x => MadeBy(a, sg)
  BY DEF Inv
<1> HIDE DEF sg
<1>4. /\ new \in SignerRecord
      /\ new.scheme = sg.scheme /\ new.key = sg.key /\ new.q = 0 /\ new.buffer = 0
      /\ new.wiped = TRUE /\ new.delegates = (sg.delegates /\ sg.scheme = "dsa")
  BY <1>1 DEF SignerRecord
<1> HIDE DEF new
<1>5. HoldsItsKey(new) /\ \A a \in made : a.by = x => MadeBy(a, new)
  BY <1>1, <1>3, <1>4 DEF HoldsItsKey, MadeBy
<1> QED BY <1>2, <1>4, <1>5, OneChanged

\* What a signing call that ends well was made with: the key of the signer,
\* which is not wiped, on its arm.
LEMMA SignsAsItHolds ==
  ASSUME Inv, NEW x \in Signer, NEW verify \in BOOLEAN, NEW faulty \in BOOLEAN,
         Sign(x, verify, faulty), outcome' = "ok"
  PROVE  LET sg == signers[x]
             a  == [by |-> x, key |-> SigningKey(sg), arm |-> Arm(sg), crossed |-> Crosses(sg)]
         IN  made' = made \cup {a} /\ ~sg.wiped /\ a \in Signature /\ MadeBy(a, sg)
<1> DEFINE sg == signers[x]
           a  == [by |-> x, key |-> SigningKey(sg), arm |-> Arm(sg), crossed |-> Crosses(sg)]
<1>1. made' = made \cup {a} /\ sg.scheme # "none"
  BY DEF Sign, Built
<1>2. sg.wiped \in BOOLEAN /\ ~sg.wiped
  BY DEF Sign, Inv, TypeOK
<1>3. sg \in SignerRecord /\ HoldsItsKey(sg)
  BY DEF Inv, TypeOK, SignerRecord
<1> HIDE DEF sg
<1>4. SigningKey(sg) = sg.key
  BY <1>1, <1>2, <1>3 DEF SigningKey, HoldsItsKey, SignerRecord
<1>5. /\ Arm(sg) \in {"bindings", "python"} /\ Crosses(sg) \in BOOLEAN
      /\ sg.scheme = "dsa" => (Arm(sg) = "bindings" <=> sg.delegates)
  BY <1>3 DEF Arm, Crosses, SignerRecord, Serves
<1>6. a \in Signature
  BY <1>3, <1>4, <1>5 DEF Signature, SignerRecord
<1>7. MadeBy(a, sg)
  BY <1>1, <1>4, <1>5 DEF MadeBy
<1> QED BY <1>1, <1>2, <1>6, <1>7 DEF sg

LEMMA SignKeepsInv ==
  ASSUME Inv, NEW x \in Signer, NEW verify \in BOOLEAN, NEW faulty \in BOOLEAN,
         Sign(x, verify, faulty)
  PROVE  Inv'
<1>1. UNCHANGED <<servingVars, signers>>
  BY DEF Sign
<1>2. outcome' \in {"ok", "wiped", "private key", "does not verify"}
  BY DEF Sign
<1>3. made' \subseteq Signature /\ \A a \in made' : MadeBy(a, signers[a.by])
  <2>1. CASE outcome' # "ok"
    BY <2>1 DEF Sign, Inv, TypeOK, Signature
  <2>2. CASE outcome' = "ok"
    <3> DEFINE sg == signers[x]
               a  == [by |-> x, key |-> SigningKey(sg), arm |-> Arm(sg), crossed |-> Crosses(sg)]
    <3>1. made' = made \cup {a} /\ a \in Signature /\ MadeBy(a, sg)
      BY <2>2, SignsAsItHolds
    <3>2. a.by = x
      OBVIOUS
    <3> HIDE DEF a
    <3> QED BY <3>1, <3>2 DEF Inv, TypeOK, Signature
  <2> QED BY <2>1, <2>2
<1> QED BY <1>1, <1>2, <1>3 DEF Inv, TypeOK, Signature, servingVars

LEMMA NextKeepsInv == Inv /\ [Next]_vars => Inv'
<1> SUFFICES ASSUME Inv, [Next]_vars PROVE Inv'
  OBVIOUS
<1>1. ASSUME NEW on \in BOOLEAN, Switch(on) PROVE Inv'
  BY <1>1 DEF Inv, TypeOK, Switch, SetServing
<1>2. ASSUME NEW x \in Signer, NEW scheme \in {"ssa", "dsa"}, NEW key \in Keys,
             NEW ec \in Curves, NEW hf \in Hashes, New(x, scheme, key, ec, hf)
      PROVE Inv'
  BY <1>2, NewKeepsInv
<1>3. ASSUME NEW x \in Signer, Wipe(x) PROVE Inv'
  BY <1>3, WipeKeepsInv
<1>4. ASSUME NEW x \in Signer, NEW verify \in BOOLEAN, NEW faulty \in BOOLEAN,
             Sign(x, verify, faulty)
      PROVE Inv'
  BY <1>4, SignKeepsInv
<1>5. CASE UNCHANGED vars
  BY <1>5 DEF vars, Inv, TypeOK
<1> QED BY <1>1, <1>2, <1>3, <1>4, <1>5 DEF Next

THEOREM InvHolds == Spec => []Inv
BY InitInv, NextKeepsInv, PTL DEF Spec

\* One copy of one key, every signature under it, and for dsa on one arm,
\* whatever is done to the switch and whoever is wiped.
THEOREM SignersSignAsBuilt == Spec => []SignsAsBuilt
<1>1. Inv => SignsAsBuilt
  <2> SUFFICES ASSUME Inv PROVE SignsAsBuilt
    OBVIOUS
  <2>1. HeldOnce
    BY DEF Inv, TypeOK, HeldOnce, HoldsItsKey, Built
  <2>2. SignsUnderItsKey
    BY DEF Inv, SignsUnderItsKey, MadeBy, Built
  <2>3. DsaKeepsItsArm
    BY DEF Inv, TypeOK, DsaKeepsItsArm, MadeBy
  <2> QED BY <2>1, <2>2, <2>3 DEF Inv, SignsAsBuilt
<1> QED BY <1>1, InvHolds, PTL

\* A wiped signer is never anything else again and signs no more.
THEOREM WipedSignersStayWiped == Spec => WipedForGood
<1> DEFINE AsItWas(x) == /\ signers'[x] = signers[x]
                         /\ {a \in made' : a.by = x} = {a \in made : a.by = x}
<1>1. ASSUME Inv, [Next]_vars, NEW x \in Signer, signers[x].wiped
      PROVE  AsItWas(x)
  <2>0. Built(x) /\ HoldsItsKey(signers[x]) /\ signers[x] \in SignerRecord
    BY <1>1 DEF Inv, TypeOK, HoldsItsKey, Built, SignerRecord
  <2>1. ASSUME NEW on \in BOOLEAN, Switch(on) PROVE AsItWas(x)
    BY <2>1 DEF Switch
  <2>2. ASSUME NEW y \in Signer, NEW scheme \in {"ssa", "dsa"}, NEW key \in Keys,
               NEW ec \in Curves, NEW hf \in Hashes, New(y, scheme, key, ec, hf)
        PROVE AsItWas(x)
    <3>1. x # y /\ made' = made /\ (signers' = signers \/ \E new : signers' = [signers EXCEPT ![y] = new])
      BY <2>0, <2>2 DEF New
    <3> QED BY <1>1, <3>1 DEF Inv, TypeOK
  <2>3. ASSUME NEW y \in Signer, Wipe(y) PROVE AsItWas(x)
    <3> DEFINE sg == signers[x]
               new == [sg EXCEPT !.q = 0, !.buffer = 0, !.wiped = TRUE,
                                 !.delegates = @ /\ sg.scheme = "dsa"]
    <3>1. made' = made
      BY <2>3 DEF Wipe
    <3>2. CASE x # y
      BY <1>1, <2>3, <3>1, <3>2 DEF Wipe, Inv, TypeOK
    <3>3. CASE x = y
      <4>1. signers'[x] = new
        BY <1>1, <2>3, <3>3 DEF Wipe, Inv, TypeOK
      <4>2. /\ sg \in SignerRecord /\ sg.wiped = TRUE /\ sg.q = 0 /\ sg.buffer = 0
            /\ sg.delegates = (sg.delegates /\ sg.scheme = "dsa")
        BY <1>1, <2>0 DEF HoldsItsKey, SignerRecord
      <4> HIDE DEF sg
      <4>3. new = sg
        BY <4>2 DEF SignerRecord
      <4> QED BY <3>1, <4>1, <4>3 DEF sg
    <3> QED BY <3>2, <3>3
  <2>4. ASSUME NEW y \in Signer, NEW verify \in BOOLEAN, NEW faulty \in BOOLEAN,
               Sign(y, verify, faulty)
        PROVE AsItWas(x)
    <3>1. signers' = signers
      BY <2>4 DEF Sign
    <3>2. CASE outcome' # "ok"
      BY <2>4, <3>1, <3>2 DEF Sign
    <3>3. CASE outcome' = "ok"
      <4>1. x # y
        BY <1>1, <2>4, <3>3, SignsAsItHolds
      <4>2. \E a : a.by = y /\ made' = made \cup {a}
        BY <2>4, <3>3 DEF Sign
      <4> QED BY <3>1, <4>1, <4>2
    <3> QED BY <3>2, <3>3
  <2>5. CASE UNCHANGED vars
    BY <2>5 DEF vars
  <2> QED BY <1>1, <2>1, <2>2, <2>3, <2>4, <2>5 DEF Next
<1>2. Inv /\ [Next]_vars =>
        [\A x \in Signer : signers[x].wiped =>
           /\ signers'[x] = signers[x]
           /\ {a \in made' : a.by = x} = {a \in made : a.by = x}]_vars
  BY <1>1
<1> QED BY <1>2, InvHolds, PTL DEF Spec, WipedForGood
=============================================================================
