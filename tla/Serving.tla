------------------------------- MODULE Serving -------------------------------
(***************************************************************************)
(* The switch between libsecp256k1 and the Python arithmetic: one global   *)
(* of curves/curve.py that every dispatch of the package reads.            *)
(***************************************************************************)
CONSTANTS Secp256k1, Sha256,   \* the one curve and hash function served
          AnyHash              \* hf=None: the operation uses no hash

VARIABLES installed,  \* whether the bindings could be imported
          serving     \* _libsecp256k1_available

servingVars == <<installed, serving>>

\* The environment variable may refuse bindings that are installed.
InitServing ==
  /\ installed \in BOOLEAN
  /\ serving \in BOOLEAN
  /\ serving => installed

\* Asking for bindings that are not installed is an error.
Refused(on) == on /\ ~installed
SetServing(on) ==
  /\ serving' = IF Refused(on) THEN serving ELSE on
  /\ UNCHANGED installed

\* _libsecp256k1_serves
Serves(ec, hf) == serving /\ ec = Secp256k1 /\ hf \in {AnyHash, Sha256}
=============================================================================
