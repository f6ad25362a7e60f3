----------------------------- MODULE TweakChain -----------------------------
(***************************************************************************)
(* TweakChain of curves/curve.py: base + t*G for one base and many t.  The *)
(* bindings hold a point that each call moves by the difference to the     *)
(* tweak before; a step onto infinity loses that point and the chain goes  *)
(* on without it.  Calls come in any order, between any moves of the       *)
(* switch.                                                                 *)
(***************************************************************************)
EXTENDS PrimeGroup, Serving

CONSTANTS Chain,   \* the chains
          Curves,  \* their curves
          Asked    \* the tweaks asked for: integers, not yet reduced

ASSUME ChainAssumption ==
  /\ Asked \subseteq Int
  /\ Secp256k1 \in Curves

\* Every residue, and integers below zero and above the order.
EveryKindOfTweak == -2..(n + 1)

VARIABLES
  chains,  \* the chains, see NoChain
  answer   \* the last answer of point, with the tweak it is the answer to

vars == <<installed, serving, chains, answer>>

\* held says whether _chain is an object; far is the point it holds, which a
\* failed step clears, and tweak the scalar that point stands at.
NoChain == [built |-> FALSE, base |-> INF, ec |-> Secp256k1,
            tweak |-> 0, held |-> FALSE, far |-> INF]
NoAnswer == [base |-> INF, t |-> 0, point |-> INF, crossed |-> FALSE]

Init == InitServing /\ chains = [c \in Chain |-> NoChain] /\ answer = NoAnswer

Switch(on) == SetServing(on) /\ UNCHANGED <<chains, answer>>

New(c, base, ec) ==
  /\ ~chains[c].built
  /\ LET held == base # INF /\ Serves(ec, AnyHash)
     IN  chains' = [chains EXCEPT ![c] =
                      [built |-> TRUE, base |-> base, ec |-> ec, tweak |-> 0,
                       held |-> held, far |-> IF held THEN base ELSE INF]]
  /\ UNCHANGED <<servingVars, answer>>

\* _tweak_add_var, on either arm.
TweakAdd(P, t) == Add(P, Mult(t, G))

\* Slips: a step measured from the base, not from the last tweak; a failed step
\* whose chain, at no point any more, is kept.
SteppedFromBase(ch, t) == TweakAdd(ch.far, t)
MovedUncleared(ch, t) ==
  IF ~ch.held THEN ch
  ELSE [ch EXCEPT !.tweak = t, !.far = TweakAdd(ch.far, (t - ch.tweak) % n)]

\* The chain after, and the answer to, one call of point.
Stepped(ch, t) == TweakAdd(ch.far, (t - ch.tweak) % n)
Moved(ch, t) ==
  IF ~ch.held THEN ch
  ELSE IF Stepped(ch, t) = INF THEN [ch EXCEPT !.held = FALSE, !.far = INF]
  ELSE [ch EXCEPT !.tweak = t, !.far = Stepped(ch, t)]
Answer(ch, t) ==
  IF Moved(ch, t).held THEN Stepped(ch, t) ELSE TweakAdd(ch.base, t)

PointAt(c, asked) ==
  LET ch == chains[c]
      t == asked % n
  IN  /\ ch.built
      /\ chains' = [chains EXCEPT ![c] = Moved(ch, t)]
      /\ answer' = [base |-> ch.base, t |-> asked, point |-> Answer(ch, t),
                    crossed |-> ch.held \/ Serves(ch.ec, AnyHash)]
      /\ UNCHANGED servingVars

Next ==
  \/ \E on \in BOOLEAN : Switch(on)
  \/ \E c \in Chain, base \in Point, ec \in Curves : New(c, base, ec)
  \/ \E c \in Chain, t \in Asked : PointAt(c, t)

Spec == Init /\ [][Next]_vars

-----------------------------------------------------------------------------
\* Every variable has its type: a remembered tweak is reduced modulo n.
TypeOK ==
  /\ installed \in BOOLEAN /\ serving \in BOOLEAN
  /\ chains \in [Chain -> [built : BOOLEAN, base : Point, ec : Curves, tweak : Scalar,
                           held : BOOLEAN, far : Point]]
  /\ answer \in [base : Point, t : Int, point : Point, crossed : BOOLEAN]

\* The point the bindings hold for a chain is the base moved by the tweak the
\* chain remembers, and never infinity: the difference the next call crosses
\* with is measured from where the point really stands, failed calls included.
ChainStands ==
  \A c \in Chain : chains[c].held =>
    /\ chains[c].far = Add(chains[c].base, chains[c].tweak)
    /\ chains[c].far # INF

\* point(t) is base + t*G whatever was asked before, in whichever order, with
\* the switch moved between any two calls and infinity among the answers.
AnswersAreAbsolute == answer.point = (answer.base + answer.t) % n

\* set_libsecp256k1_serving, of the switch: "Process-wide and immediate: [...]
\* no module keeps an answer of its own".  A call then crosses to the bindings
\* only while they serve.
CrossesOnlyWhileServing == [][answer' # answer /\ answer'.crossed => serving]_vars
=============================================================================
