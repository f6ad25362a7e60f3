----------------------------- MODULE MultiMult -----------------------------
(***************************************************************************)
(* u1*Q1 + ... + un*Qn: interleaved wNAFs for few scalars, and Bos-Coster  *)
(* for many, a heap of scalars and points rewritten two at a time by one   *)
(* step of Euclid until one pair is left.                                  *)
(***************************************************************************)
EXTENDS ScalarMult

CONSTANTS
  Calls,        \* records with scalars, points and bosCoster: called for itself
  MultW,        \* _MULT_W
  MultiMultW,   \* _MULTI_MULT_W
  Threshold,    \* BOS_COSTER_THRESHOLD
  MaxSteps      \* where the count of steps stops

VARIABLES call,
          pc,       \* "call", "heap", "answered", "refused"
          heap,     \* the pairs still to be summed, in any order
          steps,    \* the steps of Euclid made, for a property
          answer

vars == <<call, pc, heap, steps, answer>>

Init == call \in Calls /\ pc = "call" /\ heap = <<>> /\ steps = 0 /\ answer = INFJ

ToBosCoster ==
  call.bosCoster \/ Len(SelectSeq(call.scalars, LAMBDA x : x # 0)) >= Threshold

Refuse ==
  /\ pc = "call" /\ ~IsMultiMult(call.scalars, call.points)
  /\ pc' = "refused" /\ UNCHANGED <<call, heap, steps, answer>>

Strauss ==
  /\ pc = "call" /\ IsMultiMult(call.scalars, call.points) /\ ~ToBosCoster
  /\ answer' = MultiMultWNaf(call.scalars, call.points, MultiMultW, {})
  /\ pc' = "answered" /\ UNCHANGED <<call, heap, steps>>

\* No pair at all is infinity, which no heap could answer.
Heapify ==
  /\ pc = "call" /\ IsMultiMult(call.scalars, call.points) /\ ToBosCoster
  /\ heap' = MultiMultPairs(call.scalars, call.points)
  /\ pc' = IF heap' = <<>> THEN "answered" ELSE "heap"
  /\ UNCHANGED <<call, steps, answer>>

\* Popped first and second; two pairs of one scalar come in either order.
PopsSmallest(i, j) ==
  /\ i # j
  /\ \A k \in DOMAIN heap : heap[k][1] >= heap[i][1]
  /\ \A k \in DOMAIN heap \ {i} : heap[k][1] >= heap[j][1]
Pops(i, j) ==
  /\ i # j
  /\ \A k \in DOMAIN heap : heap[k][1] <= heap[i][1]
  /\ \A k \in DOMAIN heap \ {i} : heap[k][1] <= heap[j][1]

Others(i, j) ==
  LET kept == SelectSeq([k \in DOMAIN heap |-> k], LAMBDA k : k \notin {i, j})
  IN  [k \in DOMAIN kept |-> heap[kept[k]]]

\* n1*P1 + n2*P2 = r*P1 + n2*(q*P1 + P2), and nothing is pushed for r = 0.
RewriteKept(n1, P1, n2, P2) ==   \* the quotient stays on the first point
  (IF n1 % n2 = 0 THEN <<>> ELSE <<<<n1 % n2, P1>>>>)
    \o <<<<n2, AddJac(MultJac(n1 \div n2, P2), P2)>>>>
RewriteZero(n1, P1, n2, P2) ==   \* a remainder of zero is pushed
  <<<<n1 % n2, P1>>, <<n2, AddJac(MultJac(n1 \div n2, P1), P2)>>>>
Rewrite(n1, P1, n2, P2) ==
  (IF n1 % n2 = 0 THEN <<>> ELSE <<<<n1 % n2, P1>>>>)
    \o <<<<n2, AddJac(MultJac(n1 \div n2, P1), P2)>>>>

Step ==
  /\ pc = "heap" /\ Len(heap) > 1
  /\ \E i, j \in DOMAIN heap :
       /\ Pops(i, j)
       /\ heap' = Others(i, j) \o Rewrite(heap[i][1], heap[i][2], heap[j][1], heap[j][2])
  /\ steps' = (IF steps < MaxSteps THEN steps + 1 ELSE steps) /\ UNCHANGED <<call, pc, answer>>

Finish ==
  /\ pc = "heap" /\ Len(heap) = 1
  /\ answer' = MultRegularWindow(heap[1][1], heap[1][2], MultW)
  /\ pc' = "answered" /\ UNCHANGED <<call, heap, steps>>

Next == Refuse \/ Strauss \/ Heapify \/ Step \/ Finish

Spec == Init /\ [][Next]_vars /\ WF_vars(Next)

----------------------------------------------------------------------------
(* Properties *)

PairsSum(pairs) == FoldLeft(LAMBDA R, x : AddJac(R, Times(x[1], x[2])), INFJ, pairs)
Asked == PairsSum([i \in DOMAIN call.scalars |-> <<call.scalars[i], call.points[i]>>])

\* What the heap's pairs sum to never changes, and it is what is answered, by
\* either algorithm (curve_group.py:1716-1717, 1788).
SumIsKept ==
  /\ pc = "heap" => PairsSum(heap) = Asked
  /\ pc = "answered" => answer = Asked

\* No pair of the heap has a scalar of zero, which the next step would divide
\* by (curve_group.py:1511-1512).
NeverZero == \A k \in DOMAIN heap : heap[k][1] > 0

\* A whole step of Euclid halves the scalar it reduces: the steps are bounded
\* by the bits of the scalars and not by their size (curve_group.py:1721-1729).
BitsBoundTheSteps ==
  steps <= FoldLeft(LAMBDA x, m : x + BitLength(m), 0, SelectSeq(call.scalars, LAMBDA m : m > 0))

\* Every call ends (curve_group.py:1718).
CallsReturn == <>(pc \in {"answered", "refused"})
=============================================================================
