----------------------------- MODULE MCTraversal -----------------------------
(***************************************************************************)
(* Constants of the Traversal runs: channel A with routes a1 and a2,       *)
(* channel B with route b1.                                                 *)
(***************************************************************************)
EXTENDS TraversalProps

CONSTANTS a1, a2, b1, r1, r2

AB == <<"A", "B">>
OnlyA == <<"A">>
OwnerOf == [p \in Route |-> IF p = b1 THEN "B" ELSE "A"]
ATwoRounds == [c \in ToSet(Candidates) |-> IF c = "A" THEN 2 ELSE 0]
TwoRounds == [c \in ToSet(Candidates) |-> 2]
OneRound == [c \in ToSet(Candidates) |-> 1]
RouteSymmetry == Permutations({a1, a2})
RequestSymmetry == Permutations(Request)
=============================================================================
