----------------------------- MODULE MCCredits -----------------------------
(* Model-checking instances of Credits.                                     *)
EXTENDS Credits, TLC

CONSTANTS p1, p2, q1, q2

MCSymmetry == Permutations(Replicas) \union Permutations(Requests)

=============================================================================
