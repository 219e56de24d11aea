----------------------------- MODULE MCFailover -----------------------------
(* Model-checking instances of Failover.  s503 is retried, failed over and  *)
(* counted by the breakers; s400 is none of these.                          *)
EXTENDS Failover, TLC

CONSTANTS p1, p2, r1, r2, s503, s400

\* Used by the run without liveness.
MCSymmetry == Permutations({p1, p2}) \union Permutations({r1, r2})

=============================================================================
