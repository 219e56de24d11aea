-------------------------- MODULE MCRedisBreaker --------------------------
(* Model-checking instances of RedisBreaker.  DirectChecks: every caller    *)
(* uses Client.Do only.  GuardedChecks: the stores' own Available first, as *)
(* the rate limiter and the budget store do.                                *)
EXTENDS RedisBreaker

CONSTANTS g1, g2

DirectChecks  == [g \in Goroutines |-> 1]
GuardedChecks == [g \in Goroutines |-> 2]

=============================================================================
