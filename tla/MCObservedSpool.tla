-------------------------- MODULE MCObservedSpool --------------------------
(* Model-checking instance of ObservedSpool: three batches, so that a full   *)
(* spool of two records refuses one, and one enqueuer beside the publisher.  *)
EXTENDS ObservedSpool

CONSTANTS c1, c2, c3, e1

=============================================================================
