-------------------------- MODULE MCShadowCapture --------------------------
(* Model-checking instance of ShadowCapture: more results than the buffer   *)
(* holds.                                                                   *)
EXTENDS ShadowCapture

CONSTANTS a, b, c

=============================================================================
