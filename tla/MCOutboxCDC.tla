---------------------------- MODULE MCOutboxCDC ----------------------------
(* The outbox change capture on a small instance. *)
EXTENDS OutboxCDC

=============================================================================
