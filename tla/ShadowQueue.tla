----------------------------- MODULE ShadowQueue -----------------------------
(***************************************************************************)
(* What routing.ShadowStore promises: a bounded queue that forgets its     *)
(* oldest entry when a full queue gets one more, and that hands over       *)
(* everything it holds, oldest first, when it is drained.                  *)
(***************************************************************************)
EXTENDS Naturals, Sequences

CONSTANTS Cap, Results

VARIABLES
    queue,   \* the results held, oldest first
    out      \* what the last drain handed over

QInit == queue = <<>> /\ out = <<>>

QAdd(r) ==
    /\ queue' = IF Len(queue) < Cap THEN Append(queue, r) ELSE Append(Tail(queue), r)
    /\ UNCHANGED out

QDrain == out' = queue /\ queue' = <<>>

QNext == QDrain \/ \E r \in Results : QAdd(r)

QSpec == QInit /\ [][QNext]_<<queue, out>>

=============================================================================
