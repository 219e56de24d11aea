--------------------------- MODULE ShadowCapture ---------------------------
(***************************************************************************)
(* Shadow capture around the ring buffer: the mirror goroutines that add   *)
(* results (routing/mirror.go), the periodic flusher and its Close         *)
(* (routing/shadow_flush.go), configuration reload and server shutdown     *)
(* (server/handlers.go, server/server.go).                                 *)
(*                                                                         *)
(* A member of Results is a production request that may be mirrored and,   *)
(* later, the result captured for it.                                      *)
(***************************************************************************)
EXTENDS ShadowStore, FiniteSets

VARIABLES
    mirror,      \* what became of the mirrored request of each result
    configured,  \* the mirror section of the configuration in force
    hasStore,    \* h.mirror.Load().Store # nil
    runner,      \* ShadowFlusher.Run: what it does and the batch it sends
    closer,      \* Server.Shutdown and ShadowFlusher.Close, likewise
    stop,        \* f.stop is closed
    expired,     \* the shutdown context is spent
    delivered,   \* results the webhook accepted, in order
    lost,        \* results of batches that could not be sent
    overwritten  \* history: results the ring overwrote

captureVars == <<mirror, configured, hasStore, runner, closer, stop, expired,
                 delivered, lost, overwritten>>
flushVars == <<runner, closer, stop, expired, delivered, lost>>
vars == <<storeVars, captureVars>>

Idle == [pc |-> "idle", batch |-> <<>>]

\* NewServer with mirroring and capture on.
Init ==
    /\ StoreInit
    /\ mirror = [r \in Results |-> "new"]
    /\ configured = "capture"
    /\ hasStore = TRUE
    /\ runner = Idle
    /\ closer = Idle
    /\ stop = FALSE
    /\ expired = FALSE
    /\ delivered = <<>>
    /\ lost = {}
    /\ overwritten = {}

Exited == closer.pc = "exited"

\* httpServer.Shutdown returned only after the last request, or out of time.
Serving == closer.pc = "idle" \/ expired

-----------------------------------------------------------------------------
(* Mirroring *)

\* The tail of a request: ExecuteAsync starts a goroutine that captures the
\* mirror's store and the production side of the result.  Sampling, rules and
\* an unknown target may leave the request unmirrored.
ExecuteAsync(r) ==
    /\ ~Exited /\ Serving
    /\ mirror[r] = "new"
    /\ \E m \in {"unmirrored", IF hasStore THEN "calling" ELSE "uncaptured"} :
          /\ m # "unmirrored" => configured # "disabled"
          /\ mirror' = [mirror EXCEPT ![r] = m]
    /\ UNCHANGED <<storeVars, configured, hasStore, flushVars, overwritten>>

\* The shadow call ends, with a response or an error: either is stored.
MirrorReturns(r) ==
    /\ ~Exited
    /\ mirror[r] = "calling"
    /\ Add(r)
    /\ mirror' = [mirror EXCEPT ![r] = "stored"]
    /\ overwritten' = overwritten \union (IF count = Cap THEN {Contents[1]} ELSE {})
    /\ UNCHANGED <<configured, hasStore, flushVars>>

\* The goroutine panics and recovers: nothing is stored.
MirrorPanics(r) ==
    /\ ~Exited
    /\ mirror[r] = "calling"
    /\ mirror' = [mirror EXCEPT ![r] = "uncaptured"]
    /\ UNCHANGED <<storeVars, configured, hasStore, flushVars, overwritten>>

\* ReloadRouting replaces the mirror by one without a store.
Reload(cfg) ==
    /\ ~Exited /\ Serving
    /\ configured' = cfg
    /\ hasStore' = FALSE
    /\ UNCHANGED <<storeVars, mirror, flushVars, overwritten>>

-----------------------------------------------------------------------------
(* Flushing *)

\* flush: the store is drained; an empty batch is not sent.
StartFlush(next) ==
    [pc |-> IF out' = <<>> THEN next ELSE "sending", batch |-> out']

\* Where the results of a finished send end up.
Sent(batch, ok) ==
    /\ delivered' = IF ok THEN delivered \o batch ELSE delivered
    /\ lost' = IF ok THEN lost ELSE lost \union {batch[i] : i \in DOMAIN batch}

\* Run's ticker fires.
RunFlush ==
    /\ ~Exited
    /\ runner.pc = "idle"
    /\ DrainAll
    /\ runner' = StartFlush("idle")
    /\ UNCHANGED <<mirror, configured, hasStore, closer, stop, expired, delivered,
                   lost, overwritten>>

\* Run's request ends; a failed batch is logged and dropped.
RunSent(ok) ==
    /\ ~Exited
    /\ runner.pc = "sending"
    /\ Sent(runner.batch, ok)
    /\ runner' = Idle
    /\ UNCHANGED <<storeVars, mirror, configured, hasStore, closer, stop, expired,
                   overwritten>>

\* Run sees the closed channel.
RunStops ==
    /\ ~Exited
    /\ runner.pc = "idle"
    /\ stop
    /\ runner' = [Idle EXCEPT !.pc = "stopped"]
    /\ UNCHANGED <<storeVars, mirror, configured, hasStore, closer, stop, expired,
                   delivered, lost, overwritten>>

\* Mutant: Close only stops Run.
CloseWithoutFlush ==
    /\ closer.pc = "idle"
    /\ stop' = TRUE
    /\ expired' \in BOOLEAN
    /\ closer' = [Idle EXCEPT !.pc = "closed"]
    /\ UNCHANGED <<storeVars, mirror, configured, hasStore, runner, delivered, lost,
                   overwritten>>

\* Shutdown stopped serving, or ran out of time, and calls Close, which first
\* closes f.stop.
CloseStops ==
    /\ closer.pc = "idle"
    /\ stop' = TRUE
    /\ expired' \in BOOLEAN
    /\ closer' = [Idle EXCEPT !.pc = "draining"]
    /\ UNCHANGED <<storeVars, mirror, configured, hasStore, runner, delivered, lost,
                   overwritten>>

\* Close's own flush, beside a flush of Run that may still be sending.
CloseFlush ==
    /\ closer.pc = "draining"
    /\ DrainAll
    /\ closer' = StartFlush("closed")
    /\ UNCHANGED <<mirror, configured, hasStore, runner, stop, expired, delivered,
                   lost, overwritten>>

\* Close's request ends; with a spent context it cannot succeed.
CloseSent(ok) ==
    /\ closer.pc = "sending"
    /\ ok => ~expired
    /\ Sent(closer.batch, ok)
    /\ closer' = [Idle EXCEPT !.pc = "closed"]
    /\ UNCHANGED <<storeVars, mirror, configured, hasStore, runner, stop, expired,
                   overwritten>>

\* The process ends with whatever is still buffered or being sent.
Exit ==
    /\ closer.pc = "closed"
    /\ closer' = [closer EXCEPT !.pc = "exited"]
    /\ UNCHANGED <<storeVars, mirror, configured, hasStore, runner, stop, expired,
                   delivered, lost, overwritten>>

-----------------------------------------------------------------------------

Next ==
    \/ \E r \in Results : ExecuteAsync(r) \/ MirrorReturns(r) \/ MirrorPanics(r)
    \/ \E cfg \in {"capture", "plain", "disabled"} : Reload(cfg)
    \/ RunFlush \/ RunStops \/ CloseStops \/ CloseFlush \/ Exit
    \/ \E ok \in BOOLEAN : RunSent(ok) \/ CloseSent(ok)

\* The ticker keeps firing and sends end within the client's timeout; a
\* shutdown that began goes on.
Fairness ==
    /\ WF_vars(RunFlush)
    /\ WF_vars(\E ok \in BOOLEAN : RunSent(ok))
    /\ WF_vars(CloseFlush)
    /\ WF_vars(\E ok \in BOOLEAN : CloseSent(ok))

Safety == Init /\ [][Next]_vars
Spec == Safety /\ Fairness

-----------------------------------------------------------------------------
(* Properties *)

Occurrences(r, s) == Cardinality({i \in DOMAIN s : s[i] = r})

\* Every stored result is in exactly one place: the buffer, a batch being
\* sent, delivered, lost with its batch, or overwritten.  The two flushes of
\* Run and Close never send the same result twice, and none disappears.
StoredResultInOnePlace ==
    \A r \in Results : mirror[r] = "stored" =>
        Occurrences(r, Contents) + Occurrences(r, runner.batch)
          + Occurrences(r, closer.batch) + Occurrences(r, delivered)
          + Cardinality({r} \intersect lost) + Cardinality({r} \intersect overwritten) = 1

Buffered(r) == \E i \in DOMAIN Contents : Contents[i] = r

\* A result buffered before the shutdown does not stay in the buffer: Run's
\* ticker or Close takes it, also when a slow send or a reload is under way.
BufferDrains ==
    \A r \in Results : (Buffered(r) /\ closer.pc = "idle") ~> ~Buffered(r)

\* What Stats reports as total_added misses the overwritten results and no
\* others, however drains, shutdown and late mirrors interleave.
StatsMissOnlyOverwritten == TotalAdded = added - Cardinality(overwritten)

=============================================================================
