------------------------------ MODULE Failover ------------------------------
(***************************************************************************)
(* The failover loop of the gateway (routing/failover.go) around the       *)
(* retryer (routing/retry.go), the router's target selection               *)
(* (routing/router.go) and the circuit breakers of module CircuitBreaker.  *)
(*                                                                         *)
(* Each element of Requests is a request goroutine running                 *)
(* Failover.Execute; it may serve one request after another.  A step is    *)
(* the code between two points where another goroutine can be seen: the    *)
(* router's read lock, a breaker's mutex, the upstream call, the backoff   *)
(* sleep.  req[r] holds the goroutine's local variables.                   *)
(***************************************************************************)
EXTENDS CircuitBreaker, FiniteSets

CONSTANTS
    Requests,         \* the request goroutines
    OrgRequests,      \* those of organisations with their own failover config
    MaxAttempts,      \* cfg.MaxAttempts of the failover
    MaxRetries,       \* cfg.MaxRetries of the retryer; 0 when it is disabled
    Statuses,         \* statuses of upstream API errors
    RetryCodes,       \* cfg.OnStatusCodes of the retryer
    FailoverCodes,    \* cfg.OnStatusCodes of the failover
    BreakerCodes,     \* cfg.OnStatusCodes of the breakers
    RetryOnTimeout,   \* cfg.OnTimeout of the retryer
    FailoverOnTimeout,\* cfg.OnTimeout of the failover
    AttemptTimeout    \* is cfg.PerAttemptTimeout set?

Timeout == "timeout"   \* a non-API error that is a timeout
Network == "network"   \* any other non-API error
Errors  == Statuses \union {Timeout, Network}
NoError == "nil"

\* What Execute returned.
Pending     == "pending"
Success     == "success"
Unavailable == "unavailable"   \* the router's "all providers ... unavailable"
NilResult   == "nil, nil"      \* neither a result nor an error

ASSUME BoundsAssumption == MaxAttempts \in Nat \ {0} /\ MaxRetries \in Nat

ASSUME PolicyAssumption ==
    /\ OrgRequests \subseteq Requests
    /\ RetryCodes \subseteq Statuses
    /\ FailoverCodes \subseteq Statuses
    /\ BreakerCodes \subseteq Statuses
    /\ RetryOnTimeout \in BOOLEAN
    /\ FailoverOnTimeout \in BOOLEAN
    /\ AttemptTimeout \in BOOLEAN

\* A status is none of the names used for the other outcomes.
ASSUME StatusAssumption ==
    \A s \in Statuses :
        s \notin {Timeout, Network, NoError, Pending, Success, Unavailable, NilResult}

VARIABLE req   \* the local variables of each request goroutine

vars == <<cbVars, req>>

\* "call": an upstream call is in progress.  "backoff": the retryer sleeps.
\* "record": the attempt ended with callErr, not yet told to the breaker.
Active == {"select", "gate", "call", "backoff", "record"}

\* excluded, lastErr, attempt: locals of Failover.Execute; target, callErr:
\* result.Target and callErr of the attempt; retries: the retryer's loop
\* counter; cancelled: the request context is done.  calls is history: how
\* often this request called each provider.
FreshRequest(pc) ==
    [pc |-> pc, attempt |-> 1, excluded |-> {}, target |-> NoError,
     retries |-> 0, callErr |-> NoError, lastErr |-> NoError,
     cancelled |-> FALSE, calls |-> [p \in Providers |-> 0],
     outcome |-> Pending]

Init == CBInit /\ req = [r \in Requests |-> FreshRequest("idle")]

-----------------------------------------------------------------------------
(* Error classification *)

\* Retryer.ShouldRetry
ShouldRetry(e) == e \in RetryCodes \/ (e = Timeout /\ RetryOnTimeout)

\* Failover.ShouldFailover
ShouldFailover(e) == e \in FailoverCodes \/ (e = Timeout /\ FailoverOnTimeout)

\* CircuitBreaker.isFailure
IsFailure(e) == e \in BreakerCodes \union {Timeout, Network}

-----------------------------------------------------------------------------
(* Failover.Execute *)

UsesBreaker(r) == r \notin OrgRequests

\* Execute returns: its locals are gone, the history stays.
Finish(q, o) == [FreshRequest("done") EXCEPT !.calls = q.calls, !.outcome = o]

\* An upstream call to q.target begins.
BeginCall(q) == [q EXCEPT !.pc = "call", !.calls[q.target] = @ + 1]

\* Mutant: the failed or refused provider stays eligible.
NextAttemptNotExcluding(q) ==
    IF q.attempt < MaxAttempts
      THEN [q EXCEPT !.pc = "select", !.attempt = @ + 1, !.target = NoError,
                     !.retries = 0, !.callErr = NoError]
      ELSE Finish(q, IF q.lastErr = NoError THEN NilResult ELSE q.lastErr)

\* The loop's continue: the target is excluded; when the attempts are used up
\* the loop ends with lastErr, which no call may have set.
NextAttempt(q) ==
    IF q.attempt < MaxAttempts
      THEN [q EXCEPT !.pc = "select", !.attempt = @ + 1,
                     !.excluded = @ \union {q.target}, !.target = NoError,
                     !.retries = 0, !.callErr = NoError]
      ELSE Finish(q, IF q.lastErr = NoError THEN NilResult ELSE q.lastErr)

Start(r) ==
    /\ req[r].pc \in {"idle", "done"}
    /\ req' = [req EXCEPT ![r] = FreshRequest("select")]
    /\ UNCHANGED cbVars

\* The targets selectMatching leaves: healthy and not excluded.
Candidates(q) == {p \in Providers : healthy[p]} \ q.excluded

\* What Execute does with the target it was given.
TryTarget(r, p) ==
    LET q == [req[r] EXCEPT !.target = p]
    IN  IF UsesBreaker(r) THEN [q EXCEPT !.pc = "gate"] ELSE BeginCall(q)

\* Mutant: the error of the router always replaces the provider's.
SelectHidesError(r) ==
    /\ req[r].pc = "select"
    /\ \/ \E p \in Candidates(req[r]) : req' = [req EXCEPT ![r] = TryTarget(r, p)]
       \/ /\ Candidates(req[r]) = {}
          /\ req' = [req EXCEPT ![r] = Finish(@, Unavailable)]
    /\ UNCHANGED cbVars

\* router.Select or SelectExcluding; any strategy picks one of the candidates.
Select(r) ==
    /\ req[r].pc = "select"
    /\ \/ \E p \in Candidates(req[r]) : req' = [req EXCEPT ![r] = TryTarget(r, p)]
       \/ /\ Candidates(req[r]) = {}
          /\ req' = [req EXCEPT ![r] =
                Finish(@, IF @.lastErr = NoError THEN Unavailable ELSE @.lastErr)]
    /\ UNCHANGED cbVars

\* The breaker is asked about a target chosen earlier, from flags that may
\* have changed since.
Gate(r) ==
    /\ req[r].pc = "gate"
    /\ Allow(req[r].target)
    /\ req' = [req EXCEPT ![r] =
          IF Allowed(req[r].target) THEN BeginCall(@) ELSE NextAttempt(@)]

\* The upstream call ends, with or without an error; the retryer decides.
CallReturns(r) ==
    /\ req[r].pc = "call"
    /\ \/ req' = [req EXCEPT ![r].callErr = NoError, ![r].pc = "record"]
       \/ \E e \in Errors :
             req' = [req EXCEPT ![r].callErr = e,
                                ![r].pc = IF ShouldRetry(e) /\ req[r].retries < MaxRetries
                                            THEN "backoff" ELSE "record"]
    /\ UNCHANGED cbVars

\* Mutant: the retry loop does not count the retry.
RetryUncounted(r) ==
    /\ req[r].pc = "backoff"
    /\ req' = [req EXCEPT ![r] = BeginCall(@)]
    /\ UNCHANGED cbVars

\* Mutant: the retry loop never ends (the call history is left out).
RetryForever(r) ==
    /\ req[r].pc = "backoff"
    /\ req' = [req EXCEPT ![r].pc = "call"]
    /\ UNCHANGED cbVars

\* The backoff delay is over: the same provider is called again.
Retry(r) ==
    /\ req[r].pc = "backoff"
    /\ req' = [req EXCEPT ![r] = BeginCall([req[r] EXCEPT !.retries = @ + 1])]
    /\ UNCHANGED cbVars

\* ctx.Done fires first: the attempt's deadline passed or the client left.
AbandonRetry(r) ==
    /\ req[r].pc = "backoff"
    /\ AttemptTimeout \/ req[r].cancelled
    /\ req' = [req EXCEPT ![r].pc = "record"]
    /\ UNCHANGED cbVars

\* What the loop does after a failed attempt.
AfterFailure(q) ==
    IF ShouldFailover(q.callErr) /\ ~q.cancelled
      THEN NextAttempt([q EXCEPT !.lastErr = q.callErr])
      ELSE Finish(q, q.callErr)

\* Mutant: a success closes the circuit whatever its state.
RecordForcesClosed(r) ==
    /\ req[r].pc = "record"
    /\ \/ /\ req[r].callErr = NoError
          /\ state' = [state EXCEPT ![req[r].target] = Closed]
          /\ failures' = [failures EXCEPT ![req[r].target] = 0]
          /\ healthy' = [healthy EXCEPT ![req[r].target] = TRUE]
          /\ UNCHANGED <<successes, sinceFailure, timers>>
          /\ req' = [req EXCEPT ![r] = Finish(@, Success)]
       \/ /\ req[r].callErr # NoError
          /\ IF UsesBreaker(r) /\ IsFailure(req[r].callErr)
               THEN RecordFailure(req[r].target) ELSE UNCHANGED cbVars
          /\ req' = [req EXCEPT ![r] = AfterFailure(@)]

\* The attempt's result is recorded and the loop ends or goes on.
Record(r) ==
    /\ req[r].pc = "record"
    /\ \/ /\ req[r].callErr = NoError
          /\ IF UsesBreaker(r) THEN RecordSuccess(req[r].target) ELSE UNCHANGED cbVars
          /\ req' = [req EXCEPT ![r] = Finish(@, Success)]
       \/ /\ req[r].callErr # NoError
          /\ IF UsesBreaker(r) /\ IsFailure(req[r].callErr)
               THEN RecordFailure(req[r].target) ELSE UNCHANGED cbVars
          /\ req' = [req EXCEPT ![r] = AfterFailure(@)]

\* The client disconnects, or the request's own deadline passes.
ClientGone(r) ==
    /\ req[r].pc \in Active
    /\ ~req[r].cancelled
    /\ req' = [req EXCEPT ![r].cancelled = TRUE]
    /\ UNCHANGED cbVars

-----------------------------------------------------------------------------

\* The steps a running request takes by itself.
Step(r) ==
    Select(r) \/ Gate(r) \/ CallReturns(r) \/ Retry(r) \/ AbandonRetry(r) \/ Record(r)

Next ==
    \/ \E r \in Requests : Start(r) \/ Step(r) \/ ClientGone(r)
    \/ \E p \in Providers : Readmit(p) /\ UNCHANGED req
    \/ Tick /\ UNCHANGED req

\* Goroutines run, upstream calls end (the providers' HTTP clients have
\* timeouts), backoff timers fire, time passes.
Fairness ==
    /\ \A r \in Requests : WF_vars(Step(r))
    /\ \A p \in Providers : WF_vars(Readmit(p) /\ UNCHANGED req)
    /\ WF_vars(Tick /\ UNCHANGED req)

Safety == Init /\ [][Next]_vars

Spec == Safety /\ Fairness

-----------------------------------------------------------------------------
(* Properties *)

RequestRecords ==
    [pc : Active \union {"idle", "done"}, attempt : 1..MaxAttempts,
     excluded : SUBSET Providers, target : Providers \union {NoError},
     retries : 0..MaxRetries,
     callErr : Errors \union {NoError}, lastErr : Errors \union {NoError},
     cancelled : BOOLEAN, calls : [Providers -> 0..(MaxRetries + 1)],
     outcome : Errors \union {Pending, Success, Unavailable, NilResult}]

\* The values the locals of Execute take.
TypeOK == req \in [Requests -> RequestRecords]

\* Every attempt, refused by a breaker or called, goes to a provider of its
\* own: the attempts used up are exactly the providers excluded.
AttemptsAreDistinct ==
    \A r \in Requests : req[r].pc \in Active =>
        /\ Cardinality(req[r].excluded) = req[r].attempt - 1
        /\ req[r].pc # "select" => req[r].target \notin req[r].excluded

\* The providers a request has called.
Called(q) == {p \in Providers : q.calls[p] > 0}

\* How much upstream work one request can cause: at most MaxAttempts
\* providers, each called at most 1 + MaxRetries times, whatever mix of
\* refusals, retries, abandoned retries and failovers it goes through.
WorkIsBounded ==
    \A r \in Requests :
        /\ Cardinality(Called(req[r])) <= MaxAttempts
        /\ \A p \in Providers : req[r].calls[p] <= MaxRetries + 1

\* "Return the actual provider error, not "no targets"": the router's error is
\* returned only when no provider was called at all.
ProviderErrorNotHidden ==
    \A r \in Requests : req[r].outcome = Unavailable => Called(req[r]) = {}

\* Execute returns a result or an error: "trying providers until one succeeds
\* or all fail".  (The code violates it.)
ResultOrError ==
    \A r \in Requests : req[r].outcome # NilResult

\* Every request that was started ends, whatever the breakers, the retries
\* and the other requests do.
RequestsFinish ==
    \A r \in Requests : req[r].pc \in Active ~> req[r].pc = "done"

\* The loop uses the breakers only through their methods: what holds of
\* CBSpec holds of the breakers in the running gateway.
UsesBreakersProperly == CBSpec

=============================================================================
