--------------------------- MODULE CircuitBreaker ---------------------------
(***************************************************************************)
(* The gateway's per-provider circuit breaker (routing/circuitbreaker.go)  *)
(* and the health flag it keeps in the router (routing/router.go).         *)
(*                                                                         *)
(* The breaker is a thread-safe object: its callers may call Allow,        *)
(* RecordSuccess and RecordFailure in any order and from any goroutine, so *)
(* Next lets any of them happen at any time.  Each method holds cb.mu for  *)
(* its whole body, including the SetHealthy callback, and is one step.     *)
(*                                                                         *)
(* Time is counted in ticks.  lastFailure is kept as its age, saturated at *)
(* Cooldown because the code only ever asks whether the age reached it.    *)
(* A timer started by time.AfterFunc is kept as its remaining ticks; a due *)
(* timer (0) may fire before or after any other step of the same instant,  *)
(* but not a whole tick late.                                              *)
(***************************************************************************)
EXTENDS Naturals

CONSTANTS
    Providers,         \* the routing targets of the model
    FailureThreshold,  \* cfg.FailureThreshold
    SuccessThreshold,  \* cfg.SuccessThreshold
    Cooldown           \* cfg.Cooldown, in ticks

\* NewCircuitBreaker replaces a threshold or cooldown <= 0 by a default.
ASSUME ConfigAssumption ==
    /\ FailureThreshold \in Nat \ {0}
    /\ SuccessThreshold \in Nat \ {0}
    /\ Cooldown \in Nat \ {0}

VARIABLES
    state,       \* cb.state
    failures,    \* cb.failures
    successes,   \* cb.successes
    sinceFailure,\* time.Since(cb.lastFailure), saturated at Cooldown
    healthy,     \* RoutingTarget.Healthy, the same for every model
    timers       \* remaining ticks of the pending readmission timers

cbVars == <<state, failures, successes, sinceFailure, healthy, timers>>

Closed   == "closed"
Open     == "open"
HalfOpen == "half-open"

\* lastFailure is the zero time at first: its age is beyond any cooldown.
CBInit ==
    /\ state = [p \in Providers |-> Closed]
    /\ failures = [p \in Providers |-> 0]
    /\ successes = [p \in Providers |-> 0]
    /\ sinceFailure = [p \in Providers |-> Cooldown]
    /\ healthy = [p \in Providers |-> TRUE]
    /\ timers = [p \in Providers |-> {}]

\* Router.SetHealthy, the registry's onChange callback.
SetHealthy(p, h) == healthy' = [healthy EXCEPT ![p] = h]

-----------------------------------------------------------------------------
(* Allow *)

\* What Allow returns.
Allowed(p) == state[p] = Open => sinceFailure[p] >= Cooldown

\* Allow's effect: an open circuit whose cooldown elapsed becomes half-open.
Allow(p) ==
    /\ IF state[p] = Open /\ sinceFailure[p] >= Cooldown
         THEN /\ state' = [state EXCEPT ![p] = HalfOpen]
              /\ successes' = [successes EXCEPT ![p] = 0]
         ELSE UNCHANGED <<state, successes>>
    /\ UNCHANGED <<failures, sinceFailure, healthy, timers>>

-----------------------------------------------------------------------------
(* RecordSuccess *)

RecordSuccess(p) ==
    \/ /\ state[p] = Closed
       /\ failures' = [failures EXCEPT ![p] = 0]
       /\ UNCHANGED <<state, successes, sinceFailure, healthy, timers>>
    \/ /\ state[p] = HalfOpen
       /\ successes[p] + 1 < SuccessThreshold
       /\ successes' = [successes EXCEPT ![p] = @ + 1]
       /\ UNCHANGED <<state, failures, sinceFailure, healthy, timers>>
    \/ /\ state[p] = HalfOpen
       /\ successes[p] + 1 >= SuccessThreshold
       /\ state' = [state EXCEPT ![p] = Closed]
       /\ failures' = [failures EXCEPT ![p] = 0]
       /\ successes' = [successes EXCEPT ![p] = 0]
       /\ SetHealthy(p, TRUE)
       /\ UNCHANGED <<sinceFailure, timers>>
    \/ /\ state[p] = Open
       /\ UNCHANGED cbVars

-----------------------------------------------------------------------------
(* RecordFailure, for an error that isFailure counts *)

\* Mutant: the provider is taken out of routing and no timer is started.
TakeOutWithoutTimer(p) ==
    /\ SetHealthy(p, FALSE)
    /\ UNCHANGED timers

\* onStateChange(p, false), then readmitAfterCooldown.
TakeOutOfRouting(p) ==
    /\ SetHealthy(p, FALSE)
    /\ timers' = [timers EXCEPT ![p] = @ \union {Cooldown}]

RecordFailure(p) ==
    /\ sinceFailure' = [sinceFailure EXCEPT ![p] = 0]
    /\ \/ /\ state[p] = Closed
          /\ failures' = [failures EXCEPT ![p] = @ + 1]
          /\ IF failures[p] + 1 >= FailureThreshold
               THEN /\ state' = [state EXCEPT ![p] = Open]
                    /\ TakeOutOfRouting(p)
               ELSE UNCHANGED <<state, healthy, timers>>
          /\ UNCHANGED successes
       \/ /\ state[p] = HalfOpen
          /\ state' = [state EXCEPT ![p] = Open]
          /\ successes' = [successes EXCEPT ![p] = 0]
          /\ TakeOutOfRouting(p)
          /\ UNCHANGED failures
       \/ /\ state[p] = Open
          /\ UNCHANGED <<state, failures, successes, healthy, timers>>

-----------------------------------------------------------------------------
(* The readmission timer and the clock *)

\* The callback of readmitAfterCooldown.  It takes router.mu but not cb.mu.
Readmit(p) ==
    /\ 0 \in timers[p]
    /\ timers' = [timers EXCEPT ![p] = @ \ {0}]
    /\ SetHealthy(p, TRUE)
    /\ UNCHANGED <<state, failures, successes, sinceFailure>>

Tick ==
    /\ \A p \in Providers : 0 \notin timers[p]
    /\ sinceFailure' = [p \in Providers |->
          IF sinceFailure[p] < Cooldown THEN sinceFailure[p] + 1 ELSE Cooldown]
    /\ timers' = [p \in Providers |-> {t - 1 : t \in timers[p]}]
    /\ UNCHANGED <<state, failures, successes, healthy>>

CBStep(p) == Allow(p) \/ RecordSuccess(p) \/ RecordFailure(p) \/ Readmit(p)

CBNext == Tick \/ \E p \in Providers : CBStep(p)

\* The Go runtime runs due timers, and time passes.
CBFairness ==
    /\ WF_cbVars(Tick)
    /\ \A p \in Providers : WF_cbVars(Readmit(p))

CBSafety == CBInit /\ [][CBNext]_cbVars

CBSpec == CBSafety /\ CBFairness

-----------------------------------------------------------------------------
(* Properties *)

\* The values the breaker's fields take.
CBTypeOK ==
    /\ state \in [Providers -> {Closed, Open, HalfOpen}]
    /\ failures \in [Providers -> 0..FailureThreshold]
    /\ successes \in [Providers -> 0..(SuccessThreshold - 1)]
    /\ sinceFailure \in [Providers -> 0..Cooldown]
    /\ healthy \in [Providers -> BOOLEAN]
    /\ timers \in [Providers -> SUBSET (0..Cooldown)]

\* The router skips an unhealthy provider, so no request can reach Allow to
\* half-open its circuit: only a pending timer can bring it back.  Whatever
\* the order of openings, probes and old timers, one is always pending.
NoStrandedProvider ==
    \A p \in Providers : ~healthy[p] => timers[p] # {}

\* failures counts only up to the threshold: a closed circuit is always one
\* failure or more away from it, however late failures and successes mix.
ClosedBelowThreshold ==
    \A p \in Providers : state[p] = Closed => failures[p] < FailureThreshold

\* A circuit that is closed is in routing: neither a success recorded after another
\* request opened it, nor a failure recorded after it closed again, nor a failure of
\* the half-open phase leaves a recovered provider out.
ClosedIsRoutable ==
    \A p \in Providers : state[p] = Closed => healthy[p]

\* Outside the open state every pending timer is already due.  So an opening
\* never starts a second timer for the same instant, and a set of remaining
\* times represents the timers exactly.
OldTimersAreDue ==
    \A p \in Providers : state[p] # Open => timers[p] \subseteq {0}

\* A readmission timer never outlasts the cooldown that Allow measures from
\* the last failure: when a probe would be let through, the provider is in
\* routing or about to be, so no cooldown is spent unroutable.
TimersWithinCooldown ==
    \A p \in Providers : \A t \in timers[p] : t + sinceFailure[p] <= Cooldown

\* A provider taken out of routing comes back, as the comment on
\* readmitAfterCooldown promises.
ReadmittedEventually ==
    \A p \in Providers : ~healthy[p] ~> healthy[p]

=============================================================================
