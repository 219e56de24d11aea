--------------------------- MODULE FailoverProofs ---------------------------
(***************************************************************************)
(* Theorems about the circuit breaker and the failover loop around it, for *)
(* every set of providers and requests, every threshold and cooldown, and  *)
(* every retry and failover configuration.  The breaker is proved about by *)
(* itself first; the loop is then shown to take only steps of the breaker, *)
(* so that what holds of the one holds in the other.                       *)
(***************************************************************************)
EXTENDS Failover, FiniteSetTheorems, TLAPS

-----------------------------------------------------------------------------
(* The breaker *)

\* The inductive invariant.  ClosedBelowThreshold keeps failures in its type,
\* and OldTimersAreDue needs TimersWithinCooldown: Allow half-opens a circuit
\* only when its age reached the cooldown, and then no timer has time left.
CBInv ==
    /\ CBTypeOK
    /\ ClosedBelowThreshold
    /\ NoStrandedProvider
    /\ ClosedIsRoutable
    /\ OldTimersAreDue
    /\ TimersWithinCooldown

USE ConfigAssumption DEF SetHealthy

\* A freshly built registry and router satisfy the invariant.
LEMMA InitInv == CBInit => CBInv
  BY DEF CBInit, CBInv, CBTypeOK, ClosedBelowThreshold, NoStrandedProvider,
         ClosedIsRoutable, OldTimersAreDue, TimersWithinCooldown, Closed, Open, HalfOpen

\* CircuitBreaker.Allow preserves the invariant.
LEMMA AllowInv ==
    ASSUME CBInv, NEW p \in Providers, Allow(p)
    PROVE  CBInv'
  <1> USE DEF CBInv, Closed, Open, HalfOpen
  <1>1. CBTypeOK'
    BY DEF Allow, CBTypeOK
  <1>2. ClosedBelowThreshold' /\ ClosedIsRoutable'
    BY DEF Allow, CBTypeOK, ClosedBelowThreshold, ClosedIsRoutable
  <1>3. NoStrandedProvider' /\ TimersWithinCooldown'
    BY DEF Allow, NoStrandedProvider, TimersWithinCooldown
  <1>4. OldTimersAreDue'
    BY DEF Allow, CBTypeOK, OldTimersAreDue, TimersWithinCooldown
  <1> QED
    BY <1>1, <1>2, <1>3, <1>4

\* CircuitBreaker.RecordSuccess preserves the invariant.
LEMMA RecordSuccessInv ==
    ASSUME CBInv, NEW p \in Providers, RecordSuccess(p)
    PROVE  CBInv'
  <1> USE DEF CBInv, Closed, Open, HalfOpen
  <1>1. CBTypeOK'
    <2>1. CASE state[p] = Closed
      BY <2>1 DEF RecordSuccess, CBTypeOK
    <2>2. CASE state[p] = HalfOpen /\ successes[p] + 1 < SuccessThreshold
      <3>1. successes[p] + 1 \in 0..(SuccessThreshold - 1)
        BY <2>2 DEF CBTypeOK
      <3> QED
        BY <2>2, <3>1 DEF RecordSuccess, CBTypeOK
    <2>3. CASE state[p] = HalfOpen /\ ~(successes[p] + 1 < SuccessThreshold)
      <3>1. 0 \in 0..(SuccessThreshold - 1) /\ 0 \in 0..FailureThreshold
        OBVIOUS
      <3>2. /\ state' = [state EXCEPT ![p] = Closed]
            /\ failures' = [failures EXCEPT ![p] = 0]
            /\ successes' = [successes EXCEPT ![p] = 0]
            /\ healthy' = [healthy EXCEPT ![p] = TRUE]
            /\ UNCHANGED <<sinceFailure, timers>>
        BY <2>3 DEF RecordSuccess
      <3> QED
        BY <3>1, <3>2 DEF CBTypeOK
    <2>4. CASE state[p] = Open
      BY <2>4 DEF RecordSuccess, CBTypeOK, cbVars
    <2> QED
      BY <2>1, <2>2, <2>3, <2>4 DEF CBTypeOK
  <1>2. ClosedBelowThreshold'
    BY DEF RecordSuccess, CBTypeOK, cbVars, ClosedBelowThreshold
  <1>3. NoStrandedProvider' /\ ClosedIsRoutable' /\ OldTimersAreDue' /\ TimersWithinCooldown'
    BY DEF RecordSuccess, CBTypeOK, cbVars, NoStrandedProvider, ClosedIsRoutable,
           OldTimersAreDue, TimersWithinCooldown
  <1> QED
    BY <1>1, <1>2, <1>3

\* CircuitBreaker.RecordFailure preserves the invariant.
LEMMA RecordFailureInv ==
    ASSUME CBInv, NEW p \in Providers, RecordFailure(p)
    PROVE  CBInv'
  <1> USE DEF CBInv, Closed, Open, HalfOpen
  <1>1. CBTypeOK'
    <2>1. state' \in [Providers -> {Closed, Open, HalfOpen}] /\ healthy' \in [Providers -> BOOLEAN]
      BY DEF RecordFailure, TakeOutOfRouting, CBTypeOK
    <2>2. failures' \in [Providers -> 0..FailureThreshold]
      BY DEF RecordFailure, CBTypeOK, ClosedBelowThreshold
    <2>3. successes' \in [Providers -> 0..(SuccessThreshold - 1)]
      BY DEF RecordFailure, CBTypeOK
    <2>4. sinceFailure' \in [Providers -> 0..Cooldown]
      BY DEF RecordFailure, CBTypeOK
    <2>5. timers' \in [Providers -> SUBSET (0..Cooldown)]
      <3>1. timers[p] \union {Cooldown} \in SUBSET (0..Cooldown)
        BY DEF CBTypeOK
      <3> QED
        BY <3>1 DEF RecordFailure, TakeOutOfRouting, CBTypeOK
    <2> QED
      BY <2>1, <2>2, <2>3, <2>4, <2>5 DEF CBTypeOK
  <1>2. ClosedBelowThreshold' /\ ClosedIsRoutable'
    BY DEF RecordFailure, TakeOutOfRouting, CBTypeOK, ClosedBelowThreshold, ClosedIsRoutable
  <1>3. NoStrandedProvider'
    BY DEF RecordFailure, TakeOutOfRouting, CBTypeOK, NoStrandedProvider
  <1>4. TimersWithinCooldown'
    BY DEF RecordFailure, TakeOutOfRouting, CBTypeOK, TimersWithinCooldown
  <1>5. OldTimersAreDue'
    BY DEF RecordFailure, TakeOutOfRouting, CBTypeOK, OldTimersAreDue
  <1> QED
    BY <1>1, <1>2, <1>3, <1>4, <1>5

\* The timer callback of readmitAfterCooldown preserves the invariant.
LEMMA ReadmitInv ==
    ASSUME CBInv, NEW p \in Providers, Readmit(p)
    PROVE  CBInv'
  BY DEF CBInv, Readmit, CBTypeOK, ClosedBelowThreshold, NoStrandedProvider,
         ClosedIsRoutable, OldTimersAreDue, TimersWithinCooldown

\* The passing of time preserves the invariant.
LEMMA TickInv ==
    ASSUME CBInv, Tick
    PROVE  CBInv'
  <1> USE DEF CBInv
  <1>1. CBTypeOK'
    <2>1. ASSUME NEW p \in Providers
          PROVE  {t - 1 : t \in timers[p]} \in SUBSET (0..Cooldown)
      BY DEF Tick, CBTypeOK
    <2> QED
      BY <2>1 DEF Tick, CBTypeOK
  <1>2. ClosedBelowThreshold' /\ ClosedIsRoutable'
    BY DEF Tick, ClosedBelowThreshold, ClosedIsRoutable
  <1>3. NoStrandedProvider'
    BY DEF Tick, NoStrandedProvider
  <1>4. OldTimersAreDue'
    BY DEF Tick, OldTimersAreDue
  <1>5. TimersWithinCooldown'
    BY DEF Tick, CBTypeOK, TimersWithinCooldown
  <1> QED
    BY <1>1, <1>2, <1>3, <1>4, <1>5

\* Every step preserves the invariant.
LEMMA NextInv == CBInv /\ [CBNext]_cbVars => CBInv'
  <1> SUFFICES ASSUME CBInv, [CBNext]_cbVars
               PROVE  CBInv'
    OBVIOUS
  <1>1. CASE Tick
    BY <1>1, TickInv
  <1>2. ASSUME NEW p \in Providers, CBStep(p)
        PROVE  CBInv'
    BY <1>2, AllowInv, RecordSuccessInv, RecordFailureInv, ReadmitInv DEF CBStep
  <1>3. CASE UNCHANGED cbVars
    BY <1>3 DEF cbVars, CBInv, CBTypeOK, ClosedBelowThreshold, NoStrandedProvider,
            ClosedIsRoutable, OldTimersAreDue, TimersWithinCooldown
  <1> QED
    BY <1>1, <1>2, <1>3 DEF CBNext

\* The inductive invariant holds in every reachable state of the breakers.
THEOREM BreakerInvariant == CBSafety => []CBInv
  <1>1. CBInit => CBInv
    BY InitInv
  <1>2. CBInv /\ [CBNext]_cbVars => CBInv'
    BY NextInv
  <1> QED
    BY <1>1, <1>2, PTL DEF CBSafety

\* A provider out of routing always has a readmission timer pending, whatever
\* the thresholds, the cooldown and the order of the callers.
THEOREM NeverStranded == CBSafety => []NoStrandedProvider
  <1>1. CBInv => NoStrandedProvider
    BY DEF CBInv
  <1> QED
    BY <1>1, BreakerInvariant, PTL

\* A circuit that closed again is back in routing.
THEOREM RecoveredIsRoutable == CBSafety => []ClosedIsRoutable
  <1>1. CBInv => ClosedIsRoutable
    BY DEF CBInv
  <1> QED
    BY <1>1, BreakerInvariant, PTL

-----------------------------------------------------------------------------
(* The failover loop *)

InCall == {"call", "backoff", "record"}

\* The invariant of one request's locals.  WorkIsBounded is not inductive by
\* itself: it needs the called providers to be among the excluded ones and the
\* current target (GoodCalls), the excluded ones to be counted by attempt
\* (GoodAttempt), and the retry counter to count the calls to the target.
GoodAttempt(q) ==
    q.pc \in Active =>
        /\ IsFiniteSet(q.excluded)
        /\ Cardinality(q.excluded) = q.attempt - 1
        /\ q.outcome = Pending
        /\ q.pc # "select" => q.target \in Providers \ q.excluded

GoodCalls(q) ==
    /\ q.pc \in {"select", "gate"} => Called(q) \subseteq q.excluded /\ q.retries = 0
    /\ q.pc \in InCall => /\ Called(q) \subseteq q.excluded \union {q.target}
                          /\ q.calls[q.target] = q.retries + 1
    /\ q.pc = "backoff" => q.retries < MaxRetries

GoodErrors(q) ==
    /\ q.pc \in {"select", "gate"} /\ q.lastErr = NoError => Called(q) = {}
    /\ q.outcome = Unavailable => Called(q) = {}

GoodBound(q) ==
    IsFiniteSet(Called(q)) /\ Cardinality(Called(q)) <= MaxAttempts

Good(q) ==
    /\ q \in RequestRecords
    /\ GoodAttempt(q)
    /\ GoodCalls(q)
    /\ GoodErrors(q)
    /\ GoodBound(q)

FInv == req \in [Requests -> RequestRecords] /\ \A r \in Requests : Good(req[r])

USE BoundsAssumption
USE DEF Timeout, Network, NoError, Pending, Success, Unavailable, NilResult

\* The type of each local of a request.
LEMMA FieldTypes ==
    ASSUME NEW q \in RequestRecords
    PROVE  /\ q.pc \in Active \union {"idle", "done"}
           /\ q.attempt \in 1..MaxAttempts
           /\ q.excluded \in SUBSET Providers
           /\ q.target \in Providers \union {NoError}
           /\ q.retries \in 0..MaxRetries
           /\ q.callErr \in Errors \union {NoError}
           /\ q.lastErr \in Errors \union {NoError}
           /\ q.calls \in [Providers -> 0..(MaxRetries + 1)]
  BY DEF RequestRecords

\* A request that starts, or has not started, is good.
LEMMA FreshGood ==
    ASSUME NEW pc \in {"idle", "select", "done"}
    PROVE  Good(FreshRequest(pc))
  <1> DEFINE q == FreshRequest(pc)
  <1>1. q \in RequestRecords
    <2>1. /\ 1 \in 1..MaxAttempts /\ 0 \in 0..MaxRetries
          /\ [p \in Providers |-> 0] \in [Providers -> 0..(MaxRetries + 1)]
      OBVIOUS
    <2>2. pc \in Active \union {"idle", "done"}
      BY DEF Active
    <2> QED
      BY <2>1, <2>2 DEF FreshRequest, RequestRecords
  <1>2. Called(q) = {}
    BY DEF FreshRequest, Called
  <1>3. IsFiniteSet({}) /\ Cardinality({}) = 0
    BY FS_EmptySet
  <1>4. /\ q.pc = pc /\ q.attempt = 1 /\ q.excluded = {} /\ q.retries = 0
        /\ q.outcome = Pending
    BY DEF FreshRequest
  <1>5. GoodAttempt(q)
    BY <1>3, <1>4 DEF GoodAttempt, Active
  <1>6. GoodCalls(q) /\ GoodErrors(q)
    BY <1>2, <1>4 DEF GoodCalls, GoodErrors, InCall
  <1>7. GoodBound(q)
    BY <1>2, <1>3 DEF GoodBound
  <1> QED
    BY <1>1, <1>5, <1>6, <1>7 DEF Good

\* Returning from Execute keeps the history.
LEMMA FinishGood ==
    ASSUME NEW q, Good(q), NEW o \in Errors \union {Success, Unavailable, NilResult},
           o = Unavailable => Called(q) = {}
    PROVE  Good(Finish(q, o))
  <1> DEFINE f == Finish(q, o)
  <1>1. FreshRequest("done") \in RequestRecords /\ q.calls \in [Providers -> 0..(MaxRetries + 1)]
    BY FreshGood, FieldTypes DEF Good
  <1>2. f \in RequestRecords
    BY <1>1 DEF Finish, RequestRecords
  <1>3. f.pc = "done" /\ f.outcome = o /\ f.calls = q.calls
    BY DEF Finish, FreshRequest
  <1>4. Called(f) = Called(q)
    BY <1>3 DEF Called
  <1>5. GoodAttempt(f) /\ GoodCalls(f) /\ GoodErrors(f)
    BY <1>3, <1>4 DEF GoodAttempt, GoodCalls, GoodErrors, InCall, Active
  <1>6. GoodBound(f)
    BY <1>4 DEF Good, GoodBound
  <1> QED
    BY <1>2, <1>5, <1>6 DEF Good

\* The next attempt excludes one more provider.
LEMMA NextAttemptGood ==
    ASSUME NEW q, Good(q), q.pc \in {"gate", "record"},
           q.lastErr = NoError => Called(q) = {}
    PROVE  Good(NextAttempt(q))
  <1> DEFINE n == NextAttempt(q)
  <1>0. q \in RequestRecords
    BY DEF Good
  <1>1. CASE q.attempt < MaxAttempts
    <2>1. /\ q.attempt + 1 \in 1..MaxAttempts /\ 0 \in 0..MaxRetries /\ q.attempt \in Nat
          /\ q.excluded \union {q.target} \in SUBSET Providers
      <3>1. q.attempt \in 1..MaxAttempts /\ q.excluded \in SUBSET Providers
        BY <1>0, FieldTypes
      <3>2. q.target \in Providers
        BY DEF Good, GoodAttempt, Active
      <3> QED
        BY <1>1, <3>1, <3>2
    <2>2. n = [q EXCEPT !.pc = "select", !.attempt = @ + 1,
                        !.excluded = @ \union {q.target}, !.target = NoError,
                        !.retries = 0, !.callErr = NoError]
      BY <1>1 DEF NextAttempt
    <2>3. n \in RequestRecords
      <3> DEFINE m == [q EXCEPT !.pc = "select", !.attempt = @ + 1, !.retries = 0]
      <3>1. m \in RequestRecords /\ m.excluded = q.excluded
        BY <1>0, <2>1 DEF RequestRecords, Active
      <3>2. n = [m EXCEPT !.excluded = @ \union {q.target}, !.target = NoError,
                          !.callErr = NoError]
        BY <1>0, <2>2 DEF RequestRecords
      <3> HIDE DEF m
      <3> QED
        BY <2>1, <3>1, <3>2 DEF RequestRecords
    <2>4. /\ n.pc = "select" /\ n.attempt = q.attempt + 1 /\ n.retries = 0
          /\ n.excluded = q.excluded \union {q.target}
          /\ n.lastErr = q.lastErr /\ n.calls = q.calls /\ n.outcome = q.outcome
      BY <1>0, <2>2 DEF RequestRecords
    <2>5. Called(n) = Called(q)
      BY <2>4 DEF Called
    <2>6. GoodAttempt(n)
      <3>1. /\ IsFiniteSet(q.excluded) /\ q.target \notin q.excluded
            /\ Cardinality(q.excluded) = q.attempt - 1 /\ q.outcome = Pending
        BY DEF Good, GoodAttempt, Active
      <3>2. /\ IsFiniteSet(q.excluded \union {q.target})
            /\ Cardinality(q.excluded \union {q.target}) = Cardinality(q.excluded) + 1
        BY <3>1, FS_AddElement
      <3>3. Cardinality(n.excluded) = n.attempt - 1
        BY <2>1, <2>4, <3>1, <3>2
      <3> QED
        BY <2>4, <3>1, <3>2, <3>3 DEF GoodAttempt
    <2>7. GoodCalls(n)
      BY <2>4, <2>5 DEF Good, GoodCalls, InCall
    <2>8. GoodErrors(n) /\ GoodBound(n)
      BY <2>4, <2>5 DEF Good, GoodErrors, GoodBound
    <2> QED
      BY <2>3, <2>6, <2>7, <2>8 DEF Good
  <1>2. CASE ~(q.attempt < MaxAttempts)
    <2> DEFINE o == IF q.lastErr = NoError THEN NilResult ELSE q.lastErr
    <2>1. q.lastErr \in Errors \union {NoError}
      BY <1>0, FieldTypes
    <2>2. o \in Errors \union {Success, Unavailable, NilResult} /\ o # Unavailable
      BY <2>1, StatusAssumption DEF Errors
    <2>3. n = Finish(q, o)
      BY <1>2 DEF NextAttempt
    <2> HIDE DEF o
    <2> QED
      BY <2>2, <2>3, FinishGood
  <1> QED
    BY <1>1, <1>2

\* An upstream call begins: either the target's first, or a counted retry.
LEMMA BeginCallGood ==
    ASSUME NEW q \in RequestRecords, GoodAttempt(q),
           q.pc \in Active \ {"select"},
           Called(q) \subseteq q.excluded \union {q.target},
           q.calls[q.target] = q.retries
    PROVE  Good(BeginCall(q))
  <1> DEFINE b == BeginCall(q)
  <1>1. /\ q.target \in Providers \ q.excluded /\ q.outcome = Pending
        /\ IsFiniteSet(q.excluded) /\ Cardinality(q.excluded) = q.attempt - 1
    BY DEF GoodAttempt
  <1>2. /\ q.retries \in 0..MaxRetries /\ q.retries + 1 \in 0..(MaxRetries + 1)
        /\ q.calls \in [Providers -> 0..(MaxRetries + 1)]
        /\ q.attempt \in 1..MaxAttempts
    BY FieldTypes
  <1>3. b = [q EXCEPT !.pc = "call", !.calls = [q.calls EXCEPT ![q.target] = q.retries + 1]]
    BY DEF BeginCall
  <1>4. b \in RequestRecords
    <2>1. [q.calls EXCEPT ![q.target] = q.retries + 1] \in [Providers -> 0..(MaxRetries + 1)]
      BY <1>1, <1>2
    <2> QED
      BY <1>3, <2>1 DEF RequestRecords, Active
  <1>5. /\ b.pc = "call" /\ b.target = q.target /\ b.retries = q.retries
        /\ b.attempt = q.attempt /\ b.excluded = q.excluded /\ b.outcome = q.outcome
        /\ b.calls = [q.calls EXCEPT ![q.target] = q.retries + 1]
    BY <1>3 DEF RequestRecords
  <1> HIDE DEF b
  <1>6. Called(b) = Called(q) \union {q.target} /\ b.calls[q.target] = q.retries + 1
    BY <1>1, <1>2, <1>5 DEF Called
  <1>7. GoodAttempt(b)
    BY <1>1, <1>5 DEF GoodAttempt, Active
  <1>8. GoodCalls(b)
    BY <1>5, <1>6 DEF GoodCalls, InCall
  <1>9. GoodErrors(b)
    BY <1>1, <1>5 DEF GoodErrors
  <1>10. GoodBound(b)
    <2> DEFINE E == q.excluded \union {q.target}
    <2>1. IsFiniteSet(E) /\ Cardinality(E) = Cardinality(q.excluded) + 1
      BY <1>1, FS_AddElement
    <2>2. Called(b) \subseteq E
      BY <1>6
    <2>3. IsFiniteSet(Called(b)) /\ Cardinality(Called(b)) <= Cardinality(E)
      BY <2>1, <2>2, FS_Subset
    <2>4. Cardinality(Called(b)) \in Nat
      BY <2>3, FS_CardinalityType
    <2>5. Cardinality(E) = q.attempt
      BY <1>1, <1>2, <2>1
    <2> QED
      BY <1>2, <2>3, <2>4, <2>5 DEF GoodBound
  <1> QED
    BY <1>4, <1>7, <1>8, <1>9, <1>10 DEF Good, b

-----------------------------------------------------------------------------
(* The actions *)

\* A step that only replaces the locals of r by good ones keeps the invariant.
LEMMA UpdateInv ==
    ASSUME FInv, NEW r \in Requests, NEW x, Good(x), req' = [req EXCEPT ![r] = x]
    PROVE  FInv'
  <1>1. x \in RequestRecords
    BY DEF Good
  <1>2. req' \in [Requests -> RequestRecords]
    BY <1>1 DEF FInv
  <1>3. ASSUME NEW s \in Requests
        PROVE  Good(req'[s])
    BY DEF FInv
  <1> QED
    BY <1>2, <1>3 DEF FInv

\* Start preserves the invariant.
LEMMA StartInv ==
    ASSUME FInv, NEW r \in Requests, Start(r)
    PROVE  FInv'
  BY FreshGood, UpdateInv DEF Start

\* Select preserves the invariant.
LEMMA SelectInv ==
    ASSUME FInv, NEW r \in Requests, Select(r)
    PROVE  FInv'
  <1> DEFINE q == req[r]
  <1>1. Good(q) /\ q \in RequestRecords /\ q.pc = "select"
    BY DEF FInv, Good, Select
  <1>2. ASSUME NEW p \in Candidates(q), req' = [req EXCEPT ![r] = TryTarget(r, p)]
        PROVE  FInv'
    <2> DEFINE t == [q EXCEPT !.target = p]
               g == [t EXCEPT !.pc = "gate"]
    <2>1. p \in Providers \ q.excluded
      BY <1>2 DEF Candidates
    <2>2. t \in RequestRecords /\ g \in RequestRecords
      BY <1>1, <2>1 DEF RequestRecords, Active
    <2>3. /\ g.pc = "gate" /\ g.target = p /\ g.attempt = q.attempt
          /\ g.excluded = q.excluded /\ g.calls = q.calls /\ g.outcome = q.outcome
          /\ g.retries = q.retries /\ g.lastErr = q.lastErr
      BY <1>1 DEF RequestRecords
    <2> HIDE DEF g
    <2>4. Called(g) = Called(q) /\ Called(q) \subseteq q.excluded /\ q.retries = 0
      BY <1>1, <2>3 DEF Called, Good, GoodCalls
    <2>5. Good(g)
      <3>1. GoodAttempt(g)
        BY <1>1, <2>1, <2>3 DEF Good, GoodAttempt, Active
      <3>2. GoodCalls(g) /\ GoodErrors(g) /\ GoodBound(g)
        BY <1>1, <2>3, <2>4 DEF Good, GoodCalls, GoodErrors, GoodBound, InCall
      <3> QED
        BY <2>2, <3>1, <3>2 DEF Good
    <2>6. g.calls[g.target] = g.retries
      <3>1. q.calls \in [Providers -> 0..(MaxRetries + 1)] /\ p \notin Called(q)
        BY <1>1, <2>1, <2>4, FieldTypes
      <3> QED
        BY <2>1, <2>3, <2>4, <3>1 DEF Called
    <2>7. Good(BeginCall(g))
      BY <2>2, <2>3, <2>4, <2>5, <2>6, BeginCallGood DEF Good, Active
    <2>8. BeginCall(t) = BeginCall(g)
      BY <1>1, <2>2 DEF BeginCall, g, RequestRecords
    <2>9. Good(TryTarget(r, p))
      BY <2>5, <2>7, <2>8 DEF TryTarget, g
    <2> QED
      BY <1>2, <2>9, UpdateInv
  <1>3. CASE req' = [req EXCEPT ![r] =
               Finish(q, IF q.lastErr = NoError THEN Unavailable ELSE q.lastErr)]
    <2> DEFINE o == IF q.lastErr = NoError THEN Unavailable ELSE q.lastErr
    <2>1. q.lastErr \in Errors \union {NoError}
      BY <1>1, FieldTypes
    <2>2. o \in Errors \union {Success, Unavailable, NilResult}
      BY <2>1
    <2>3. o = Unavailable => Called(q) = {}
      BY <1>1, <2>1, StatusAssumption DEF Good, GoodErrors, Errors
    <2>4. Good(Finish(q, o))
      BY <1>1, <2>2, <2>3, FinishGood
    <2> QED
      BY <1>3, <2>4, UpdateInv
  <1> QED
    BY <1>2, <1>3 DEF Select

\* Gate preserves the invariant.
LEMMA GateInv ==
    ASSUME FInv, NEW r \in Requests, Gate(r)
    PROVE  FInv'
  <1> DEFINE q == req[r]
  <1>1. Good(q) /\ q \in RequestRecords /\ q.pc = "gate"
    BY DEF FInv, Good, Gate
  <1>2. Good(NextAttempt(q))
    BY <1>1, NextAttemptGood DEF Good, GoodErrors
  <1>3. Good(BeginCall(q))
    <2>1. q.target \in Providers \ q.excluded /\ Called(q) \subseteq q.excluded /\ q.retries = 0
      BY <1>1 DEF Good, GoodAttempt, GoodCalls, Active
    <2>2. q.calls[q.target] = q.retries
      <3>1. q.calls \in [Providers -> 0..(MaxRetries + 1)] /\ q.target \notin Called(q)
        BY <1>1, <2>1, FieldTypes
      <3> QED
        BY <2>1, <3>1 DEF Called
    <2> QED
      BY <1>1, <2>1, <2>2, BeginCallGood DEF Good, Active
  <1> QED
    BY <1>2, <1>3, UpdateInv DEF Gate

\* A change of the fields no conjunct of Good mentions, or of pc within a call.
LEMMA WithinCallGood ==
    ASSUME NEW q, Good(q), NEW x \in RequestRecords,
           q.pc \in Active, x.pc = q.pc \/ (q.pc \in {"call", "backoff"} /\ x.pc \in InCall),
           x.pc = "backoff" => x.retries < MaxRetries,
           x.attempt = q.attempt, x.excluded = q.excluded, x.target = q.target,
           x.retries = q.retries, x.lastErr = q.lastErr, x.calls = q.calls,
           x.outcome = q.outcome
    PROVE  Good(x)
  <1>1. Called(x) = Called(q)
    BY DEF Called
  <1>2. GoodAttempt(x)
    BY DEF Good, GoodAttempt, Active, InCall
  <1>3. GoodCalls(x)
    BY <1>1 DEF Good, GoodCalls, InCall
  <1>4. GoodErrors(x) /\ GoodBound(x)
    BY <1>1 DEF Good, GoodErrors, GoodBound, InCall
  <1> QED
    BY <1>2, <1>3, <1>4 DEF Good

\* The end of an upstream call preserves the invariant.
LEMMA CallReturnsInv ==
    ASSUME FInv, NEW r \in Requests, CallReturns(r)
    PROVE  FInv'
  <1> DEFINE q == req[r]
  <1>1. Good(q) /\ q \in RequestRecords /\ q.pc = "call"
    BY DEF FInv, Good, CallReturns
  <1>2. PICK e \in Errors \union {NoError}, c \in {"backoff", "record"} :
           /\ c = "backoff" => q.retries < MaxRetries
           /\ req' = [req EXCEPT ![r] = [q EXCEPT !.callErr = e, !.pc = c]]
    BY DEF CallReturns, FInv
  <1> DEFINE x == [q EXCEPT !.callErr = e, !.pc = c]
  <1>3. /\ x \in RequestRecords /\ x.pc = c
        /\ x.attempt = q.attempt /\ x.excluded = q.excluded /\ x.target = q.target
        /\ x.retries = q.retries /\ x.lastErr = q.lastErr /\ x.calls = q.calls
        /\ x.outcome = q.outcome
    BY <1>1 DEF RequestRecords, Active
  <1> HIDE DEF x
  <1>4. Good(x)
    BY <1>1, <1>2, <1>3, WithinCallGood DEF InCall, Active
  <1> QED
    BY <1>2, <1>4, UpdateInv DEF x

\* A retry preserves the invariant.
LEMMA RetryInv ==
    ASSUME FInv, NEW r \in Requests, Retry(r)
    PROVE  FInv'
  <1> DEFINE q == req[r]
             x == [q EXCEPT !.retries = @ + 1]
  <1>1. Good(q) /\ q \in RequestRecords /\ q.pc = "backoff"
    BY DEF FInv, Good, Retry
  <1>2. q.retries \in 0..MaxRetries /\ q.retries + 1 \in 0..MaxRetries
    <2>1. q.retries \in 0..MaxRetries /\ q.retries < MaxRetries
      BY <1>1, FieldTypes DEF Good, GoodCalls
    <2> QED
      BY <2>1
  <1>3. /\ x \in RequestRecords /\ x.pc = q.pc /\ x.retries = q.retries + 1
        /\ x.attempt = q.attempt /\ x.excluded = q.excluded /\ x.target = q.target
        /\ x.calls = q.calls /\ x.outcome = q.outcome
    BY <1>1, <1>2 DEF RequestRecords
  <1> HIDE DEF x
  <1>4. GoodAttempt(x)
    BY <1>1, <1>3 DEF Good, GoodAttempt, Active
  <1>5. Called(x) \subseteq x.excluded \union {x.target} /\ x.calls[x.target] = x.retries
    BY <1>1, <1>3 DEF Good, GoodCalls, InCall, Called
  <1>6. Good(BeginCall(x))
    BY <1>1, <1>3, <1>4, <1>5, BeginCallGood DEF Active
  <1> QED
    BY <1>6, UpdateInv DEF Retry, x

\* Giving up the retries preserves the invariant.
LEMMA AbandonRetryInv ==
    ASSUME FInv, NEW r \in Requests, AbandonRetry(r)
    PROVE  FInv'
  <1> DEFINE q == req[r]
             x == [q EXCEPT !.pc = "record"]
  <1>1. Good(q) /\ q \in RequestRecords /\ q.pc = "backoff"
    BY DEF FInv, Good, AbandonRetry
  <1>2. req' = [req EXCEPT ![r] = x]
    BY DEF AbandonRetry
  <1>3. /\ x \in RequestRecords /\ x.pc = "record"
        /\ x.attempt = q.attempt /\ x.excluded = q.excluded /\ x.target = q.target
        /\ x.retries = q.retries /\ x.lastErr = q.lastErr /\ x.calls = q.calls
        /\ x.outcome = q.outcome
    BY <1>1 DEF RequestRecords, Active
  <1> HIDE DEF x
  <1>4. Good(x)
    BY <1>1, <1>3, WithinCallGood DEF InCall, Active
  <1> QED
    BY <1>2, <1>4, UpdateInv

\* A cancelled context preserves the invariant.
LEMMA ClientGoneInv ==
    ASSUME FInv, NEW r \in Requests, ClientGone(r)
    PROVE  FInv'
  <1> DEFINE q == req[r]
             x == [q EXCEPT !.cancelled = TRUE]
  <1>1. Good(q) /\ q \in RequestRecords /\ q.pc \in Active
    BY DEF FInv, Good, ClientGone
  <1>2. req' = [req EXCEPT ![r] = x]
    BY DEF ClientGone
  <1>3. /\ x \in RequestRecords /\ x.pc = q.pc
        /\ x.attempt = q.attempt /\ x.excluded = q.excluded /\ x.target = q.target
        /\ x.retries = q.retries /\ x.lastErr = q.lastErr /\ x.calls = q.calls
        /\ x.outcome = q.outcome
    BY <1>1 DEF RequestRecords
  <1> HIDE DEF x
  <1>4. x.pc = "backoff" => x.retries < MaxRetries
    BY <1>1, <1>3 DEF Good, GoodCalls
  <1>5. Good(x)
    BY <1>1, <1>3, <1>4, WithinCallGood
  <1> QED
    BY <1>2, <1>5, UpdateInv

\* Recording an attempt's result preserves the invariant.
LEMMA RecordInv ==
    ASSUME FInv, NEW r \in Requests, Record(r)
    PROVE  FInv'
  <1> DEFINE q == req[r]
             x == [q EXCEPT !.lastErr = q.callErr]
  <1>1. Good(q) /\ q \in RequestRecords /\ q.pc = "record"
    BY DEF FInv, Good, Record
  <1>2. CASE req' = [req EXCEPT ![r] = Finish(q, Success)]
    <2>1. Good(Finish(q, Success))
      BY <1>1, FinishGood
    <2> QED
      BY <1>2, <2>1, UpdateInv
  <1>3. CASE q.callErr # NoError /\ req' = [req EXCEPT ![r] = AfterFailure(q)]
    <2>1. q.callErr \in Errors /\ q.callErr # Unavailable
      BY <1>1, <1>3, FieldTypes, StatusAssumption DEF Errors
    <2>2. Good(Finish(q, q.callErr))
      BY <1>1, <2>1, FinishGood
    <2>3. /\ x \in RequestRecords /\ x.pc = q.pc /\ x.lastErr = q.callErr
          /\ x.attempt = q.attempt /\ x.excluded = q.excluded /\ x.target = q.target
          /\ x.retries = q.retries /\ x.calls = q.calls /\ x.outcome = q.outcome
      BY <1>1, <2>1 DEF RequestRecords
    <2>4. Good(x)
      <3> HIDE DEF x
      <3>1. Called(x) = Called(q)
        BY <2>3 DEF Called
      <3>2. GoodAttempt(x)
        BY <1>1, <2>3 DEF Good, GoodAttempt
      <3>3. GoodCalls(x) /\ GoodErrors(x) /\ GoodBound(x)
        BY <1>1, <2>3, <3>1 DEF Good, GoodCalls, GoodErrors, GoodBound
      <3> QED
        BY <2>3, <3>2, <3>3 DEF Good
    <2>5. Good(NextAttempt(x))
      BY <1>1, <1>3, <2>3, <2>4, NextAttemptGood
    <2>6. Good(AfterFailure(q))
      BY <2>2, <2>5 DEF AfterFailure
    <2> QED
      BY <1>3, <2>6, UpdateInv
  <1> QED
    BY <1>2, <1>3 DEF Record

\* Every step of the gateway preserves the invariant.
LEMMA FNextInv == FInv /\ [Next]_vars => FInv'
  <1> SUFFICES ASSUME FInv, [Next]_vars
               PROVE  FInv'
    OBVIOUS
  <1>1. ASSUME NEW r \in Requests, Start(r) \/ Step(r) \/ ClientGone(r)
        PROVE  FInv'
    BY <1>1, StartInv, SelectInv, GateInv, CallReturnsInv, RetryInv, AbandonRetryInv,
       RecordInv, ClientGoneInv DEF Step
  <1>2. CASE UNCHANGED req
    BY <1>2 DEF FInv
  <1> QED
    BY <1>1, <1>2 DEF Next, vars

\* The invariant of the failover loop.
THEOREM FailoverInvariant == Safety => []FInv
  <1>1. Init => FInv
    <2> SUFFICES ASSUME Init PROVE FInv
      OBVIOUS
    <2>1. Good(FreshRequest("idle")) /\ FreshRequest("idle") \in RequestRecords
      BY FreshGood DEF Good
    <2> QED
      BY <2>1 DEF Init, FInv
  <1>2. FInv /\ [Next]_vars => FInv'
    BY FNextInv
  <1> QED
    BY <1>1, <1>2, PTL DEF Safety

\* One request calls at most MaxAttempts providers, each at most 1 + MaxRetries
\* times, for every configuration of retryer, failover and breakers.
THEOREM UpstreamWorkIsBounded == Safety => []WorkIsBounded
  <1>1. FInv => WorkIsBounded
    <2> SUFFICES ASSUME FInv, NEW r \in Requests
                 PROVE  /\ Cardinality(Called(req[r])) <= MaxAttempts
                        /\ \A p \in Providers : req[r].calls[p] <= MaxRetries + 1
      BY DEF WorkIsBounded
    <2>1. Good(req[r]) /\ req[r].calls \in [Providers -> 0..(MaxRetries + 1)]
      BY FieldTypes DEF FInv
    <2> QED
      BY <2>1 DEF Good, GoodBound
  <1> QED
    BY <1>1, FailoverInvariant, PTL

\* The attempts of one request go to distinct providers.
THEOREM DistinctAttempts == Safety => []AttemptsAreDistinct
  <1>1. FInv => AttemptsAreDistinct
    BY DEF FInv, Good, GoodAttempt, AttemptsAreDistinct
  <1> QED
    BY <1>1, FailoverInvariant, PTL

\* The router's "unavailable" never replaces the error of a provider that was
\* called.
THEOREM ErrorNotHidden == Safety => []ProviderErrorNotHidden
  <1>1. FInv => ProviderErrorNotHidden
    BY DEF FInv, Good, GoodErrors, ProviderErrorNotHidden
  <1> QED
    BY <1>1, FailoverInvariant, PTL

-----------------------------------------------------------------------------
(* The loop implements the breakers' specification *)

\* A step of a request is a step of one breaker or leaves them all alone.
LEMMA StepIsBreakerStep == FInv /\ [Next]_vars => [CBNext]_cbVars
  <1> SUFFICES ASSUME FInv, [Next]_vars
               PROVE  [CBNext]_cbVars
    OBVIOUS
  <1>1. ASSUME NEW r \in Requests, Gate(r) \/ Record(r)
        PROVE  [CBNext]_cbVars
    <2>1. req[r].target \in Providers
      BY <1>1 DEF FInv, Good, GoodAttempt, Active, Gate, Record
    <2> QED
      BY <1>1, <2>1 DEF Gate, Record, CBNext, CBStep
  <1>2. ASSUME NEW r \in Requests, Start(r) \/ Step(r) \/ ClientGone(r)
        PROVE  [CBNext]_cbVars
    BY <1>1, <1>2 DEF Start, Step, Select, CallReturns, Retry, AbandonRetry, ClientGone
  <1>3. CASE Tick \/ \E p \in Providers : Readmit(p)
    BY <1>3 DEF CBNext, CBStep
  <1> QED
    BY <1>2, <1>3 DEF Next, vars

\* The gateway's failover loop uses the breakers only as CBSafety allows.
THEOREM FailoverImplementsBreakers == Safety => CBSafety
  <1>1. Init => CBInit
    BY DEF Init
  <1>2. FInv /\ [Next]_vars => [CBNext]_cbVars
    BY StepIsBreakerStep
  <1> QED
    BY <1>1, <1>2, FailoverInvariant, PTL DEF Safety, CBSafety

\* Hence the breakers' guarantees hold in the running gateway: a provider out
\* of routing always has a readmission timer pending.
THEOREM GatewayNeverStrands == Safety => []NoStrandedProvider
  BY FailoverImplementsBreakers, NeverStranded, PTL

=============================================================================
