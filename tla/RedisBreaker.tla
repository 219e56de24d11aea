---------------------------- MODULE RedisBreaker ----------------------------
(***************************************************************************)
(* The lock-free circuit breaker of the gateway's Redis client             *)
(* (redisstate/client.go) and the way the Redis-backed stores use it.      *)
(*                                                                         *)
(* The breaker has no mutex: every atomic load, store, add and             *)
(* compare-and-swap is a step of its own.  A Redis operation asks allow()  *)
(* once in Client.Do, and most stores ask once or twice more before, with  *)
(* Client.Available (credits.go, budget.go, ratelimit.go, cluster.go);     *)
(* license.go, revocation.go and run_charges.go call Do only.              *)
(*                                                                         *)
(* openedAt is kept as its age in ticks, saturated at Cooldown.  The       *)
(* compare-and-swap against a loaded openedAt succeeds when nothing was    *)
(* written to it since; that is what local[g].current records.             *)
(***************************************************************************)
EXTENDS Integers

CONSTANTS
    Goroutines,
    Checks,      \* how often each goroutine asks allow() before its operation
    Threshold,   \* threshold of newCircuitBreaker
    Cooldown     \* cooldown of newCircuitBreaker, in ticks

ASSUME BreakerAssumption == Threshold \in Nat \ {0} /\ Cooldown \in Nat \ {0}

ASSUME ChecksAssumption == Checks \in [Goroutines -> Nat \ {0}]

Unset == -1   \* openedAt = 0 in the code

VARIABLES
    failures,    \* cb.failures, saturated at Threshold + 1
    openedAt,    \* cb.openedAt
    local,       \* each goroutine's place in the code
    up,          \* environment: Redis answers
    sinceProbe   \* history: ticks since a probe was let through

vars == <<failures, openedAt, local, up, sinceProbe>>

Idle == [pc |-> "idle", left |-> 0, current |-> FALSE]

Init ==
    /\ failures = 0
    /\ openedAt = Unset
    /\ local = [g \in Goroutines |-> Idle]
    /\ up = TRUE
    /\ sinceProbe = Cooldown

-----------------------------------------------------------------------------

\* A write of openedAt by g, whose place becomes q: every value another
\* goroutine has loaded is stale from now on.
WriteOpenedAt(g, v, q) ==
    /\ openedAt' = v
    /\ local' = [h \in Goroutines |->
                    IF h = g THEN q ELSE [local[h] EXCEPT !.current = FALSE]]

Goto(g, l) == local' = [local EXCEPT ![g].pc = l]

\* allow() returned true: the next check, or the operation itself.
Passed(g) ==
    [pc |-> IF local[g].left > 1 THEN "loadFailures" ELSE "fn",
     left |-> local[g].left - 1, current |-> FALSE]

\* A caller begins a Redis operation.
Begin(g) ==
    /\ local[g].pc = "idle"
    /\ local' = [local EXCEPT ![g] =
          [pc |-> "loadFailures", left |-> Checks[g], current |-> FALSE]]
    /\ UNCHANGED <<failures, openedAt, up, sinceProbe>>

-----------------------------------------------------------------------------
(* circuitBreaker.allow *)

LoadFailures(g) ==
    /\ local[g].pc = "loadFailures"
    /\ IF failures < Threshold
         THEN local' = [local EXCEPT ![g] = Passed(g)]
         ELSE Goto(g, "loadOpened")
    /\ UNCHANGED <<failures, openedAt, up, sinceProbe>>

\* openedAt is loaded and its age compared with the cooldown.
LoadOpened(g) ==
    /\ local[g].pc = "loadOpened"
    /\ \/ openedAt = Unset /\ Goto(g, "casUnset")
       \/ /\ openedAt >= Cooldown
          /\ local' = [local EXCEPT ![g].pc = "casProbe", ![g].current = TRUE]
       \/ /\ openedAt # Unset /\ openedAt < Cooldown
          /\ local' = [local EXCEPT ![g] = Idle]
    /\ UNCHANGED <<failures, openedAt, up, sinceProbe>>

\* The circuit opened and openedAt is not written yet: write it, refuse.
CasUnset(g) ==
    /\ local[g].pc = "casUnset"
    /\ IF openedAt = Unset
         THEN WriteOpenedAt(g, 0, Idle)
         ELSE local' = [local EXCEPT ![g] = Idle] /\ UNCHANGED openedAt
    /\ UNCHANGED <<failures, up, sinceProbe>>

\* Mutant: openedAt is stored without comparing it with the loaded value.
StoreProbe(g) ==
    /\ local[g].pc = "casProbe"
    /\ openedAt' = 0
    /\ local' = [local EXCEPT ![g] = Passed(g)]
    /\ sinceProbe' = 0
    /\ UNCHANGED <<failures, up>>

\* "Half-open: allow exactly ONE probe using CAS."
CasProbe(g) ==
    /\ local[g].pc = "casProbe"
    /\ IF local[g].current
         THEN WriteOpenedAt(g, 0, Passed(g)) /\ sinceProbe' = 0
         ELSE /\ local' = [local EXCEPT ![g] = Idle]
              /\ UNCHANGED <<openedAt, sinceProbe>>
    /\ UNCHANGED <<failures, up>>

-----------------------------------------------------------------------------
(* Client.Do: the operation and the recording of its result *)

Fn(g) ==
    /\ local[g].pc = "fn"
    /\ Goto(g, IF up THEN "successLoad" ELSE "failureAdd")
    /\ UNCHANGED <<failures, openedAt, up, sinceProbe>>

\* recordSuccess
SuccessLoad(g) ==
    /\ local[g].pc = "successLoad"
    /\ IF failures > 0 THEN Goto(g, "storeFailures") ELSE local' = [local EXCEPT ![g] = Idle]
    /\ UNCHANGED <<failures, openedAt, up, sinceProbe>>

\* Mutant: recordSuccess forgets to reset the counter.
StoreFailuresLost(g) ==
    /\ local[g].pc = "storeFailures"
    /\ Goto(g, "clearOpened")
    /\ UNCHANGED <<failures, openedAt, up, sinceProbe>>

StoreFailures(g) ==
    /\ local[g].pc = "storeFailures"
    /\ failures' = 0
    /\ Goto(g, "clearOpened")
    /\ UNCHANGED <<openedAt, up, sinceProbe>>

ClearOpened(g) ==
    /\ local[g].pc = "clearOpened"
    /\ WriteOpenedAt(g, Unset, Idle)
    /\ UNCHANGED <<failures, up, sinceProbe>>

\* recordFailure
FailureAdd(g) ==
    /\ local[g].pc = "failureAdd"
    /\ failures' = IF failures > Threshold THEN failures ELSE failures + 1
    /\ IF failures + 1 = Threshold THEN Goto(g, "storeOpened")
                                   ELSE local' = [local EXCEPT ![g] = Idle]
    /\ UNCHANGED <<openedAt, up, sinceProbe>>

StoreOpened(g) ==
    /\ local[g].pc = "storeOpened"
    /\ WriteOpenedAt(g, 0, Idle)
    /\ UNCHANGED <<failures, up, sinceProbe>>

-----------------------------------------------------------------------------

\* Redis goes down or comes back; time passes.
Outage ==
    /\ up' = ~up
    /\ UNCHANGED <<failures, openedAt, local, sinceProbe>>

Older(age) == IF age < Cooldown THEN age + 1 ELSE age

Tick ==
    /\ openedAt' = IF openedAt = Unset THEN Unset ELSE Older(openedAt)
    /\ sinceProbe' = Older(sinceProbe)
    /\ UNCHANGED <<failures, local, up>>

Step(g) ==
    \/ LoadFailures(g) \/ LoadOpened(g) \/ CasUnset(g) \/ CasProbe(g) \/ Fn(g)
    \/ SuccessLoad(g) \/ StoreFailures(g) \/ ClearOpened(g)
    \/ FailureAdd(g) \/ StoreOpened(g)

Next == Outage \/ Tick \/ \E g \in Goroutines : Begin(g) \/ Step(g)

\* Traffic keeps coming, goroutines run, time passes.
Fairness ==
    /\ WF_vars(Tick)
    /\ \A g \in Goroutines : WF_vars(Begin(g)) /\ WF_vars(Step(g))

Safety == Init /\ [][Next]_vars

Spec == Safety /\ Fairness

-----------------------------------------------------------------------------
(* Properties *)

Places == {"idle", "loadFailures", "loadOpened", "casUnset", "casProbe", "fn",
           "successLoad", "storeFailures", "clearOpened", "failureAdd", "storeOpened"}

\* The values of the breaker's fields and of the callers' places.
TypeOK ==
    /\ failures \in 0..(Threshold + 1)
    /\ openedAt \in {Unset} \union 0..Cooldown
    /\ local \in [Goroutines -> [pc : Places, left : Nat, current : BOOLEAN]]
    /\ up \in BOOLEAN
    /\ sinceProbe \in 0..Cooldown

\* "allow exactly ONE probe": whoever is about to win the compare-and-swap
\* does so at least a cooldown after the previous probe, however loads, swaps,
\* resets and late openings of other goroutines interleave.
OneProbePerCooldown ==
    \A g \in Goroutines :
        local[g].pc = "casProbe" /\ local[g].current => sinceProbe >= Cooldown

\* What makes OneProbePerCooldown inductive: the circuit is never open for
\* longer than the time since the last probe, a value of openedAt that can
\* still win the compare-and-swap is due, and inside allow() a check is owed.
RBInv ==
    /\ TypeOK
    /\ openedAt # Unset => openedAt <= sinceProbe
    /\ \A g \in Goroutines :
          /\ local[g].pc = "casProbe" /\ local[g].current => openedAt >= Cooldown
          /\ local[g].pc \in {"loadFailures", "loadOpened", "casUnset", "casProbe"}
                => local[g].left > 0

\* Once Redis stays up the circuit closes again and again: no interleaving of
\* late failures, resets and probes leaves it open for good.
RecoversAfterOutage == <>[]up => []<>(failures < Threshold)

=============================================================================
