------------------------ MODULE RedisBreakerProofs ------------------------
(* Proofs about the breaker of the Redis client, for every number of        *)
(* goroutines, of checks before an operation, every threshold and cooldown. *)
EXTENDS RedisBreaker, TLAPS

Locals == [pc : Places, left : Nat, current : BOOLEAN]

Local(l) ==
    /\ l \in Locals
    /\ l.pc = "casProbe" /\ l.current => openedAt' >= Cooldown
    /\ l.pc \in {"loadFailures", "loadOpened", "casUnset", "casProbe"} => l.left > 0

\* RBInv holds when the breaker is created (newCircuitBreaker).
LEMMA RBInvInit == Init => RBInv
<1> SUFFICES ASSUME Init PROVE RBInv
  OBVIOUS
<1>1. Idle \in Locals
  BY DEF Idle, Locals, Places
<1>2. TypeOK
  BY <1>1, BreakerAssumption DEF Init, TypeOK, Unset, Locals
<1> QED
  BY <1>2, BreakerAssumption DEF Init, RBInv, Idle, Unset

\* An idle goroutine's place satisfies the invariant whatever openedAt is.
LEMMA IdleIsLocal == Local(Idle)
  BY DEF Local, Locals, Idle, Places

\* Moving one goroutine to a good place keeps the invariant when openedAt and
\* sinceProbe keep theirs.
LEMMA MoveOne ==
  ASSUME RBInv, NEW g \in Goroutines, NEW l, Local(l),
         local' = [local EXCEPT ![g] = l],
         openedAt' = openedAt, sinceProbe' = sinceProbe,
         failures' \in 0..(Threshold + 1), up' \in BOOLEAN
  PROVE  RBInv'
<1>1. local' \in [Goroutines -> Locals]
  BY DEF RBInv, TypeOK, Local, Locals
<1>2. TypeOK'
  BY <1>1 DEF RBInv, TypeOK, Locals
<1>3. openedAt' # Unset => openedAt' <= sinceProbe'
  BY DEF RBInv
<1>4. ASSUME NEW h \in Goroutines PROVE Local(local'[h])
  <2>1. CASE h = g
    BY <2>1 DEF RBInv, TypeOK
  <2>2. CASE h # g
    <3>1. local'[h] = local[h] /\ local[h] \in Locals
      BY <2>2 DEF RBInv, TypeOK, Locals
    <3> QED BY <3>1 DEF Local, RBInv
  <2> QED BY <2>1, <2>2
<1> QED
  BY <1>2, <1>3, <1>4 DEF RBInv, Local

\* A write of openedAt makes every loaded value stale, so no one keeps a claim
\* on the probe.
LEMMA WriteKeeps ==
  ASSUME RBInv, NEW g \in Goroutines, NEW v \in {Unset, 0}, NEW l \in Locals,
         l.pc # "casProbe", l.pc \in {"loadFailures", "loadOpened", "casUnset"} => l.left > 0,
         WriteOpenedAt(g, v, l), failures' = failures, up' = up,
         sinceProbe' \in 0..Cooldown
  PROVE  RBInv'
<1>1. ASSUME NEW h \in Goroutines, h # g
      PROVE  /\ local'[h] \in Locals
             /\ local'[h].current = FALSE
             /\ local'[h].pc = local[h].pc
             /\ local'[h].left = local[h].left
  <2>1. local[h] \in Locals
    BY DEF RBInv, TypeOK, Locals
  <2>2. local'[h] = [local[h] EXCEPT !.current = FALSE]
    BY <1>1 DEF WriteOpenedAt
  <2> QED BY <2>1, <2>2 DEF Locals
<1>2. local'[g] = l
  BY DEF WriteOpenedAt
<1>3. local' \in [Goroutines -> Locals]
  <2>1. \A h \in Goroutines : local'[h] \in Locals
    BY <1>1, <1>2
  <2>2. local' = [h \in Goroutines |-> local'[h]]
    BY DEF WriteOpenedAt
  <2> QED BY <2>1, <2>2
<1>4. openedAt' = v
  BY DEF WriteOpenedAt
<1>5. TypeOK'
  BY <1>3, <1>4, BreakerAssumption DEF RBInv, TypeOK, Locals
<1>6. openedAt' # Unset => openedAt' <= sinceProbe'
  BY <1>4, BreakerAssumption
<1>7. ASSUME NEW h \in Goroutines
      PROVE  /\ ~(local'[h].pc = "casProbe" /\ local'[h].current)
             /\ local'[h].pc \in {"loadFailures", "loadOpened", "casUnset", "casProbe"}
                   => local'[h].left > 0
  BY <1>1, <1>2 DEF RBInv
<1> QED
  BY <1>5, <1>6, <1>7 DEF RBInv

\* A goroutine whose allow() returned true goes on to its next check or to
\* its operation.
LEMMA PassedIsGood ==
  ASSUME RBInv, NEW g \in Goroutines, local[g].left > 0
  PROVE  /\ Passed(g) \in Locals
         /\ Passed(g).pc \in {"loadFailures", "fn"}
         /\ Passed(g).pc = "loadFailures" => Passed(g).left > 0
<1>1. local[g].left \in Nat
  BY DEF RBInv, TypeOK
<1>2. /\ Passed(g).left = local[g].left - 1
      /\ Passed(g).current = FALSE
      /\ Passed(g).pc = IF local[g].left > 1 THEN "loadFailures" ELSE "fn"
  BY DEF Passed
<1>3. Passed(g) \in Locals
  BY <1>1, <1>2 DEF Passed, Locals, Places
<1> QED BY <1>1, <1>2, <1>3

\* Changing only the program counter of a goroutine.
LEMMA GotoIsMove ==
  ASSUME RBInv, NEW g \in Goroutines, NEW p \in Places, Goto(g, p)
  PROVE  \E l \in Locals : /\ local' = [local EXCEPT ![g] = l]
                           /\ l.pc = p /\ l.left = local[g].left
                           /\ l.current = local[g].current
<1> DEFINE l == [local[g] EXCEPT !.pc = p]
<1>1. local[g] \in Locals
  BY DEF RBInv, TypeOK, Locals
<1>2. l \in Locals /\ l.pc = p /\ l.left = local[g].left /\ l.current = local[g].current
  BY <1>1 DEF Locals
<1>3. local' = [local EXCEPT ![g] = l]
  BY DEF Goto
<1> QED BY <1>2, <1>3

\* Every atomic step of allow, recordSuccess and recordFailure, every outage
\* and every tick preserves RBInv.
LEMMA RBInvNext == RBInv /\ [Next]_vars => RBInv'
<1> SUFFICES ASSUME RBInv, [Next]_vars PROVE RBInv'
  OBVIOUS
<1>t. TypeOK
  BY DEF RBInv
<1>i. Local(Idle)
  BY IdleIsLocal
<1>1. CASE Outage
  BY <1>1, <1>t DEF Outage, RBInv, TypeOK
<1>2. CASE Tick
  <2>1. TypeOK'
    BY <1>2, <1>t, BreakerAssumption DEF Tick, TypeOK, Older, Unset
  <2>2. openedAt' # Unset => openedAt' <= sinceProbe'
    BY <1>2, <1>t, BreakerAssumption DEF Tick, TypeOK, RBInv, Older, Unset
  <2>3. openedAt >= Cooldown => openedAt' >= Cooldown
    BY <1>2, <1>t, BreakerAssumption DEF Tick, TypeOK, Older, Unset
  <2> QED BY <1>2, <2>1, <2>2, <2>3 DEF Tick, RBInv
<1>3. ASSUME NEW g \in Goroutines, Begin(g) PROVE RBInv'
  <2> DEFINE l == [pc |-> "loadFailures", left |-> Checks[g], current |-> FALSE]
  <2>1. Checks[g] \in Nat /\ Checks[g] > 0
    BY ChecksAssumption
  <2>2. Local(l)
    BY <2>1 DEF Local, Locals, Places
  <2> QED BY <1>3, <1>t, <2>2, MoveOne DEF Begin, TypeOK
<1>4. ASSUME NEW g \in Goroutines, LoadFailures(g) PROVE RBInv'
  <2>1. local[g].left > 0
    BY <1>4 DEF LoadFailures, RBInv
  <2>2. Local(Passed(g))
    BY <2>1, PassedIsGood DEF Local
  <2>3. CASE failures < Threshold
    BY <1>4, <1>t, <2>2, <2>3, MoveOne DEF LoadFailures, TypeOK
  <2>4. CASE ~(failures < Threshold)
    <3>1. PICK l \in Locals : /\ local' = [local EXCEPT ![g] = l]
                              /\ l.pc = "loadOpened" /\ l.left = local[g].left
      BY <1>4, <2>4, GotoIsMove DEF LoadFailures, Places
    <3>2. Local(l)
      BY <3>1, <2>1 DEF Local
    <3> QED BY <1>4, <1>t, <3>1, <3>2, MoveOne DEF LoadFailures, TypeOK
  <2> QED BY <2>3, <2>4
<1>5. ASSUME NEW g \in Goroutines, LoadOpened(g) PROVE RBInv'
  <2>1. local[g].left > 0
    BY <1>5 DEF LoadOpened, RBInv
  <2>2. CASE Goto(g, "casUnset")
    <3>1. PICK l \in Locals : /\ local' = [local EXCEPT ![g] = l]
                              /\ l.pc = "casUnset" /\ l.left = local[g].left
      BY <2>2, GotoIsMove DEF Places
    <3>2. Local(l)
      BY <3>1, <2>1 DEF Local
    <3> QED BY <1>5, <1>t, <3>1, <3>2, MoveOne DEF LoadOpened, TypeOK
  <2>3. CASE /\ openedAt >= Cooldown
             /\ local' = [local EXCEPT ![g].pc = "casProbe", ![g].current = TRUE]
    <3> DEFINE l == [local[g] EXCEPT !.pc = "casProbe", !.current = TRUE]
    <3>1. local[g] \in Locals
      BY <1>t DEF TypeOK, Locals
    <3>2. l \in Locals /\ l.pc = "casProbe" /\ l.left = local[g].left
      BY <3>1 DEF Locals, Places
    <3>3. local' = [local EXCEPT ![g] = l]
      BY <2>3
    <3>4. openedAt' = openedAt
      BY <1>5 DEF LoadOpened
    <3> HIDE DEF l
    <3>5. Local(l)
      BY <3>2, <3>4, <2>1, <2>3 DEF Local
    <3> QED BY <1>5, <1>t, <3>3, <3>5, MoveOne DEF LoadOpened, TypeOK
  <2>4. CASE local' = [local EXCEPT ![g] = Idle]
    BY <1>5, <1>t, <1>i, <2>4, MoveOne DEF LoadOpened, TypeOK
  <2> QED BY <1>5, <2>2, <2>3, <2>4 DEF LoadOpened
<1>6. ASSUME NEW g \in Goroutines, CasUnset(g) PROVE RBInv'
  <2>1. CASE openedAt = Unset
    <3>1. WriteOpenedAt(g, 0, Idle)
      BY <1>6, <2>1 DEF CasUnset
    <3> QED BY <3>1, <1>6, <1>t, <1>i, WriteKeeps DEF CasUnset, TypeOK, Local, Idle
  <2>2. CASE openedAt # Unset
    BY <1>6, <1>t, <1>i, <2>2, MoveOne DEF CasUnset, TypeOK
  <2> QED BY <2>1, <2>2
<1>7. ASSUME NEW g \in Goroutines, CasProbe(g) PROVE RBInv'
  <2>1. local[g].left > 0
    BY <1>7 DEF CasProbe, RBInv
  <2>2. CASE local[g].current
    <3>1. WriteOpenedAt(g, 0, Passed(g)) /\ sinceProbe' = 0
      BY <1>7, <2>2 DEF CasProbe
    <3>2. sinceProbe' \in 0..Cooldown
      BY <3>1, BreakerAssumption
    <3> QED BY <3>1, <3>2, <1>7, <2>1, PassedIsGood, WriteKeeps DEF CasProbe
  <2>3. CASE ~local[g].current
    BY <1>7, <1>t, <1>i, <2>3, MoveOne DEF CasProbe, TypeOK
  <2> QED BY <2>2, <2>3
<1>8. ASSUME NEW g \in Goroutines, Fn(g) PROVE RBInv'
  <2>1. PICK p \in {"successLoad", "failureAdd"} : Goto(g, p)
    BY <1>8 DEF Fn
  <2>2. PICK l \in Locals : local' = [local EXCEPT ![g] = l] /\ l.pc = p
    BY <2>1, GotoIsMove DEF Places
  <2>3. Local(l)
    BY <2>1, <2>2 DEF Local
  <2> QED BY <1>8, <1>t, <2>2, <2>3, MoveOne DEF Fn, TypeOK
<1>9. ASSUME NEW g \in Goroutines, SuccessLoad(g) PROVE RBInv'
  <2>1. CASE failures > 0
    <3>1. PICK l \in Locals : local' = [local EXCEPT ![g] = l] /\ l.pc = "storeFailures"
      BY <1>9, <2>1, GotoIsMove DEF SuccessLoad, Places
    <3>2. Local(l)
      BY <3>1 DEF Local
    <3> QED BY <1>9, <1>t, <3>1, <3>2, MoveOne DEF SuccessLoad, TypeOK
  <2>2. CASE ~(failures > 0)
    BY <1>9, <1>t, <1>i, <2>2, MoveOne DEF SuccessLoad, TypeOK
  <2> QED BY <2>1, <2>2
<1>10. ASSUME NEW g \in Goroutines, StoreFailures(g) PROVE RBInv'
  <2>1. PICK l \in Locals : local' = [local EXCEPT ![g] = l] /\ l.pc = "clearOpened"
    BY <1>10, GotoIsMove DEF StoreFailures, Places
  <2>2. Local(l)
    BY <2>1 DEF Local
  <2>3. failures' \in 0..(Threshold + 1)
    BY <1>10, BreakerAssumption DEF StoreFailures
  <2> QED BY <1>10, <1>t, <2>1, <2>2, <2>3, MoveOne DEF StoreFailures, TypeOK
<1>11. ASSUME NEW g \in Goroutines, ClearOpened(g) PROVE RBInv'
  BY <1>11, <1>t, <1>i, WriteKeeps DEF ClearOpened, TypeOK, Local, Idle
<1>12. ASSUME NEW g \in Goroutines, FailureAdd(g) PROVE RBInv'
  <2>1. failures' \in 0..(Threshold + 1)
    BY <1>12, <1>t, BreakerAssumption DEF FailureAdd, TypeOK
  <2>2. CASE failures + 1 = Threshold
    <3>1. PICK l \in Locals : local' = [local EXCEPT ![g] = l] /\ l.pc = "storeOpened"
      BY <1>12, <2>2, GotoIsMove DEF FailureAdd, Places
    <3>2. Local(l)
      BY <3>1 DEF Local
    <3> QED BY <1>12, <1>t, <2>1, <3>1, <3>2, MoveOne DEF FailureAdd, TypeOK
  <2>3. CASE failures + 1 # Threshold
    BY <1>12, <1>t, <1>i, <2>1, <2>3, MoveOne DEF FailureAdd, TypeOK
  <2> QED BY <2>2, <2>3
<1>13. ASSUME NEW g \in Goroutines, StoreOpened(g) PROVE RBInv'
  BY <1>13, <1>t, <1>i, WriteKeeps DEF StoreOpened, TypeOK, Local, Idle
<1>14. CASE UNCHANGED vars
  BY <1>14 DEF vars, RBInv, TypeOK
<1> QED
  BY <1>1, <1>2, <1>3, <1>4, <1>5, <1>6, <1>7, <1>8, <1>9, <1>10, <1>11, <1>12,
     <1>13, <1>14 DEF Next, Step

\* RBInv is an invariant: it holds from newCircuitBreaker on, whatever the
\* interleaving of the atomic steps.
THEOREM RedisBreakerInvariant == Safety => []RBInv
  BY RBInvInit, RBInvNext, PTL DEF Safety

\* allow() never lets two probes through within one cooldown, for any number
\* of goroutines and of checks each makes.
THEOREM AtMostOneProbe == Safety => []OneProbePerCooldown
<1>1. RBInv => OneProbePerCooldown
  <2> SUFFICES ASSUME RBInv, NEW g \in Goroutines,
                      local[g].pc = "casProbe", local[g].current
               PROVE  sinceProbe >= Cooldown
    BY DEF OneProbePerCooldown
  <2>1. openedAt >= Cooldown /\ openedAt \in {Unset} \union 0..Cooldown /\ sinceProbe \in 0..Cooldown
    BY DEF RBInv, TypeOK
  <2>2. openedAt # Unset
    BY <2>1, BreakerAssumption DEF Unset
  <2> QED BY <2>1, <2>2, BreakerAssumption DEF RBInv, Unset
<1> QED
  BY <1>1, RedisBreakerInvariant, PTL

=============================================================================
