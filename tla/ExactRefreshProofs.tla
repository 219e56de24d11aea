------------------------- MODULE ExactRefreshProofs -------------------------
(***************************************************************************)
(* The claims of ExactRefresh for any number of identities, slots, claims  *)
(* and lapsed leases: the two keys of a claim agree, snapshots only        *)
(* advance and, as long as no dispatch is accepted after it timed out,     *)
(* nobody reads beside the owner of the claim or outside the admission     *)
(* set.                                                                    *)
(***************************************************************************)
EXTENDS ExactRefresh, FiniteSetTheorems, TLAPS

States == [status : {"none", "running", "failed"}, tok : 0 .. MaxTokens,
           phase : {"none", "dispatch", "running"}, wf : BOOLEAN]

\* The claim keys have their types.
ClaimTypeOK ==
    /\ lock \in [Ids -> 0 .. MaxTokens] /\ snap \in [Ids -> 0 .. MaxTokens]
    /\ st \in [Ids -> States] /\ id \in [Tokens -> Ids] /\ drawn \in 0 .. MaxTokens

\* Tokens are drawn in order: a claim belongs to its identity and is newer than the
\* snapshot stored for it.
ClaimsAreOrdered ==
    /\ \A i \in Ids : snap[i] <= drawn /\ lock[i] <= drawn
    /\ \A i \in Ids : lock[i] # 0 => snap[i] < lock[i] /\ id[lock[i]] = i

ClaimInv == ClaimTypeOK /\ StateFollowsLock /\ ClaimsAreOrdered

Requests == {"none", "claimed", "admitted", "enqueued", "failing", "done"}
Activities == {"none", "queued", "activating", "reading", "loaded", "published",
               "ending", "done"}

LocalTypeOK ==
    /\ req \in [Tokens -> Requests] /\ act \in [Tokens -> Activities]
    /\ adm \subseteq Tokens /\ lapsed \subseteq Tokens

\* A token not yet drawn has no request and no activity; an activity exists only for a
\* request that is past the point where it gives up.
SentIsSettled ==
    \A t \in Tokens :
        /\ t > drawn => act[t] = "none" /\ req[t] = "none"
        /\ act[t] # "none" => req[t] \in {"enqueued", "done"}

\* Who reads, or is about to, owns the claim, and the claim says so.
ReadersOwn ==
    \A t \in Tokens : act[t] \in {"activating", "reading"} /\ t \notin lapsed =>
        lock[id[t]] = t /\ st[id[t]].phase = "running"

ReaderInv == ClaimInv /\ LocalTypeOK /\ SentIsSettled /\ ReadersOwn

\* The admission set is within the limit and holds every reader.
AdmissionInv ==
    Cardinality(adm) <= MaxInflight /\ Readers \ lapsed \subseteq adm

\* What a step may do to the claims, whatever else it does.
claim == <<lock, st, snap, id, drawn>>

Claims(i) ==
    /\ lock[i] = 0 /\ drawn < MaxTokens /\ drawn' = drawn + 1
    /\ lock' = [lock EXCEPT ![i] = drawn + 1] /\ id' = [id EXCEPT ![drawn + 1] = i]
    /\ st' = [st EXCEPT ![i] = Running(drawn + 1, "dispatch", FALSE)] /\ UNCHANGED snap

Frees(i, s) ==
    /\ lock' = [lock EXCEPT ![i] = 0] /\ st' = [st EXCEPT ![i] = s]
    /\ UNCHANGED <<snap, id, drawn>>

Restates(t, phase, known) ==
    /\ Owns(t) /\ st' = [st EXCEPT ![id[t]] = Running(t, phase, known)]
    /\ UNCHANGED <<lock, snap, id, drawn>>

Stores(t) ==
    /\ Owns(t) /\ snap' = [snap EXCEPT ![id[t]] = t]
    /\ lock' = [lock EXCEPT ![id[t]] = 0] /\ st' = [st EXCEPT ![id[t]] = NoState]
    /\ UNCHANGED <<id, drawn>>

Forgets(i) ==
    /\ st[i].status = "failed" /\ st' = [st EXCEPT ![i] = NoState]
    /\ UNCHANGED <<lock, snap, id, drawn>>

ClaimEffect ==
    \/ UNCHANGED claim
    \/ \E i \in Ids : Claims(i) \/ Frees(i, NoState) \/ Forgets(i)
    \/ \E t \in Tokens : Stores(t) \/ (Owns(t) /\ Frees(id[t], NoState))
                         \/ (Owns(t) /\ Frees(id[t], Failed(t)))
    \/ \E t \in Tokens, phase \in {"dispatch", "running"}, known \in BOOLEAN :
          Restates(t, phase, known)

-----------------------------------------------------------------------------
(* The claim                                                               *)

\* The three kinds of state record.
LEMMA StateFacts ==
    /\ NoState \in States /\ NoState.status = "none" /\ NoState.phase = "none"
    /\ \A t \in Tokens, phase \in {"dispatch", "running"}, known \in BOOLEAN :
          LET s == Running(t, phase, known) IN
          s \in States /\ s.status = "running" /\ s.tok = t /\ s.phase = phase
    /\ \A t \in Tokens : Failed(t) \in States /\ Failed(t).status = "failed"
  BY RefreshAssumption DEF States, NoState, Running, Failed, Tokens

\* There is no claim at first.
LEMMA ClaimInit == Init => ClaimInv
<1> SUFFICES ASSUME Init PROVE ClaimInv
  OBVIOUS
<1>1. (CHOOSE i \in Ids : TRUE) \in Ids
  BY IdsAssumption
<1> QED
  BY <1>1, RefreshAssumption, StateFacts DEF Init, ClaimInv, ClaimTypeOK, StateFollowsLock,
     ClaimsAreOrdered, Tokens

\* Every step has one of these effects on the claims.
LEMMA StepEffect == ASSUME [Next]_vars PROVE ClaimEffect
<1>1. CASE UNCHANGED vars
  BY <1>1 DEF vars, redis, ClaimEffect, claim
<1>2. ASSUME NEW i \in Ids, Begin(i) PROVE ClaimEffect
  BY <1>2 DEF Begin, Claims, ClaimEffect, claim
<1>3. ASSUME NEW i \in Ids, Inspect(i) PROVE ClaimEffect
  BY <1>3 DEF Inspect, redis, ClaimEffect, claim
<1>4. ASSUME NEW i \in Ids, LeaseExpires(i) PROVE ClaimEffect
  BY <1>4 DEF LeaseExpires, Frees, ClaimEffect, claim
<1>5. ASSUME NEW i \in Ids, FailureExpires(i) PROVE ClaimEffect
  BY <1>5 DEF FailureExpires, Forgets, ClaimEffect, claim
<1>6. ASSUME NEW i \in Ids, NEW t \in Tokens, Release(i, t) PROVE ClaimEffect
  BY <1>6 DEF Release, StillDispatched, Frees, ClaimEffect, claim
<1>7. ASSUME NEW t \in Tokens, Admit(t) PROVE ClaimEffect
  BY <1>7 DEF Admit, redis, ClaimEffect, claim
<1>8. ASSUME NEW t \in Tokens, Defer(t) PROVE ClaimEffect
  BY <1>8 DEF Defer, Finish, Frees, ClaimEffect, claim
<1>9. ASSUME NEW t \in Tokens, Enqueue(t) PROVE ClaimEffect
  BY <1>9 DEF Enqueue, redis, ClaimEffect, claim
<1>10. ASSUME NEW t \in Tokens, EnqueueFails(t) PROVE ClaimEffect
  BY <1>10 DEF EnqueueFails, redis, ClaimEffect, claim
<1>11. ASSUME NEW t \in Tokens, FailDispatch(t) PROVE ClaimEffect
  BY <1>11 DEF FailDispatch, Finish, Frees, ClaimEffect, claim
<1>12. ASSUME NEW t \in Tokens, RecordDispatch(t) PROVE ClaimEffect
  BY <1>12 DEF RecordDispatch, Restates, ClaimEffect, claim
<1>13. ASSUME NEW t \in Tokens, RequestDies(t) PROVE ClaimEffect
  BY <1>13 DEF RequestDies, redis, ClaimEffect, claim
<1>14. ASSUME NEW t \in Tokens, Activate(t) PROVE ClaimEffect
  BY <1>14 DEF Activate, Restates, ClaimEffect, claim
<1>15. ASSUME NEW t \in Tokens, ActivateAdmitted(t) PROVE ClaimEffect
  BY <1>15 DEF ActivateAdmitted, redis, ClaimEffect, claim
<1>16. ASSUME NEW t \in Tokens, ReadEnds(t) PROVE ClaimEffect
  BY <1>16 DEF ReadEnds, redis, ClaimEffect, claim
<1>17. ASSUME NEW t \in Tokens, Publish(t) PROVE ClaimEffect
  BY <1>17 DEF Publish, Stores, ClaimEffect, claim
<1>18. ASSUME NEW t \in Tokens, FinishActivity(t) PROVE ClaimEffect
  BY <1>18 DEF FinishActivity, Finish, Frees, ClaimEffect, claim
<1>19. ASSUME NEW t \in Tokens, RenewLease(t) PROVE ClaimEffect
  BY <1>19 DEF RenewLease, Restates, ClaimEffect, claim
<1>20. ASSUME NEW t \in Tokens, RenewAdmission(t) PROVE ClaimEffect
  BY <1>20 DEF RenewAdmission, redis, ClaimEffect, claim
<1>21. ASSUME NEW t \in Tokens, WorkerDies(t) PROVE ClaimEffect
  BY <1>21 DEF WorkerDies, redis, ClaimEffect, claim
<1>22. ASSUME NEW t \in Tokens, WorkflowEnds(t) PROVE ClaimEffect
  BY <1>22 DEF WorkflowEnds, redis, ClaimEffect, claim
<1>23. ASSUME NEW t \in Tokens, LeaseLapses(t) PROVE ClaimEffect
  BY <1>23 DEF LeaseLapses, Frees, ClaimEffect, claim
<1>24. ASSUME NEW t \in Tokens, AdmissionExpires(t) PROVE ClaimEffect
  BY <1>24 DEF AdmissionExpires, redis, ClaimEffect, claim
<1> QED
  BY <1>1, <1>2, <1>3, <1>4, <1>5, <1>6, <1>7, <1>8, <1>9, <1>10, <1>11, <1>12, <1>13,
     <1>14, <1>15, <1>16, <1>17, <1>18, <1>19, <1>20, <1>21, <1>22, <1>23, <1>24 DEF Next,
     RequestStep, ActivityStep

\* Every effect keeps the invariant of the claims and moves snapshots forward only.
LEMMA EffectKeeps ==
    ASSUME ClaimInv, ClaimEffect
    PROVE  ClaimInv' /\ \A i \in Ids : snap'[i] >= snap[i]
<1> USE RefreshAssumption, StateFacts DEF ClaimInv, ClaimTypeOK, StateFollowsLock, ClaimsAreOrdered, Tokens
<1>1. CASE UNCHANGED claim
  BY <1>1 DEF claim
<1>2. ASSUME NEW i \in Ids, Claims(i)
      PROVE  ClaimInv' /\ \A j \in Ids : snap'[j] >= snap[j]
  <2>1. drawn + 1 \in Tokens /\ drawn' = drawn + 1
    BY <1>2 DEF Claims
  <2> DEFINE s == Running(drawn + 1, "dispatch", FALSE)
  <2>2. s \in States /\ s.status = "running" /\ s.tok = drawn + 1
    BY <2>1
  <2> HIDE DEF s
  <2>6. /\ lock' = [lock EXCEPT ![i] = drawn + 1] /\ id' = [id EXCEPT ![drawn + 1] = i]
        /\ st' = [st EXCEPT ![i] = s] /\ snap' = snap
    BY <1>2 DEF Claims, s
  <2>3. ClaimTypeOK'
    <3>1. lock' \in [Ids -> 0 .. MaxTokens]
      BY <2>1, <2>6
    <3>2. st' \in [Ids -> States]
      BY <2>2, <2>6
    <3>3. id' \in [Tokens -> Ids]
      BY <2>1, <2>6
    <3> QED
      BY <2>1, <2>6, <3>1, <3>2, <3>3
  <2>4. StateFollowsLock'
    <3>1. ASSUME NEW j \in Ids PROVE IF lock'[j] = 0 THEN st'[j].status # "running"
                                     ELSE st'[j].status = "running" /\ st'[j].tok = lock'[j]
      <4>1. CASE j = i
        BY <2>1, <2>2, <2>6, <4>1
      <4>2. CASE j # i
        BY <2>6, <4>2
      <4> QED
        BY <4>1, <4>2
    <3> QED
      BY <3>1
  <2>5. ClaimsAreOrdered'
    <3>1. ASSUME NEW j \in Ids
          PROVE  /\ snap'[j] <= drawn' /\ lock'[j] <= drawn'
                 /\ lock'[j] # 0 => snap'[j] < lock'[j] /\ id'[lock'[j]] = j
      <4>1. /\ snap[j] \in Nat /\ snap[j] <= drawn /\ lock[j] \in Nat /\ lock[j] <= drawn
            /\ lock[j] # 0 => snap[j] < lock[j] /\ id[lock[j]] = j
        OBVIOUS
      <4>2. CASE j = i
        BY <2>1, <2>6, <4>1, <4>2
      <4>3. CASE j # i
        <5>1. lock'[j] = lock[j] /\ snap'[j] = snap[j] /\ lock[j] # drawn + 1
          BY <2>6, <4>1, <4>3
        <5>2. lock[j] # 0 => id'[lock[j]] = id[lock[j]]
          BY <2>1, <2>6, <4>1, <5>1
        <5>3. drawn \in Nat
          OBVIOUS
        <5> HIDE DEF ClaimInv, ClaimTypeOK, StateFollowsLock, ClaimsAreOrdered, Tokens
        <5> QED
          BY <2>1, <2>6, <4>1, <5>1, <5>2, <5>3
      <4> QED
        BY <4>2, <4>3
    <3> QED
      BY <3>1
  <2>7. \A j \in Ids : snap'[j] >= snap[j]
    BY <2>6
  <2> HIDE DEF ClaimTypeOK, StateFollowsLock, ClaimsAreOrdered
  <2> QED
    BY <2>3, <2>4, <2>5, <2>7
<1>3. ASSUME NEW i \in Ids, NEW s \in States, s.status # "running", Frees(i, s)
      PROVE  ClaimInv' /\ \A j \in Ids : snap'[j] >= snap[j]
  BY <1>3 DEF Frees
<1>4. ASSUME NEW i \in Ids, Forgets(i)
      PROVE  ClaimInv' /\ \A j \in Ids : snap'[j] >= snap[j]
  BY <1>4 DEF Forgets
<1>5. ASSUME NEW t \in Tokens, Stores(t)
      PROVE  ClaimInv' /\ \A j \in Ids : snap'[j] >= snap[j]
  <2>1. /\ id[t] \in Ids /\ lock[id[t]] = t /\ snap[id[t]] < t /\ t <= drawn
        /\ lock' = [lock EXCEPT ![id[t]] = 0] /\ st' = [st EXCEPT ![id[t]] = NoState]
        /\ snap' = [snap EXCEPT ![id[t]] = t] /\ id' = id /\ drawn' = drawn
    BY <1>5 DEF Stores, Owns
  <2>2. ClaimTypeOK'
    BY <2>1
  <2>3. StateFollowsLock'
    BY <2>1
  <2>4. ClaimsAreOrdered'
    BY <2>1
  <2>5. \A j \in Ids : snap'[j] >= snap[j]
    BY <2>1
  <2> HIDE DEF ClaimTypeOK, StateFollowsLock, ClaimsAreOrdered
  <2> QED
    BY <2>2, <2>3, <2>4, <2>5
<1>6. ASSUME NEW t \in Tokens, NEW phase \in {"dispatch", "running"}, NEW known \in BOOLEAN,
             Restates(t, phase, known)
      PROVE  ClaimInv' /\ \A j \in Ids : snap'[j] >= snap[j]
  <2> DEFINE s == Running(t, phase, known)
  <2>1. s \in States /\ s.status = "running" /\ s.tok = t
    OBVIOUS
  <2> HIDE DEF s
  <2>2. /\ id[t] \in Ids /\ lock[id[t]] = t /\ st' = [st EXCEPT ![id[t]] = s]
        /\ lock' = lock /\ snap' = snap /\ id' = id /\ drawn' = drawn
    BY <1>6 DEF Restates, Owns, s
  <2>3. ClaimTypeOK'
    BY <2>1, <2>2
  <2>4. StateFollowsLock'
    BY <2>1, <2>2
  <2>5. ClaimsAreOrdered'
    BY <2>2
  <2>6. \A j \in Ids : snap'[j] >= snap[j]
    BY <2>2
  <2> HIDE DEF ClaimTypeOK, StateFollowsLock, ClaimsAreOrdered
  <2> QED
    BY <2>3, <2>4, <2>5, <2>6
<1>7. \A t \in Tokens : id[t] \in Ids
  OBVIOUS
<1>8. NoState \in States /\ NoState.status # "running"
  OBVIOUS
<1>9. \A t \in Tokens : Failed(t) \in States /\ Failed(t).status # "running"
  OBVIOUS
<1> HIDE DEF ClaimInv, ClaimTypeOK, StateFollowsLock, ClaimsAreOrdered, Tokens
<1> QED
  BY <1>1, <1>2, <1>3, <1>4, <1>5, <1>6, <1>7, <1>8, <1>9 DEF ClaimEffect

-----------------------------------------------------------------------------
(* The readers, when Temporal accepts no dispatch that timed out           *)

\* Every step keeps the types of requests, activities and the admission set.
LEMMA LocalTypeStep ==
    ASSUME ClaimInv, LocalTypeOK, [Next]_vars
    PROVE  LocalTypeOK'
<1> USE RefreshAssumption DEF LocalTypeOK, Requests, Activities
<1>1. CASE UNCHANGED vars
  BY <1>1 DEF vars, redis
<1>2. ASSUME NEW i \in Ids, Begin(i) PROVE LocalTypeOK'
  BY <1>2, drawn + 1 \in Tokens DEF Begin, ClaimInv, ClaimTypeOK, Tokens
<1>3. ASSUME NEW i \in Ids, Inspect(i) PROVE LocalTypeOK'
  BY <1>3 DEF Inspect, redis
<1>4. ASSUME NEW i \in Ids, LeaseExpires(i) PROVE LocalTypeOK'
  BY <1>4 DEF LeaseExpires, redis
<1>5. ASSUME NEW i \in Ids, FailureExpires(i) PROVE LocalTypeOK'
  BY <1>5 DEF FailureExpires, redis
<1>6. ASSUME NEW i \in Ids, NEW t \in Tokens, Release(i, t) PROVE LocalTypeOK'
  BY <1>6 DEF Release, redis
<1>7. ASSUME NEW t \in Tokens, Admit(t) PROVE LocalTypeOK'
  BY <1>7 DEF Admit, redis
<1>8. ASSUME NEW t \in Tokens, Defer(t) PROVE LocalTypeOK'
  BY <1>8 DEF Defer, Finish, redis
<1>9. ASSUME NEW t \in Tokens, Enqueue(t) PROVE LocalTypeOK'
  BY <1>9 DEF Enqueue, redis
<1>10. ASSUME NEW t \in Tokens, EnqueueFails(t) PROVE LocalTypeOK'
  BY <1>10 DEF EnqueueFails, redis
<1>11. ASSUME NEW t \in Tokens, FailDispatch(t) PROVE LocalTypeOK'
  BY <1>11 DEF FailDispatch, Finish, redis
<1>12. ASSUME NEW t \in Tokens, RecordDispatch(t) PROVE LocalTypeOK'
  BY <1>12 DEF RecordDispatch, redis
<1>13. ASSUME NEW t \in Tokens, RequestDies(t) PROVE LocalTypeOK'
  BY <1>13 DEF RequestDies, redis
<1>14. ASSUME NEW t \in Tokens, Activate(t) PROVE LocalTypeOK'
  BY <1>14 DEF Activate, To, redis
<1>15. ASSUME NEW t \in Tokens, ActivateAdmitted(t) PROVE LocalTypeOK'
  BY <1>15 DEF ActivateAdmitted, To, redis
<1>16. ASSUME NEW t \in Tokens, ReadEnds(t) PROVE LocalTypeOK'
  BY <1>16 DEF ReadEnds, To, redis
<1>17. ASSUME NEW t \in Tokens, Publish(t) PROVE LocalTypeOK'
  BY <1>17 DEF Publish, To, redis
<1>18. ASSUME NEW t \in Tokens, FinishActivity(t) PROVE LocalTypeOK'
  BY <1>18 DEF FinishActivity, Finish, To, redis
<1>19. ASSUME NEW t \in Tokens, RenewLease(t) PROVE LocalTypeOK'
  BY <1>19 DEF RenewLease, redis
<1>20. ASSUME NEW t \in Tokens, RenewAdmission(t) PROVE LocalTypeOK'
  BY <1>20 DEF RenewAdmission, redis
<1>21. ASSUME NEW t \in Tokens, WorkerDies(t) PROVE LocalTypeOK'
  BY <1>21 DEF WorkerDies, To, Alive, redis
<1>22. ASSUME NEW t \in Tokens, WorkflowEnds(t) PROVE LocalTypeOK'
  BY <1>22 DEF WorkflowEnds, To, redis
<1>23. ASSUME NEW t \in Tokens, LeaseLapses(t) PROVE LocalTypeOK'
  BY <1>23 DEF LeaseLapses, redis
<1>24. ASSUME NEW t \in Tokens, AdmissionExpires(t) PROVE LocalTypeOK'
  BY <1>24 DEF AdmissionExpires, redis
<1> QED
  BY <1>1, <1>2, <1>3, <1>4, <1>5, <1>6, <1>7, <1>8, <1>9, <1>10, <1>11, <1>12, <1>13,
     <1>14, <1>15, <1>16, <1>17, <1>18, <1>19, <1>20, <1>21, <1>22, <1>23, <1>24 DEF Next,
     RequestStep, ActivityStep

\* No step gives an activity to a request that may still give up.
LEMMA SentStep ==
    ASSUME ClaimInv, LocalTypeOK, SentIsSettled, LateAccepts = FALSE, [Next]_vars
    PROVE  SentIsSettled'
<1> USE RefreshAssumption DEF LocalTypeOK, SentIsSettled, Tokens
<1>1. CASE UNCHANGED vars
  BY <1>1 DEF vars, redis
<1>2. ASSUME NEW i \in Ids, Begin(i) PROVE SentIsSettled'
  BY <1>2 DEF Begin, ClaimInv, ClaimTypeOK
<1>3. ASSUME NEW i \in Ids, Inspect(i) PROVE SentIsSettled'
  BY <1>3 DEF Inspect, redis
<1>4. ASSUME NEW i \in Ids, LeaseExpires(i) PROVE SentIsSettled'
  BY <1>4 DEF LeaseExpires, redis
<1>5. ASSUME NEW i \in Ids, FailureExpires(i) PROVE SentIsSettled'
  BY <1>5 DEF FailureExpires, redis
<1>6. ASSUME NEW i \in Ids, NEW t \in Tokens, Release(i, t) PROVE SentIsSettled'
  BY <1>6 DEF Release, redis
<1>7. ASSUME NEW t \in Tokens, Admit(t) PROVE SentIsSettled'
  BY <1>7 DEF Admit, redis
<1>8. ASSUME NEW t \in Tokens, Defer(t) PROVE SentIsSettled'
  BY <1>8 DEF Defer, Finish, redis
<1>9. ASSUME NEW t \in Tokens, Enqueue(t) PROVE SentIsSettled'
  BY <1>9 DEF Enqueue, redis
<1>10. ASSUME NEW t \in Tokens, EnqueueFails(t) PROVE SentIsSettled'
  BY <1>10 DEF EnqueueFails, redis
<1>11. ASSUME NEW t \in Tokens, FailDispatch(t) PROVE SentIsSettled'
  BY <1>11 DEF FailDispatch, Finish, redis
<1>12. ASSUME NEW t \in Tokens, RecordDispatch(t) PROVE SentIsSettled'
  BY <1>12 DEF RecordDispatch, redis
<1>13. ASSUME NEW t \in Tokens, RequestDies(t) PROVE SentIsSettled'
  BY <1>13 DEF RequestDies, redis
<1>14. ASSUME NEW t \in Tokens, Activate(t) PROVE SentIsSettled'
  BY <1>14 DEF Activate, To, redis
<1>15. ASSUME NEW t \in Tokens, ActivateAdmitted(t) PROVE SentIsSettled'
  BY <1>15 DEF ActivateAdmitted, To, redis
<1>16. ASSUME NEW t \in Tokens, ReadEnds(t) PROVE SentIsSettled'
  BY <1>16 DEF ReadEnds, To, redis
<1>17. ASSUME NEW t \in Tokens, Publish(t) PROVE SentIsSettled'
  BY <1>17 DEF Publish, To, redis
<1>18. ASSUME NEW t \in Tokens, FinishActivity(t) PROVE SentIsSettled'
  BY <1>18 DEF FinishActivity, Finish, To, redis
<1>19. ASSUME NEW t \in Tokens, RenewLease(t) PROVE SentIsSettled'
  BY <1>19 DEF RenewLease, redis
<1>20. ASSUME NEW t \in Tokens, RenewAdmission(t) PROVE SentIsSettled'
  BY <1>20 DEF RenewAdmission, redis
<1>21. ASSUME NEW t \in Tokens, WorkerDies(t) PROVE SentIsSettled'
  BY <1>21 DEF WorkerDies, To, Alive, redis
<1>22. ASSUME NEW t \in Tokens, WorkflowEnds(t) PROVE SentIsSettled'
  BY <1>22 DEF WorkflowEnds, To, redis
<1>23. ASSUME NEW t \in Tokens, LeaseLapses(t) PROVE SentIsSettled'
  BY <1>23 DEF LeaseLapses, redis
<1>24. ASSUME NEW t \in Tokens, AdmissionExpires(t) PROVE SentIsSettled'
  BY <1>24 DEF AdmissionExpires, redis
<1> QED
  BY <1>1, <1>2, <1>3, <1>4, <1>5, <1>6, <1>7, <1>8, <1>9, <1>10, <1>11, <1>12, <1>13,
     <1>14, <1>15, <1>16, <1>17, <1>18, <1>19, <1>20, <1>21, <1>22, <1>23, <1>24 DEF Next,
     RequestStep, ActivityStep

\* Every step leaves a reader that has not lapsed in possession of its claim.
LEMMA OwnStep ==
    ASSUME ReaderInv, LateAccepts = FALSE, [Next]_vars
    PROVE  ReadersOwn'
<1> DEFINE Own(u) == lock[id[u]] = u /\ st[id[u]].phase = "running"
<1> SUFFICES ASSUME NEW u \in Tokens, act'[u] \in {"activating", "reading"}, u \notin lapsed'
             PROVE  Own(u)'
  BY DEF ReadersOwn
<1>a. /\ u \in 1 .. MaxTokens /\ id[u] \in Ids /\ MaxTokens \in Nat
      /\ act[u] \in {"activating", "reading"} /\ u \notin lapsed =>
            /\ lock[id[u]] = u /\ st[id[u]].phase = "running" /\ st[id[u]].status = "running"
            /\ st[id[u]].tok = u /\ u <= drawn /\ req[u] \in {"enqueued", "done"}
  BY RefreshAssumption DEF ReaderInv, ClaimInv, ClaimTypeOK, StateFollowsLock,
     SentIsSettled,
     ReadersOwn, Tokens
<1>b. /\ lock \in [Ids -> 0 .. MaxTokens] /\ st \in [Ids -> States] /\ id \in [Tokens -> Ids]
      /\ drawn \in 0 .. MaxTokens /\ act \in [Tokens -> Activities]
      /\ req \in [Tokens -> Requests] /\ lapsed \subseteq Tokens
      /\ \A i \in Ids : lock[i] # 0 => id[lock[i]] = i
  BY DEF ReaderInv, ClaimInv, ClaimTypeOK, ClaimsAreOrdered, LocalTypeOK
<1>1. CASE UNCHANGED vars
  BY <1>1, <1>a DEF vars, redis
<1>2. ASSUME NEW i \in Ids, Begin(i) PROVE Own(u)'
  <2>1. /\ act' = act /\ lapsed' = lapsed /\ lock[i] = 0
        /\ lock' = [lock EXCEPT ![i] = drawn + 1] /\ id' = [id EXCEPT ![drawn + 1] = i]
        /\ st' = [st EXCEPT ![i] = Running(drawn + 1, "dispatch", FALSE)]
    BY <1>2 DEF Begin
  <2>2. u # drawn + 1 /\ id[u] # i
    BY <2>1, <1>a, <1>b
  <2>3. id'[u] = id[u] /\ lock'[id[u]] = lock[id[u]] /\ st'[id[u]] = st[id[u]]
    BY <2>1, <2>2, <1>a, <1>b
  <2> QED
    BY <2>1, <2>3, <1>a
<1>3. ASSUME NEW i \in Ids, Inspect(i) PROVE Own(u)'
  BY <1>3, <1>a, <1>b DEF Inspect, redis
<1>4. ASSUME NEW i \in Ids, LeaseExpires(i) PROVE Own(u)'
  BY <1>4, <1>a, <1>b DEF LeaseExpires, redis, Alive
<1>5. ASSUME NEW i \in Ids, FailureExpires(i) PROVE Own(u)'
  BY <1>5, <1>a, <1>b DEF FailureExpires, redis
<1>6. ASSUME NEW i \in Ids, NEW t \in Tokens, Release(i, t) PROVE Own(u)'
  <2>1. act' = act /\ lapsed' = lapsed /\ id' = id
    BY <1>6 DEF Release
  <2>2. CASE StillDispatched(i, t)
    <3>1. st[i].phase = "dispatch"
      BY <2>2 DEF StillDispatched, Running
    <3>2. id[u] # i
      BY <2>1, <3>1, <1>a
    <3> QED
      BY <1>6, <2>1, <2>2, <3>2, <1>a, <1>b DEF Release
  <2>3. CASE ~StillDispatched(i, t)
    BY <1>6, <2>1, <2>3, <1>a DEF Release
  <2> QED
    BY <2>2, <2>3
<1>7. ASSUME NEW t \in Tokens, Admit(t) PROVE Own(u)'
  BY <1>7, <1>a, <1>b DEF Admit, redis
<1>8. ASSUME NEW t \in Tokens, Defer(t) PROVE Own(u)'
  BY <1>8, <1>a, <1>b DEF Defer, Finish, redis, Owns
<1>9. ASSUME NEW t \in Tokens, Enqueue(t) PROVE Own(u)'
  BY <1>9, <1>a, <1>b DEF Enqueue, redis
<1>10. ASSUME NEW t \in Tokens, EnqueueFails(t) PROVE Own(u)'
  BY <1>10, <1>a, <1>b DEF EnqueueFails, redis
<1>11. ASSUME NEW t \in Tokens, FailDispatch(t) PROVE Own(u)'
  BY <1>11, <1>a, <1>b DEF FailDispatch, Finish, redis, Owns
<1>12. ASSUME NEW t \in Tokens, RecordDispatch(t) PROVE Own(u)'
  <2>1. act' = act /\ lapsed' = lapsed /\ id' = id /\ lock' = lock
    BY <1>12 DEF RecordDispatch
  <2>2. CASE st[id[t]] = Running(t, "dispatch", FALSE)
    <3>1. st[id[t]].phase = "dispatch"
      BY <2>2 DEF Running
    <3>2. id[u] # id[t]
      BY <2>1, <3>1, <1>a
    <3>3. st'[id[u]] = st[id[u]]
      BY <1>12, <3>2, <1>a, <1>b DEF RecordDispatch
    <3> QED
      BY <2>1, <3>3, <1>a
  <2>3. CASE st[id[t]] # Running(t, "dispatch", FALSE)
    BY <1>12, <2>1, <2>3, <1>a DEF RecordDispatch
  <2> QED
    BY <2>2, <2>3
<1>13. ASSUME NEW t \in Tokens, RequestDies(t) PROVE Own(u)'
  BY <1>13, <1>a, <1>b DEF RequestDies, redis
<1>14. ASSUME NEW t \in Tokens, Activate(t) PROVE Own(u)'
  <2>1. /\ lapsed' = lapsed /\ id' = id /\ lock' = lock /\ act[t] = "queued"
        /\ act' = [act EXCEPT ![t] = IF Owns(t) THEN "activating" ELSE "ending"]
        /\ st' = IF Owns(t) THEN [st EXCEPT ![id[t]] = Running(t, "running", FALSE)] ELSE st
    BY <1>14 DEF Activate, To
  <2>2. CASE u = t
    <3>1. Owns(t)
      BY <2>1, <2>2, <1>b
    <3>2. st'[id[t]] = Running(t, "running", FALSE)
      BY <2>1, <3>1, <1>b
    <3> QED
      BY <2>1, <2>2, <3>1, <3>2 DEF Owns, Running
  <2>3. CASE u # t
    <3>1. act'[u] = act[u]
      BY <2>1, <2>3, <1>b
    <3>2. Owns(t) => id[u] # id[t]
      BY <2>1, <2>3, <3>1, <1>a DEF Owns
    <3> QED
      BY <2>1, <3>1, <3>2, <1>a, <1>b
  <2> QED
    BY <2>2, <2>3
<1>15. ASSUME NEW t \in Tokens, ActivateAdmitted(t) PROVE Own(u)'
  BY <1>15, <1>a, <1>b DEF ActivateAdmitted, To, redis
<1>16. ASSUME NEW t \in Tokens, ReadEnds(t) PROVE Own(u)'
  BY <1>16, <1>a, <1>b DEF ReadEnds, To, redis
<1>17. ASSUME NEW t \in Tokens, Publish(t) PROVE Own(u)'
  BY <1>17, <1>a, <1>b DEF Publish, To, redis, Owns
<1>18. ASSUME NEW t \in Tokens, FinishActivity(t) PROVE Own(u)'
  BY <1>18, <1>a, <1>b DEF FinishActivity, Finish, To, redis, Owns
<1>19. ASSUME NEW t \in Tokens, RenewLease(t) PROVE Own(u)'
  BY <1>19, <1>a, <1>b, StateFacts DEF RenewLease, redis, Owns
<1>20. ASSUME NEW t \in Tokens, RenewAdmission(t) PROVE Own(u)'
  BY <1>20, <1>a, <1>b DEF RenewAdmission, redis
<1>21. ASSUME NEW t \in Tokens, WorkerDies(t) PROVE Own(u)'
  BY <1>21, <1>a, <1>b DEF WorkerDies, To, Alive, redis
<1>22. ASSUME NEW t \in Tokens, WorkflowEnds(t) PROVE Own(u)'
  BY <1>22, <1>a, <1>b DEF WorkflowEnds, To, redis
<1>23. ASSUME NEW t \in Tokens, LeaseLapses(t) PROVE Own(u)'
  BY <1>23, <1>a, <1>b DEF LeaseLapses, redis, Owns
<1>24. ASSUME NEW t \in Tokens, AdmissionExpires(t) PROVE Own(u)'
  BY <1>24, <1>a, <1>b DEF AdmissionExpires, redis
<1> QED
  BY <1>1, <1>2, <1>3, <1>4, <1>5, <1>6, <1>7, <1>8, <1>9, <1>10, <1>11, <1>12, <1>13,
     <1>14, <1>15, <1>16, <1>17, <1>18, <1>19, <1>20, <1>21, <1>22, <1>23, <1>24 DEF Next,
     RequestStep, ActivityStep

\* The invariant of the readers is inductive.
LEMMA ReaderStep ==
    ASSUME ReaderInv, LateAccepts = FALSE, [Next]_vars
    PROVE  ReaderInv'
<1>1. ClaimInv'
  BY StepEffect, EffectKeeps DEF ReaderInv
<1>2. LocalTypeOK' /\ SentIsSettled'
  BY LocalTypeStep, SentStep DEF ReaderInv
<1>3. ReadersOwn'
  BY OwnStep
<1> QED
  BY <1>1, <1>2, <1>3 DEF ReaderInv

\* It holds before the first claim.
LEMMA ReaderInit == Init => ReaderInv
<1> SUFFICES ASSUME Init PROVE ReaderInv
  OBVIOUS
<1>1. ClaimInv
  BY ClaimInit
<1> QED
  BY <1>1 DEF Init, ReaderInv, LocalTypeOK, SentIsSettled, ReadersOwn, Requests, Activities

-----------------------------------------------------------------------------
(* The admission set                                                       *)

\* Taking a slot when there is room keeps the set within the limit.
LEMMA RoomKeepsLimit ==
    ASSUME adm \subseteq Tokens, Cardinality(adm) <= MaxInflight, NEW t \in Tokens,
           NEW limit \in Nat, limit <= MaxInflight, HasRoom(t, limit)
    PROVE  Cardinality(adm \cup {t}) <= MaxInflight
<1>1. IsFiniteSet(Tokens)
  BY RefreshAssumption, FS_Interval DEF Tokens
<1>2. IsFiniteSet(adm)
  BY <1>1, FS_Subset
<1>3. CASE t \in adm
  <2>1. adm \cup {t} = adm
    BY <1>3
  <2> QED
    BY <2>1
<1>4. CASE t \notin adm
  <2>1. Cardinality(adm \cup {t}) = Cardinality(adm) + 1
    BY <1>2, <1>4, FS_AddElement
  <2>2. Cardinality(adm) \in Nat
    BY <1>2, FS_CardinalityType
  <2> QED
    BY <1>4, <2>1, <2>2, RefreshAssumption DEF HasRoom
<1> QED
  BY <1>3, <1>4

\* Giving slots up keeps it too.
LEMMA FewerKeepLimit ==
    ASSUME adm \subseteq Tokens, Cardinality(adm) <= MaxInflight, NEW S \in SUBSET adm
    PROVE  Cardinality(S) <= MaxInflight
<1>1. IsFiniteSet(adm)
  <2>1. IsFiniteSet(Tokens)
    BY RefreshAssumption, FS_Interval DEF Tokens
  <2> QED
    BY <2>1, FS_Subset
<1>2. Cardinality(S) <= Cardinality(adm) /\ Cardinality(S) \in Nat /\ Cardinality(adm) \in Nat
  BY <1>1, FS_Subset, FS_CardinalityType
<1> QED
  BY <1>2, RefreshAssumption

\* Every step keeps the admission set within the limit and around the readers.
LEMMA AdmissionStep ==
    ASSUME ReaderInv, AdmissionInv, LateAccepts = FALSE, [Next]_vars
    PROVE  AdmissionInv'
<1>a. /\ adm \subseteq Tokens /\ Cardinality(adm) <= MaxInflight /\ MaxInflight \in Nat \ {0}
      /\ act \in [Tokens -> Activities] /\ req \in [Tokens -> Requests]
  BY RefreshAssumption DEF ReaderInv, LocalTypeOK, AdmissionInv
<1>b. \A t \in Tokens : act[t] = "reading" /\ t \notin lapsed =>
         t \in adm /\ req[t] \in {"enqueued", "done"} /\ lock[id[t]] = t
            /\ st[id[t]].phase = "running"
  BY DEF ReaderInv, SentIsSettled, ReadersOwn, AdmissionInv, Readers
<1> SUFFICES Cardinality(adm') <= MaxInflight /\ (Readers \ lapsed)' \subseteq adm'
  BY DEF AdmissionInv
<1> DEFINE Goal == Cardinality(adm') <= MaxInflight /\ (Readers \ lapsed)' \subseteq adm'
<1>1. CASE UNCHANGED vars
  BY <1>1, <1>a, <1>b DEF vars, redis, Readers
<1>2. ASSUME NEW i \in Ids, Begin(i) PROVE Goal
  BY <1>2, <1>a, <1>b DEF Begin, redis, Readers
<1>3. ASSUME NEW i \in Ids, Inspect(i) PROVE Goal
  BY <1>3, <1>a, <1>b DEF Inspect, redis, Readers
<1>4. ASSUME NEW i \in Ids, LeaseExpires(i) PROVE Goal
  BY <1>4, <1>a, <1>b DEF LeaseExpires, redis, Readers
<1>5. ASSUME NEW i \in Ids, FailureExpires(i) PROVE Goal
  BY <1>5, <1>a, <1>b DEF FailureExpires, redis, Readers
<1>6. ASSUME NEW i \in Ids, NEW t \in Tokens, Release(i, t) PROVE Goal
  <2>1. CASE StillDispatched(i, t)
    <3>1. adm' = adm \ {t} /\ act' = act /\ lapsed' = lapsed
      BY <1>6, <2>1 DEF Release
    <3>2. lock[i] = t /\ st[i].phase = "dispatch"
      BY <2>1 DEF StillDispatched, Running
    <3>3. id[t] = i
      BY <3>2, RefreshAssumption DEF ReaderInv, ClaimInv, ClaimsAreOrdered, Tokens
    <3>4. Cardinality(adm') <= MaxInflight
      BY <3>1, <1>a, FewerKeepLimit
    <3>5. t \notin Readers \ lapsed
      BY <3>2, <3>3, <1>b DEF Readers
    <3> QED
      BY <3>1, <3>4, <3>5, <1>b DEF Readers
  <2>2. CASE ~StillDispatched(i, t)
    BY <1>6, <2>2, <1>a, <1>b DEF Release, Readers
  <2> QED
    BY <2>1, <2>2
<1>7. ASSUME NEW t \in Tokens, Admit(t) PROVE Goal
  <2>1. adm' = adm \/ (HasRoom(t, Limit(t)) /\ adm' = adm \cup {t})
    BY <1>7 DEF Admit
  <2>2. Limit(t) \in Nat /\ Limit(t) <= MaxInflight
    BY <1>a DEF Limit
  <2>3. Cardinality(adm') <= MaxInflight
    BY <2>1, <2>2, <1>a, RoomKeepsLimit
  <2>4. (Readers \ lapsed)' \subseteq adm'
    BY <1>7, <2>1, <1>a, <1>b DEF Admit, Readers
  <2> QED
    BY <2>3, <2>4
<1>8. ASSUME NEW t \in Tokens, Defer(t) PROVE Goal
  <2>1. adm' = adm \ {t}
    BY <1>8 DEF Defer, Finish
  <2>2. Cardinality(adm') <= MaxInflight
    BY <2>1, <1>a, FewerKeepLimit
  <2>3. (Readers \ lapsed)' \subseteq adm'
    BY <1>8, <2>1, <1>a, <1>b DEF Defer, Finish, Readers
  <2> QED
    BY <2>2, <2>3
<1>9. ASSUME NEW t \in Tokens, Enqueue(t) PROVE Goal
  BY <1>9, <1>a, <1>b DEF Enqueue, redis, Readers
<1>10. ASSUME NEW t \in Tokens, EnqueueFails(t) PROVE Goal
  BY <1>10, <1>a, <1>b DEF EnqueueFails, redis, Readers
<1>11. ASSUME NEW t \in Tokens, FailDispatch(t) PROVE Goal
  <2>1. adm' = adm \ {t}
    BY <1>11 DEF FailDispatch, Finish
  <2>2. Cardinality(adm') <= MaxInflight
    BY <2>1, <1>a, FewerKeepLimit
  <2>3. (Readers \ lapsed)' \subseteq adm'
    BY <1>11, <2>1, <1>a, <1>b DEF FailDispatch, Finish, Readers
  <2> QED
    BY <2>2, <2>3
<1>12. ASSUME NEW t \in Tokens, RecordDispatch(t) PROVE Goal
  BY <1>12, <1>a, <1>b DEF RecordDispatch, redis, Readers
<1>13. ASSUME NEW t \in Tokens, RequestDies(t) PROVE Goal
  BY <1>13, <1>a, <1>b DEF RequestDies, redis, Readers
<1>14. ASSUME NEW t \in Tokens, Activate(t) PROVE Goal
  <2>1. adm' = adm /\ lapsed' = lapsed
    BY <1>14 DEF Activate
  <2>2. Readers' \subseteq Readers
    BY <1>14, <1>a, <1>b DEF Activate, To, Readers
  <2>3. Readers \ lapsed \subseteq adm
    BY DEF AdmissionInv
  <2> QED
    BY <2>1, <2>2, <2>3, <1>a
<1>15. ASSUME NEW t \in Tokens, ActivateAdmitted(t) PROVE Goal
  <2>1. adm' = adm \/ (HasRoom(t, MaxInflight) /\ adm' = adm \cup {t})
    BY <1>15 DEF ActivateAdmitted, To
  <2>2. MaxInflight \in Nat /\ MaxInflight <= MaxInflight
    BY <1>a
  <2>3. Cardinality(adm') <= MaxInflight
    BY <2>1, <2>2, <1>a, RoomKeepsLimit
  <2>4. (Readers \ lapsed)' \subseteq adm'
    BY <1>15, <2>1, <1>a, <1>b DEF ActivateAdmitted, To, Readers
  <2> QED
    BY <2>3, <2>4
<1>16. ASSUME NEW t \in Tokens, ReadEnds(t) PROVE Goal
  BY <1>16, <1>a, <1>b DEF ReadEnds, To, redis, Readers
<1>17. ASSUME NEW t \in Tokens, Publish(t) PROVE Goal
  BY <1>17, <1>a, <1>b DEF Publish, To, redis, Readers
<1>18. ASSUME NEW t \in Tokens, FinishActivity(t) PROVE Goal
  <2>1. adm' = adm \ {t}
    BY <1>18 DEF FinishActivity, Finish, To
  <2>2. Cardinality(adm') <= MaxInflight
    BY <2>1, <1>a, FewerKeepLimit
  <2>3. (Readers \ lapsed)' \subseteq adm'
    BY <1>18, <2>1, <1>a, <1>b DEF FinishActivity, Finish, To, Readers
  <2> QED
    BY <2>2, <2>3
<1>19. ASSUME NEW t \in Tokens, RenewLease(t) PROVE Goal
  BY <1>19, <1>a, <1>b DEF RenewLease, redis, Readers
<1>20. ASSUME NEW t \in Tokens, RenewAdmission(t) PROVE Goal
  <2>1. adm' = adm \/ (HasRoom(t, MaxInflight) /\ adm' = adm \cup {t})
    BY <1>20 DEF RenewAdmission
  <2>2. MaxInflight \in Nat /\ MaxInflight <= MaxInflight
    BY <1>a
  <2>3. Cardinality(adm') <= MaxInflight
    BY <2>1, <2>2, <1>a, RoomKeepsLimit
  <2>4. (Readers \ lapsed)' \subseteq adm'
    BY <1>20, <2>1, <1>a, <1>b DEF RenewAdmission, Readers
  <2> QED
    BY <2>3, <2>4
<1>21. ASSUME NEW t \in Tokens, WorkerDies(t) PROVE Goal
  BY <1>21, <1>a, <1>b DEF WorkerDies, To, Alive, redis, Readers
<1>22. ASSUME NEW t \in Tokens, WorkflowEnds(t) PROVE Goal
  BY <1>22, <1>a, <1>b DEF WorkflowEnds, To, redis, Readers
<1>23. ASSUME NEW t \in Tokens, LeaseLapses(t) PROVE Goal
  BY <1>23, <1>a, <1>b DEF LeaseLapses, redis, Readers
<1>24. ASSUME NEW t \in Tokens, AdmissionExpires(t) PROVE Goal
  <2>1. adm' = adm \ {t}
    BY <1>24 DEF AdmissionExpires, Alive
  <2>2. Cardinality(adm') <= MaxInflight
    BY <2>1, <1>a, FewerKeepLimit
  <2>3. (Readers \ lapsed)' \subseteq adm'
    BY <1>24, <2>1, <1>a, <1>b DEF AdmissionExpires, Alive, Readers
  <2> QED
    BY <2>2, <2>3
<1> QED
  BY <1>1, <1>2, <1>3, <1>4, <1>5, <1>6, <1>7, <1>8, <1>9, <1>10, <1>11, <1>12, <1>13,
     <1>14, <1>15, <1>16, <1>17, <1>18, <1>19, <1>20, <1>21, <1>22, <1>23, <1>24 DEF Next,
     RequestStep, ActivityStep

-----------------------------------------------------------------------------
(* The theorems                                                            *)

\* The lock and the state of a claim agree at all times (StateFollowsLock), for any
\* identities, limits and claims, also when dispatches are accepted late.
THEOREM ClaimKeysAgree == Safety => []StateFollowsLock
<1>1. ClaimInv /\ [Next]_vars => ClaimInv'
  BY StepEffect, EffectKeeps
<1>2. ClaimInv => StateFollowsLock
  BY DEF ClaimInv
<1> QED
  BY ClaimInit, <1>1, <1>2, PTL DEF Safety

\* No worker ever stores an older snapshot over a newer one (SnapshotsAdvance).
THEOREM SnapshotsOnlyAdvance == Safety => SnapshotsAdvance
<1>1. ClaimInv /\ [Next]_vars => ClaimInv'
  BY StepEffect, EffectKeeps
<1>2. ClaimInv /\ [Next]_vars => [\A i \in Ids : snap'[i] >= snap[i]]_vars
  BY StepEffect, EffectKeeps
<1> QED
  BY ClaimInit, <1>1, <1>2, PTL DEF Safety, SnapshotsAdvance

\* Unless a dispatch is accepted after it timed out, at most one activity of an identity
\* reads ClickHouse (OneReader): it owns the claim.
THEOREM OneReaderPerIdentity ==
    ASSUME LateAccepts = FALSE PROVE Safety => []OneReader
<1>1. ReaderInv /\ [Next]_vars => ReaderInv'
  BY ReaderStep
<1>2. ReaderInv => OneReader
  BY DEF ReaderInv, ReadersOwn, OneReader, Readers
<1> QED
  BY ReaderInit, <1>1, <1>2, PTL DEF Safety

\* And the reads of a tenant stay within its admission limit (ScopeCapacity).
THEOREM ReadersWithinCapacity ==
    ASSUME LateAccepts = FALSE PROVE Safety => []ScopeCapacity
<1>1. Init => ReaderInv /\ AdmissionInv
  <2>1. Init => adm = {} /\ Readers = {}
    BY DEF Init, Readers
  <2>2. Init => AdmissionInv
    BY <2>1, RefreshAssumption, FS_EmptySet DEF AdmissionInv
  <2> QED
    BY <2>2, ReaderInit
<1>2. ReaderInv /\ AdmissionInv /\ [Next]_vars => (ReaderInv /\ AdmissionInv)'
  BY ReaderStep, AdmissionStep
<1>3. ReaderInv /\ AdmissionInv => ScopeCapacity
  BY FewerKeepLimit DEF ReaderInv, LocalTypeOK, AdmissionInv, ScopeCapacity
<1> QED
  BY <1>1, <1>2, <1>3, PTL DEF Safety
=============================================================================
