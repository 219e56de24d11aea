---------------------------- MODULE ExactRefresh ----------------------------
(***************************************************************************)
(* Background refreshes of exact aggregation snapshots                     *)
(* (tracer/services/exact_aggregation_cache.py and                         *)
(* tracer/tasks/exact_aggregation.py).                                     *)
(*                                                                         *)
(* A request claims the refresh of a query identity under a fresh token,   *)
(* takes an admission slot of the tenant, and starts a Temporal workflow;  *)
(* the activity promotes the claim, reads ClickHouse while a thread renews *)
(* the lease, publishes the snapshot and finishes.  The claim is a lock    *)
(* and a state in Redis, changed only by Lua scripts; one script is one    *)
(* step here.  Requests and workers die anywhere, dispatches time out,     *)
(* workflows end while their thread still runs, keys expire.               *)
(***************************************************************************)
EXTENDS Naturals, FiniteSets

CONSTANTS
    Ids,          \* query identities of one tenant scope
    MaxInflight,  \* _max_inflight_per_scope()
    MaxTokens,    \* bound: claims; tokens are numbered in the order they are drawn
    MaxLapses,    \* bound: leases that run out under a live activity
    LateAccepts   \* whether Temporal may accept a dispatch that timed out

ASSUME RefreshAssumption ==
    /\ MaxInflight \in Nat \ {0} /\ MaxTokens \in Nat /\ MaxLapses \in Nat
    /\ LateAccepts \in BOOLEAN

ASSUME IdsAssumption == Ids # {}

Tokens == 1 .. MaxTokens

VARIABLES
    lock,      \* token in the refresh lock of each identity, 0 when there is none
    st,        \* the refresh state record of each identity
    snap,      \* token whose snapshot is stored, 0 when there is none
    adm,       \* tokens in the admission set of the scope
    id,        \* identity of each token drawn
    req,       \* the request that drew the token
    auto,      \* tokens of automatic revalidations
    wf,        \* its Temporal workflow
    act,       \* its activity
    renewing,  \* tokens whose renewal thread is between its two scripts
    seen,      \* <<identity, token>> of the dispatch a poll found terminal
    drawn,     \* tokens drawn so far
    lapsed     \* tokens whose running lease ran out under their live activity

redis == <<lock, st, snap, adm>>
vars == <<redis, id, req, auto, wf, act, renewing, seen, drawn, lapsed>>

NoState == [status |-> "none", tok |-> 0, phase |-> "none", wf |-> FALSE]
Running(t, phase, known) == [status |-> "running", tok |-> t, phase |-> phase, wf |-> known]
Failed(t) == [status |-> "failed", tok |-> t, phase |-> "none", wf |-> FALSE]

Init ==
    /\ lock = [i \in Ids |-> 0] /\ st = [i \in Ids |-> NoState]
    /\ snap = [i \in Ids |-> 0] /\ adm = {}
    /\ id = [t \in Tokens |-> CHOOSE i \in Ids : TRUE]
    /\ req = [t \in Tokens |-> "none"] /\ auto = {}
    /\ wf = [t \in Tokens |-> "none"] /\ act = [t \in Tokens |-> "none"]
    /\ renewing = {} /\ seen = {} /\ drawn = 0 /\ lapsed = {}

Owns(t) == lock[id[t]] = t

\* An activity that renews its lease.
Alive(t) == act[t] \in {"activating", "reading", "loaded", "published", "ending"}

\* Mutant: the admission script does not count.
HasRoomAlways(t, limit) == TRUE

\* _REDIS_CLAIM_SCOPE_ADMISSION_SCRIPT and _REDIS_RENEW_SCOPE_ADMISSION_SCRIPT.
HasRoom(t, limit) == t \in adm \/ Cardinality(adm) < limit

\* _revalidation_admission_limit: a revalidation leaves a slot free.
Limit(t) == IF t \in auto /\ MaxInflight > 1 THEN MaxInflight - 1 ELSE MaxInflight

\* finish_exact_refresh: the claim is released by its owner, the admission anyway.
Finish(t, succeeded) ==
    /\ IF Owns(t)
       THEN /\ st' = [st EXCEPT ![id[t]] = IF succeeded THEN NoState ELSE Failed(t)]
            /\ lock' = [lock EXCEPT ![id[t]] = 0]
       ELSE UNCHANGED <<st, lock>>
    /\ adm' = adm \ {t} /\ UNCHANGED snap

-----------------------------------------------------------------------------
(* The request (read_or_schedule_exact_snapshot)                           *)

\* begin_exact_refresh on a free claim: an explicit reload, a cold miss that has not
\* failed, or the revalidation of a stored snapshot with a slot to spare.  A claim whose
\* response is lost is read back, or left to expire like that of a request that dies.
Begin(i) ==
    LET t == drawn + 1 IN
    /\ drawn < MaxTokens /\ lock[i] = 0
    /\ lock' = [lock EXCEPT ![i] = t]
    /\ st' = [st EXCEPT ![i] = Running(t, "dispatch", FALSE)]
    /\ drawn' = t /\ id' = [id EXCEPT ![t] = i] /\ req' = [req EXCEPT ![t] = "claimed"]
    /\ \/ auto' = auto
       \/ /\ snap[i] # 0 /\ st[i] = NoState
          /\ auto' = auto \cup {t}
    /\ UNCHANGED <<snap, adm, wf, act, renewing, seen, lapsed>>

\* _claim_exact_refresh_admission.
Admit(t) ==
    /\ req[t] = "claimed" /\ HasRoom(t, Limit(t))
    /\ adm' = adm \cup {t} /\ req' = [req EXCEPT ![t] = "admitted"]
    /\ UNCHANGED <<lock, st, snap, id, auto, wf, act, renewing, seen, drawn, lapsed>>

\* No slot, or the cache failed: the claim is released without a failed state.
Defer(t) ==
    /\ req[t] = "claimed" /\ Finish(t, TRUE)
    /\ req' = [req EXCEPT ![t] = "done"]
    /\ UNCHANGED <<id, auto, wf, act, renewing, seen, drawn, lapsed>>

\* _enqueue_exact_refresh: the workflow is started.
Enqueue(t) ==
    /\ req[t] = "admitted" /\ req' = [req EXCEPT ![t] = "enqueued"]
    /\ wf' = [wf EXCEPT ![t] = "open"] /\ act' = [act EXCEPT ![t] = "queued"]
    /\ UNCHANGED <<redis, id, auto, renewing, seen, drawn, lapsed>>

\* The dispatch fails or times out, in which case Temporal may have it nevertheless.
EnqueueFails(t) ==
    /\ req[t] = "admitted" /\ req' = [req EXCEPT ![t] = "failing"]
    /\ \/ UNCHANGED <<wf, act>>
       \/ /\ LateAccepts
          /\ wf' = [wf EXCEPT ![t] = "open"] /\ act' = [act EXCEPT ![t] = "queued"]
    /\ UNCHANGED <<redis, id, auto, renewing, seen, drawn, lapsed>>

FailDispatch(t) ==
    /\ req[t] = "failing" /\ Finish(t, FALSE)
    /\ req' = [req EXCEPT ![t] = "done"]
    /\ UNCHANGED <<id, auto, wf, act, renewing, seen, drawn, lapsed>>

\* Mutant: the workflow id is attached whatever became of the claim.
RecordDispatchUnfenced(t) ==
    /\ req[t] = "enqueued" /\ req' = [req EXCEPT ![t] = "done"]
    /\ st' = [st EXCEPT ![id[t]] = Running(t, "dispatch", TRUE)]
    /\ UNCHANGED <<lock, snap, adm, id, auto, wf, act, renewing, seen, drawn, lapsed>>

\* record_exact_refresh_dispatch.
RecordDispatch(t) ==
    /\ req[t] = "enqueued" /\ req' = [req EXCEPT ![t] = "done"]
    /\ st' = IF Owns(t) /\ st[id[t]] = Running(t, "dispatch", FALSE)
             THEN [st EXCEPT ![id[t]] = Running(t, "dispatch", TRUE)] ELSE st
    /\ UNCHANGED <<lock, snap, adm, id, auto, wf, act, renewing, seen, drawn, lapsed>>

\* The request is killed, or the response of one of its scripts is lost.
RequestDies(t) ==
    /\ req[t] \in {"claimed", "admitted", "enqueued", "failing"}
    /\ req' = [req EXCEPT ![t] = "done"]
    /\ UNCHANGED <<redis, id, auto, wf, act, renewing, seen, drawn, lapsed>>

\* _release_terminal_dispatch_claim of a poll, up to the answer of Temporal: the state
\* is a dispatch with a workflow id, and that workflow is terminal.
Inspect(i) ==
    /\ st[i].phase = "dispatch" /\ st[i].wf /\ wf[st[i].tok] = "closed"
    /\ \A s \in seen : s[1] # i
    /\ seen' = seen \cup {<<i, st[i].tok>>}
    /\ UNCHANGED <<redis, id, req, auto, wf, act, renewing, drawn, lapsed>>

\* Mutant: only the token is compared, not the state that was inspected.
ReleaseByToken(i, t) == lock[i] = t

\* _REDIS_FENCED_RELEASE_DISPATCH_SCRIPT finds what was inspected.
StillDispatched(i, t) == lock[i] = t /\ st[i] = Running(t, "dispatch", TRUE)

\* _release_exact_refresh_dispatch.
Release(i, t) ==
    /\ <<i, t>> \in seen /\ seen' = seen \ {<<i, t>>}
    /\ IF StillDispatched(i, t)
       THEN /\ lock' = [lock EXCEPT ![i] = 0] /\ st' = [st EXCEPT ![i] = NoState]
            /\ adm' = adm \ {t}
       ELSE UNCHANGED <<lock, st, adm>>
    /\ UNCHANGED <<snap, id, req, auto, wf, act, renewing, drawn, lapsed>>

-----------------------------------------------------------------------------
(* The activity (refresh_exact_aggregation_snapshot)                       *)

To(t, pc) == act' = [act EXCEPT ![t] = pc]

\* activate_exact_refresh, first script: the claim is promoted by its owner.
Activate(t) ==
    /\ act[t] = "queued"
    /\ IF Owns(t)
       THEN /\ st' = [st EXCEPT ![id[t]] = Running(t, "running", FALSE)]
            /\ To(t, "activating")
       ELSE st' = st /\ To(t, "ending")
    /\ UNCHANGED <<lock, snap, adm, id, req, auto, wf, renewing, seen, drawn, lapsed>>

\* activate_exact_refresh, second part: the admission is renewed, or claimed again.
ActivateAdmitted(t) ==
    /\ act[t] = "activating"
    /\ \/ /\ HasRoom(t, MaxInflight)
          /\ adm' = adm \cup {t} /\ To(t, "reading")
       \/ /\ ~HasRoom(t, MaxInflight)
          /\ adm' = adm /\ To(t, "ending")
    /\ UNCHANGED <<lock, st, snap, id, req, auto, wf, renewing, seen, drawn, lapsed>>

\* The renewal thread, first script.  It changes nothing once the claim is lost.
RenewLease(t) ==
    /\ act[t] = "reading" /\ t \notin renewing /\ Owns(t)
    /\ st' = [st EXCEPT ![id[t]] = Running(t, "running", FALSE)]
    /\ renewing' = renewing \cup {t}
    /\ UNCHANGED <<lock, snap, adm, id, req, auto, wf, act, seen, drawn, lapsed>>

\* The renewal thread, second part.  The activity waits at most a second for it.
RenewAdmission(t) ==
    /\ t \in renewing /\ renewing' = renewing \ {t}
    /\ adm' = IF HasRoom(t, MaxInflight) THEN adm \cup {t} ELSE adm
    /\ UNCHANGED <<lock, st, snap, id, req, auto, wf, act, seen, drawn, lapsed>>

\* The ClickHouse read returns; refresh_claim_is_current is asked.
ReadEnds(t) ==
    /\ act[t] = "reading"
    /\ \/ Owns(t) /\ To(t, "loaded")
       \/ To(t, "ending")
    /\ UNCHANGED <<redis, id, req, auto, wf, renewing, seen, drawn, lapsed>>

\* Mutant: the snapshot is stored on the strength of the earlier check.
PublishUnfenced(t) ==
    /\ act[t] = "loaded"
    /\ snap' = [snap EXCEPT ![id[t]] = t] /\ To(t, "published")
    /\ lock' = [lock EXCEPT ![id[t]] = 0] /\ st' = [st EXCEPT ![id[t]] = NoState]
    /\ UNCHANGED <<adm, id, req, auto, wf, renewing, seen, drawn, lapsed>>

\* publish_exact_snapshot_for_refresh.
Publish(t) ==
    /\ act[t] = "loaded"
    /\ IF Owns(t)
       THEN /\ snap' = [snap EXCEPT ![id[t]] = t] /\ To(t, "published")
            /\ lock' = [lock EXCEPT ![id[t]] = 0] /\ st' = [st EXCEPT ![id[t]] = NoState]
       ELSE UNCHANGED <<snap, lock, st>> /\ To(t, "ending")
    /\ UNCHANGED <<adm, id, req, auto, wf, renewing, seen, drawn, lapsed>>

FinishActivity(t) ==
    /\ act[t] \in {"published", "ending"}
    /\ Finish(t, act[t] = "published")
    /\ To(t, "done") /\ wf' = [wf EXCEPT ![t] = "closed"]
    /\ UNCHANGED <<id, req, auto, renewing, seen, drawn, lapsed>>

\* The worker process dies with its activity and its renewal thread.
WorkerDies(t) ==
    /\ Alive(t) /\ To(t, "done") /\ renewing' = renewing \ {t}
    /\ UNCHANGED <<redis, id, req, auto, wf, seen, drawn, lapsed>>

-----------------------------------------------------------------------------
(* Temporal and the key expiries of Redis                                  *)

\* The workflow ends by a timeout, or by a worker that cannot run it.  A thread that
\* was already handed the activity goes on.
WorkflowEnds(t) ==
    /\ wf[t] = "open" /\ wf' = [wf EXCEPT ![t] = "closed"]
    /\ \/ act' = act
       \/ act[t] = "queued" /\ To(t, "done")
    /\ UNCHANGED <<redis, id, req, auto, renewing, seen, drawn, lapsed>>

\* Mutant: a dispatch claim has no expiry.
LeaseExpiresOnlyRunning(i) ==
    /\ lock[i] # 0 /\ st[i].phase = "running" /\ ~Alive(lock[i])
    /\ lock' = [lock EXCEPT ![i] = 0] /\ st' = [st EXCEPT ![i] = NoState]
    /\ UNCHANGED <<snap, adm, id, req, auto, wf, act, renewing, seen, drawn, lapsed>>

\* Lock and state expire together: a dispatch lease at any time, a running lease when
\* nobody renews it.
LeaseExpires(i) ==
    /\ lock[i] # 0 /\ (st[i].phase = "running" => ~Alive(lock[i]))
    /\ lock' = [lock EXCEPT ![i] = 0] /\ st' = [st EXCEPT ![i] = NoState]
    /\ UNCHANGED <<snap, adm, id, req, auto, wf, act, renewing, seen, drawn, lapsed>>

\* No renewal of a live activity succeeds for the length of its lease.
LeaseLapses(t) ==
    /\ Alive(t) /\ Owns(t) /\ Cardinality(lapsed) < MaxLapses
    /\ lock' = [lock EXCEPT ![id[t]] = 0] /\ st' = [st EXCEPT ![id[t]] = NoState]
    /\ lapsed' = lapsed \cup {t}
    /\ UNCHANGED <<snap, adm, id, req, auto, wf, act, renewing, seen, drawn>>

AdmissionExpires(t) ==
    /\ t \in adm /\ (Alive(t) => t \in lapsed) /\ adm' = adm \ {t}
    /\ UNCHANGED <<lock, st, snap, id, req, auto, wf, act, renewing, seen, drawn, lapsed>>

FailureExpires(i) ==
    /\ st[i].status = "failed" /\ st' = [st EXCEPT ![i] = NoState]
    /\ UNCHANGED <<lock, snap, adm, id, req, auto, wf, act, renewing, seen, drawn, lapsed>>

RequestStep(t) ==
    Admit(t) \/ Defer(t) \/ Enqueue(t) \/ EnqueueFails(t) \/ FailDispatch(t) \/ RecordDispatch(t)
ActivityStep(t) ==
    \/ Activate(t) \/ ActivateAdmitted(t) \/ ReadEnds(t) \/ Publish(t) \/ FinishActivity(t)

Next ==
    \/ \E i \in Ids : Begin(i) \/ Inspect(i) \/ LeaseExpires(i) \/ FailureExpires(i)
    \/ \E i \in Ids, t \in Tokens : Release(i, t)
    \/ \E t \in Tokens :
          \/ RequestStep(t) \/ RequestDies(t) \/ ActivityStep(t)
          \/ RenewLease(t) \/ RenewAdmission(t) \/ WorkerDies(t) \/ WorkflowEnds(t)
          \/ LeaseLapses(t) \/ AdmissionExpires(t)

\* A worker runs what it was given to the end (the read has a wall-clock cap) and keys
\* expire.  Nothing obliges a request to go on or a queued activity to start.
Fairness ==
    /\ \A t \in Tokens : WF_vars(ActivityStep(t) /\ act[t] # "queued")
    /\ \A i \in Ids : WF_vars(LeaseExpires(i))

Safety == Init /\ [][Next]_vars
Spec == Safety /\ Fairness

-----------------------------------------------------------------------------
(* Properties                                                              *)

\* The two Redis keys of a claim agree: a state says running exactly while the lock of
\* the same token is held, so no running state that a response reads is one nobody owns,
\* and nothing brings back the state of a finished claim.  (A response whose admission is
\* deferred says running without a state, exact_aggregation_cache.py:1985.)
StateFollowsLock ==
    \A i \in Ids : IF lock[i] = 0 THEN st[i].status # "running"
                   ELSE st[i].status = "running" /\ st[i].tok = lock[i]

Readers == {t \in Tokens : act[t] = "reading"}

\* At most one activity of an identity reads ClickHouse: a replacement claim never
\* overlaps work still running for an older one, whose workflow may be long terminal.  The
\* lease stands for the reader: one whose renewals all failed is not counted.
OneReader == \A t, u \in Readers \ lapsed : id[t] = id[u] => t = u

\* Reads of a tenant stay within its admission limit, across claims that expire, are
\* deferred, re-admitted at activation or renewed after the activity has finished.
ScopeCapacity == Cardinality(Readers \ lapsed) <= MaxInflight

\* A worker that lost its claim never stores its result over a newer one.
SnapshotsAdvance == [][\A i \in Ids : snap'[i] >= snap[i]]_vars

\* A chart does not stay refreshing for ever, although requests, workflows and workers
\* die at any point.
RefreshEnds == \A i \in Ids : st[i].status = "running" ~> st[i].status # "running"
=============================================================================
