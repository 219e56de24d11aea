--------------------------- MODULE Investigation ---------------------------
(***************************************************************************)
(* The investigation ledger (tracer/services/trace_investigation.py and    *)
(* simulation_investigation.py).                                           *)
(*                                                                         *)
(* A job is one trace of an observed project or one call of a simulation   *)
(* run.  Notifications, requeues and re-arms advance its generation.       *)
(* Workers claim a generation under a lease and publish one report of it,  *)
(* on time, after the lease ran out, after they were superseded, or never. *)
(* Every handler is one transaction that locks the attempt and the job; it *)
(* reads the clock before it has the locks, which is why a publication     *)
(* here arrives and commits in two steps.  Reports and attempts are named  *)
(* by the job and the generation: unique_trace_investigation_attempt.      *)
(***************************************************************************)
EXTENDS Naturals, FiniteSets

CONSTANTS
    TraceJobs,   \* jobs of one observed project
    CallJobs,    \* jobs of one simulation run, in a project of its own
    Capacity,    \* ERROR_FEED_OMEGA_PROJECT_CONCURRENCY
    NumDelays,   \* len(_RETRY_DELAYS)
    MaxInputs,   \* bound: notifications, requeues and re-arms of a job
    MaxReports,  \* bound: publications of a job
    MaxChanges   \* bound: changes of the scan configuration

Jobs == TraceJobs \cup CallJobs

ASSUME JobsAssumption == TraceJobs \cap CallJobs = {}
ASSUME CapacityAssumption == Capacity \in Nat /\ NumDelays \in Nat \ {0}
ASSUME InvestigationBounds == MaxInputs \in Nat /\ MaxReports \in Nat /\ MaxChanges \in Nat

VARIABLES
    job,      \* TraceInvestigationJob: state, generation, not_before passed, current_report
    att,      \* TraceInvestigationAttempt per generation: status, lease run out
    report,   \* TraceInvestigationReport.execution_status per generation
    flagged,  \* generations whose report has is_current
    arrived,  \* publications whose handler has read the clock and waits for its locks
    counting, \* call jobs whose claim has passed the capacity check, not yet committed
    config,   \* TraceScanConfig: the trace is sampled, sampled out, or scanning is off
    inputs, changes   \* bounded counters

vars == <<job, att, report, flagged, arrived, counting, config, inputs, changes>>

\* Generations are unbounded in the code; RetriesAreBounded shows that none is missing.
MaxGen == MaxInputs + NumDelays * (1 + MaxReports)
Gens == 1 .. MaxGen

Init ==
    /\ job = [j \in Jobs |-> [state |-> "absent", gen |-> 0, ready |-> FALSE, current |-> 0]]
    /\ att = [j \in Jobs |-> [g \in Gens |-> [status |-> "none", due |-> FALSE]]]
    /\ report = [j \in Jobs |-> [g \in Gens |-> "none"]]
    /\ flagged = [j \in Jobs |-> {}]
    /\ arrived = {} /\ counting = {}
    /\ config = "sampled"
    /\ inputs = [j \in Jobs |-> 0] /\ changes = 0

-----------------------------------------------------------------------------
(* Helpers                                                                 *)

\* Jobs of the two projects share nothing, so one behaviour has jobs of one of them.
Peers(j) == IF j \in TraceJobs THEN TraceJobs ELSE CallJobs
OneProject(j) == \A k \in Jobs \ Peers(j) : job[k].state = "absent"

Input(j) ==
    /\ inputs[j] < MaxInputs
    /\ inputs' = [inputs EXCEPT ![j] = @ + 1]
    /\ UNCHANGED changes

\* The row lock of a job is held by an uncommitted claim.
Unlocked(j) == j \notin counting

Overdue(j) == {g \in Gens : att[j][g].due}

\* Claims of a project whose leases have not run out.
Active(j) == {c \in Peers(j) \X Gens :
                 LET a == att[c[1]][c[2]] IN a.status = "claimed" /\ ~a.due}

\* _superseded_job_state, at a time when the leases of overdue had run out.
SupersededState(b, a, overdue) ==
    IF a[b.gen].status = "claimed" /\ b.gen \notin overdue THEN "running" ELSE "waiting"

\* Mutant: one retry more than there are delays.
RetryLeftOneMore(j, a, rep) ==
    /\ j \in TraceJobs
    /\ LET read == {g \in Gens : a[g].status = "completed" /\ rep[g] = "completed"}
           unread == {g \in Gens : a[g].status # "none" /\ \A h \in read : h < g}
       IN  unread # {} /\ Cardinality(unread) <= NumDelays + 1

\* _retry_delay is not None: an unread trace has automatic attempts left.
RetryLeft(j, a, rep) ==
    /\ j \in TraceJobs
    /\ LET read == {g \in Gens : a[g].status = "completed" /\ rep[g] = "completed"}
           unread == {g \in Gens : a[g].status # "none" /\ \A h \in read : h < g}
       IN  unread # {} /\ Cardinality(unread) <= NumDelays

\* Mutant: the end of a superseded attempt leaves the job as it is.
SettleKeepsSuperseded(j, b, a, rep, g, overdue, ended, retry) ==
    IF b.state # "running" \/ b.gen > g THEN b
    ELSE IF retry /\ RetryLeft(j, a, rep)
         THEN [b EXCEPT !.gen = @ + 1, !.state = "waiting", !.ready = FALSE]
         ELSE [b EXCEPT !.state = ended]

\* _settle_job: the job b once its attempt g has ended; a and rep are its attempts
\* and reports, retry says that the failure is one of _RETRYABLE_FAILURES.
Settle(j, b, a, rep, g, overdue, ended, retry) ==
    IF b.state # "running" THEN b
    ELSE IF b.gen > g THEN [b EXCEPT !.state = SupersededState(b, a, overdue)]
    ELSE IF retry /\ RetryLeft(j, a, rep)
         THEN [b EXCEPT !.gen = @ + 1, !.state = "waiting", !.ready = FALSE]
         ELSE [b EXCEPT !.state = ended]

\* _unread: the analysis of a call ended without a usable report.
Unread(b, rep) ==
    \/ b.state = "cancelled"
    \/ b.state = "completed" /\ b.current # 0 /\ rep[b.current] = "failed"

\* _rearm.
Rearm(b) == [b EXCEPT !.gen = @ + 1, !.state = "waiting", !.ready = TRUE, !.current = 0]

-----------------------------------------------------------------------------
(* Notifications, requeues, re-arms and the scan configuration             *)

\* record_trace_notifications of a new event for the trace.  A redelivered event
\* changes nothing (its receipt exists), and so does one of a trace sampled out.
Notify(j) ==
    /\ config = "sampled" /\ OneProject(j) /\ Input(j)
    /\ LET b == job[j] IN
       job' = [job EXCEPT ![j] =
          IF b.state = "absent" THEN [b EXCEPT !.gen = 1, !.state = "waiting"]
          ELSE [b EXCEPT !.gen = @ + 1, !.ready = FALSE,
                         !.state = IF b.state = "running" THEN "running" ELSE "waiting"]]
    /\ UNCHANGED <<att, report, flagged, arrived, counting, config>>

\* requeue_unread_investigations(apply=True): eligibility is read under the row lock.
Requeue(j) ==
    /\ config = "sampled" /\ Input(j)
    /\ job[j].state \in {"cancelled", "completed"}
    /\ job[j].current # 0 => report[j][job[j].current] = "failed"
    /\ job' = [job EXCEPT ![j].gen = @ + 1, ![j].state = "waiting", ![j].ready = TRUE]
    /\ UNCHANGED <<att, report, flagged, arrived, counting, config>>

\* ensure_simulation_investigation of a completed run: a missing job is created, an
\* unread one re-armed.  The loop over the calls is one transaction.
EnsureSimulation ==
    LET touched == {j \in CallJobs : job[j].state = "absent" \/ Unread(job[j], report[j])}
    IN  /\ touched # {} /\ counting = {}
        /\ \A j \in touched : OneProject(j) /\ inputs[j] < MaxInputs
        /\ job' = [j \in Jobs |->
              IF j \notin touched THEN job[j]
              ELSE IF job[j].state = "absent"
                   THEN [state |-> "waiting", gen |-> 1, ready |-> TRUE, current |-> 0]
                   ELSE Rearm(job[j])]
        /\ flagged' = [j \in Jobs |-> IF j \in touched THEN flagged[j] \ {job[j].current}
                                      ELSE flagged[j]]
        /\ inputs' = [j \in Jobs |-> IF j \in touched THEN inputs[j] + 1 ELSE inputs[j]]
        /\ UNCHANGED <<att, report, arrived, counting, config, changes>>

\* A user changes the sampling rate of the project or switches scanning off or on.
Configure(c) ==
    /\ changes < MaxChanges /\ c # config
    /\ \E j \in TraceJobs : job[j].state # "absent"
    /\ config' = c /\ changes' = changes + 1
    /\ UNCHANGED <<job, att, report, flagged, arrived, counting, inputs>>

-----------------------------------------------------------------------------
(* Claims                                                                  *)

\* A job that claim_due_investigations may take.  A second attempt of the same
\* generation violates unique_trace_investigation_attempt and the claim is rolled back.
Claimable(j) ==
    /\ job[j].state = "waiting" /\ job[j].ready
    /\ Cardinality(Active(j)) < Capacity
    /\ att[j][job[j].gen].status = "none"

Attempted(j) ==
    /\ att' = [att EXCEPT ![j][job[j].gen] = [status |-> "claimed", due |-> FALSE]]
    /\ job' = [job EXCEPT ![j].state = "running"]

\* The claim of a trace, one transaction under the lock of the project's scan config.
ClaimTrace(j) ==
    /\ config = "sampled" /\ Claimable(j) /\ Attempted(j)
    /\ UNCHANGED <<report, flagged, arrived, counting, config, inputs, changes>>

\* Mutant: a claim skips a trace that is sampled out and leaves it queued.
ClaimSampledOutSkips(j) ==
    /\ config = "sampled_out" /\ job[j].state = "waiting" /\ job[j].ready
    /\ UNCHANGED vars

\* A claim that finds the trace sampled out cancels the job.
ClaimSampledOut(j) ==
    /\ config = "sampled_out" /\ job[j].state = "waiting" /\ job[j].ready
    /\ job' = [job EXCEPT ![j].state = "cancelled"]
    /\ UNCHANGED <<att, report, flagged, arrived, counting, config, inputs, changes>>

\* The claim of a call locks only its own job: the count of active claims and the
\* new attempt are two steps that claims of other calls can come between.
ClaimCallCounts(j) ==
    /\ Unlocked(j) /\ Claimable(j)
    /\ counting' = counting \cup {j}
    /\ UNCHANGED <<job, att, report, flagged, arrived, config, inputs, changes>>

ClaimCallCommits(j) ==
    /\ j \in counting /\ counting' = counting \ {j}
    /\ Attempted(j)
    /\ UNCHANGED <<report, flagged, arrived, config, inputs, changes>>

-----------------------------------------------------------------------------
(* The end of an attempt                                                   *)

\* The attempt ends with a status and no report, and the job is settled.
End(j, g, status, retry) ==
    LET a == [att[j] EXCEPT ![g].status = status] IN
    /\ Unlocked(j) /\ att[j][g].status = "claimed"
    /\ att' = [att EXCEPT ![j] = a]
    /\ job' = [job EXCEPT ![j] =
                  Settle(j, @, a, report[j], g, Overdue(j), "cancelled", retry)]
    /\ UNCHANGED <<report, flagged, arrived, counting, config, inputs, changes>>

\* Mutant: a poll expires claims whose lease still runs.
ExpireEarly(j, g) == End(j, g, "expired", TRUE)

\* _expire_claims of a poll, for one attempt, and update_investigation_attempt on an
\* attempt whose lease ran out.  A poll takes the attempts in batches and skips the
\* locked ones, so those of one job need not be expired together.
Expire(j, g) == att[j][g].due /\ End(j, g, "expired", TRUE)

\* update_investigation_attempt, action cancel.  (A renewal only moves the lease.)
Cancel(j, g) == ~att[j][g].due /\ End(j, g, "cancelled", FALSE)

\* publish_investigation up to its locks.  Only attempts of the job matter to it.
PublishArrives(j, g, result) ==
    /\ att[j][g].status # "none" /\ report[j][g] = "none"
    /\ Cardinality({h \in Gens : report[j][h] # "none"}
                   \cup {p.gen : p \in {q \in arrived : q.job = j}}) < MaxReports
    /\ \A p \in arrived : <<p.job, p.gen>> # <<j, g>>
    /\ arrived' = arrived \cup
          {[job |-> j, gen |-> g, result |-> result, overdue |-> Overdue(j)]}
    /\ UNCHANGED <<job, att, report, flagged, counting, config, inputs, changes>>

OnTime(p) ==
    /\ job[p.job].gen = p.gen /\ job[p.job].state = "running"
    /\ att[p.job][p.gen].status = "claimed" /\ p.gen \notin p.overdue

\* Mutant: a late report is used although a later attempt was claimed.
LateAnyway(p) ==
    /\ ~OnTime(p) /\ p.job \in TraceJobs /\ p.result = "completed"
    /\ p.gen \in p.overdue /\ att[p.job][p.gen].status \in {"claimed", "expired"}

Late(p) ==
    /\ ~OnTime(p) /\ p.job \in TraceJobs /\ p.result = "completed"
    /\ p.gen \in p.overdue /\ att[p.job][p.gen].status \in {"claimed", "expired"}
    /\ \A h \in Gens : h > p.gen => att[p.job][h].status = "none"

\* A failed report never replaces a completed one.
BecomesCurrent(p) ==
    /\ OnTime(p) \/ Late(p)
    /\ ~(/\ p.result # "completed" /\ job[p.job].current # 0
         /\ report[p.job][job[p.job].current] = "completed")

\* The attempts, and then the job, once p is stored; rep are the reports with it.
AttemptsAfter(p) ==
    LET a == att[p.job] IN
    IF ~Late(p) /\ a[p.gen].status # "claimed" THEN a
    ELSE [a EXCEPT ![p.gen].status =
             IF OnTime(p) \/ Late(p) \/ p.gen \notin p.overdue THEN "completed" ELSE "expired"]

JobAfter(p, rep) ==
    LET b == [job[p.job] EXCEPT !.current = IF BecomesCurrent(p) THEN p.gen ELSE @]
        active == OnTime(p) \/ Late(p)
    IN  IF Late(p) /\ b.state # "running"
        THEN [b EXCEPT !.state = IF @ = "cancelled" THEN "completed" ELSE @]
        ELSE Settle(p.job, b, AttemptsAfter(p), rep, p.gen, p.overdue,
                    IF active THEN "completed" ELSE "cancelled",
                    ~active \/ p.result = "retryable")

\* retry_unread_call_once.
RetriedOnce(p, rep) ==
    /\ p.job \in CallJobs
    /\ Cardinality({h \in Gens : rep[h] # "none"}) = 1
    /\ Unread(JobAfter(p, rep), rep)

\* Mutant: a re-armed call keeps the flag of the report it discards.
FlagsKeptAfter(p, rep) == IF BecomesCurrent(p) THEN {p.gen} ELSE flagged[p.job]

\* The is_current flags of the job's reports: a new current report clears the others,
\* a re-armed call its own.
FlagsAfter(p, rep) ==
    (IF BecomesCurrent(p) THEN {p.gen} ELSE flagged[p.job])
       \ (IF RetriedOnce(p, rep) THEN {JobAfter(p, rep).current} ELSE {})

\* publish_investigation under its locks.
PublishCommits(p) ==
    LET rep == [report[p.job] EXCEPT ![p.gen] =
                   IF p.result = "completed" THEN "completed" ELSE "failed"]
    IN  /\ Unlocked(p.job) /\ arrived' = arrived \ {p}
        /\ report' = [report EXCEPT ![p.job] = rep]
        /\ att' = [att EXCEPT ![p.job] = AttemptsAfter(p)]
        /\ job' = [job EXCEPT ![p.job] =
              IF RetriedOnce(p, rep) THEN Rearm(JobAfter(p, rep)) ELSE JobAfter(p, rep)]
        /\ flagged' = [flagged EXCEPT ![p.job] = FlagsAfter(p, rep)]
        /\ UNCHANGED <<counting, config, inputs, changes>>

-----------------------------------------------------------------------------
(* Time                                                                    *)

\* A lease runs out: its worker is slow, partitioned or dead.
LeaseRunsOut(j, g) ==
    /\ att[j][g].status = "claimed" /\ ~att[j][g].due
    /\ att' = [att EXCEPT ![j][g].due = TRUE]
    /\ UNCHANGED <<job, report, flagged, arrived, counting, config, inputs, changes>>

\* not_before passes.
BecomesReady(j) ==
    /\ job[j].state \in {"waiting", "running"} /\ ~job[j].ready
    /\ job' = [job EXCEPT ![j].ready = TRUE]
    /\ UNCHANGED <<att, report, flagged, arrived, counting, config, inputs, changes>>

Next ==
    \/ \E j \in TraceJobs : Notify(j) \/ Requeue(j) \/ ClaimTrace(j) \/ ClaimSampledOut(j)
    \/ EnsureSimulation
    \/ \E c \in {"sampled", "sampled_out", "off"} : Configure(c)
    \/ \E j \in CallJobs : ClaimCallCounts(j) \/ ClaimCallCommits(j)
    \/ \E j \in Jobs, g \in Gens :
          \/ Expire(j, g) \/ Cancel(j, g) \/ LeaseRunsOut(j, g)
          \/ \E result \in {"completed", "retryable", "final"} : PublishArrives(j, g, result)
    \/ \E p \in arrived : PublishCommits(p)
    \/ \E j \in Jobs : BecomesReady(j)

\* Workers poll, so due jobs are claimed and run-out leases expired; a handler that
\* has arrived gets its locks; time passes, and a worker that reached its deadline
\* (limits.deadline_seconds) renews no more.  Nothing obliges a worker to publish.
Fairness ==
    /\ \A j \in TraceJobs : WF_vars(ClaimTrace(j)) /\ WF_vars(ClaimSampledOut(j))
    /\ \A j \in CallJobs : WF_vars(ClaimCallCounts(j)) /\ WF_vars(ClaimCallCommits(j))
    /\ \A j \in Jobs : WF_vars(BecomesReady(j))
    /\ \A j \in Jobs, g \in Gens : WF_vars(Expire(j, g)) /\ WF_vars(LeaseRunsOut(j, g))
    /\ WF_vars(\E p \in arrived : PublishCommits(p))

Safety == Init /\ [][Next]_vars
Spec == Safety /\ Fairness

-----------------------------------------------------------------------------
(* Properties                                                              *)

\* The ledger is well formed: what a handler stores stays within its columns, and a
\* report belongs to an attempt that was claimed, an expired attempt to a lease that
\* ran out.
LedgerTypeOK ==
    /\ job \in [Jobs -> [state : {"absent", "waiting", "running", "completed", "cancelled"},
                         gen : 0 .. MaxGen, ready : BOOLEAN, current : 0 .. MaxGen]]
    /\ att \in [Jobs -> [Gens -> [status : {"none", "claimed", "completed", "expired",
                                            "cancelled"}, due : BOOLEAN]]]
    /\ report \in [Jobs -> [Gens -> {"none", "completed", "failed"}]]
    /\ flagged \in [Jobs -> SUBSET Gens]
    /\ arrived \subseteq [job : Jobs, gen : Gens, overdue : SUBSET Gens,
                          result : {"completed", "retryable", "final"}]
    /\ counting \subseteq CallJobs /\ config \in {"sampled", "sampled_out", "off"}
    /\ \A j \in Jobs, g \in Gens :
          /\ report[j][g] # "none" => att[j][g].status # "none"
          /\ att[j][g].status = "expired" => att[j][g].due

\* No job is lost in the running state: some attempt of it is still claimed, so the end
\* of that attempt will settle the job, whatever reports of older attempts arrived
\* meanwhile (_settle_job is the only way out of running).
RunningIsClaimed ==
    \A j \in Jobs : job[j].state = "running" =>
        \E g \in Gens : g <= job[j].gen /\ att[j][g].status = "claimed"

\* The pointer of the job and the is_current flags of its reports, which two code paths
\* write separately, name the same report; the Feed reads one and the ledger the other.
PointerMatchesFlag ==
    \A j \in Jobs : flagged[j] = IF job[j].current = 0 THEN {} ELSE {job[j].current}

\* Automatic attempts are bounded: between two reads of a trace a job adds at most
\* NumDelays generations of its own ("A trace job stops after one more unread attempt
\* in a row than there are delays"), and a call at most one.
RetriesAreBounded ==
    \A j \in Jobs :
        LET reads == {g \in Gens : att[j][g].status = "completed" /\ report[j][g] = "completed"}
        IN  job[j].gen <= inputs[j] + (IF j \in CallJobs THEN 1
                                       ELSE NumDelays * (1 + Cardinality(reads)))

\* What a reader of the Feed sees never gets older or worse: a trace's current report is
\* replaced only by one of a later generation, and a completed one never by a failed
\* one, in whatever order the reports of its attempts arrive.
ReportsOnlyImprove ==
    [][\A j \in TraceJobs : job'[j].current # job[j].current =>
          /\ job'[j].current > job[j].current
          /\ job[j].current # 0 /\ report[j][job[j].current] = "completed" =>
                report'[j][job'[j].current] = "completed"]_vars

\* A job whose generation already has an attempt can never be claimed again.
Collides(j) == job[j].state = "waiting" /\ att[j][job[j].gen].status # "none"

\* Every notified, requeued or re-armed job is finished or given up, although workers
\* may die, unless scanning is off or its next claim collides (FreshGeneration).
JobsSettle ==
    \A j \in Jobs : job[j].state \in {"waiting", "running"} ~>
        job[j].state \in {"completed", "cancelled"} \/ config = "off" \/ Collides(j)

\* A queued job is queued under a generation of its own ("A newer generation keeps its
\* own claim or its place in the queue").
FreshGeneration == \A j \in Jobs : ~Collides(j)
=============================================================================
