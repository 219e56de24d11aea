------------------------------ MODULE Credits ------------------------------
(***************************************************************************)
(* Prepaid credits of one managed key in a gateway of several replicas:    *)
(* the credits plugin (plugins/credits/credits.go), the shared balance in  *)
(* Redis (redisstate/credits.go), each replica's copy of it                *)
(* (auth/keystore.go, creditBalance) and the seeding at startup            *)
(* (cmd/agentcc/main.go).                                                  *)
(*                                                                         *)
(* A request checks the balance, runs upstream, and is charged when its    *)
(* response is there; between the steps other requests of this and other   *)
(* replicas run.  A call to Redis and the store of its result in the       *)
(* replica's copy are separate steps.  A replica is cut off while its      *)
(* Redis client times out or its circuit is open; it then uses its copy.   *)
(***************************************************************************)
EXTENDS Integers, FiniteSets

CONSTANTS
    Replicas,
    Requests,      \* request slots: how many run at the same time
    Seed,          \* configured balance of the key
    MaxCost,       \* most a request costs
    MaxSpent,      \* bound: a request costs something below this total
    MaxCuts,       \* bound: times a replica loses Redis
    MaxRestarts,   \* bound: crashes
    MaxTopUps      \* bound: calls of AddCredits, of one unit each

ASSUME AmountAssumption == Seed \in Nat \ {0} /\ MaxCost \in Nat \ {0}

ASSUME LimitAssumption ==
    MaxSpent \in Nat /\ MaxCuts \in Nat /\ MaxRestarts \in Nat /\ MaxTopUps \in Nat

ASSUME RequestsAssumption == IsFiniteSet(Requests) /\ Requests # {}

VARIABLES
    present,    \* the key exists in Redis
    redis,      \* its value; 0 when absent
    local,      \* creditBalance of each replica
    running,    \* the replicas that are up
    cut,        \* the replicas whose calls to Redis fail
    req,        \* each request slot
    spent,      \* history: total charged
    added,      \* history: total topped up
    cuts,       \* history: how often a replica lost Redis
    restarts    \* history: crashes

vars == <<present, redis, local, running, cut, req, spent, added, cuts, restarts>>

Free(r) == [at |-> r, pc |-> "idle", val |-> 0]

Init ==
    /\ present = FALSE /\ redis = 0
    /\ local = [r \in Replicas |-> 0]
    /\ running = {} /\ cut = {}
    /\ req \in {[q \in Requests |-> Free(r)] : r \in Replicas}
    /\ spent = 0 /\ added = 0 /\ cuts = 0 /\ restarts = 0

-----------------------------------------------------------------------------
(* Startup, crash, loss of Redis *)

\* Mutant: the balance is set whether or not another replica already did.
SeedBalanceOverwrites(r) ==
    IF r \notin cut
      THEN present' = TRUE /\ redis' = Seed
      ELSE UNCHANGED <<present, redis>>

\* Mutant: the balance is never brought to Redis.
SeedBalanceForgotten(r) == UNCHANGED <<present, redis>>

\* SETNX; a failure is only logged.
SeedBalance(r) ==
    IF r \notin cut /\ ~present
      THEN present' = TRUE /\ redis' = Seed
      ELSE UNCHANGED <<present, redis>>

\* NewKeyStore and the seeding loop, before the replica serves.
Start(r) ==
    /\ r \notin running
    /\ running' = running \union {r}
    /\ local' = [local EXCEPT ![r] = Seed]
    /\ SeedBalance(r)
    /\ UNCHANGED <<cut, req, spent, added, cuts, restarts>>

\* The process dies with the requests it serves.
Crash(r) ==
    /\ r \in running
    /\ restarts < MaxRestarts
    /\ restarts' = restarts + 1
    /\ running' = running \ {r}
    /\ req' = [q \in Requests |-> IF req[q].at = r THEN Free(r) ELSE req[q]]
    /\ UNCHANGED <<present, redis, local, cut, spent, added, cuts>>

LoseRedis(r) ==
    /\ r \notin cut
    /\ cuts < MaxCuts
    /\ cuts' = cuts + 1
    /\ cut' = cut \union {r}
    /\ UNCHANGED <<present, redis, local, running, req, spent, added, restarts>>

RegainRedis(r) ==
    /\ r \in cut
    /\ cut' = cut \ {r}
    /\ UNCHANGED <<present, redis, local, running, req, spent, added, cuts, restarts>>

-----------------------------------------------------------------------------
(* Plugin.ProcessRequest *)

At(q, pc) == req[q].pc = pc

Become(q, pc, val) == req' = [req EXCEPT ![q].pc = pc, ![q].val = val]

\* A request arrives at replica r and GetBalance answers.
ReadRedis(q, r) ==
    /\ At(q, "idle")
    /\ r \in running \ cut
    /\ req' = [req EXCEPT ![q] = [at |-> r, pc |-> "read", val |-> redis]]
    /\ UNCHANGED <<present, redis, local, running, cut, spent, added, cuts, restarts>>

\* Mutant: a balance of exactly zero still buys a request.
AdmitsZero(balance) == balance >= 0

Admits(balance) == balance > 0

\* SetBalanceMicros with what was read, then the decision on it.
SyncAndDecide(q) ==
    /\ At(q, "read")
    /\ local' = [local EXCEPT ![req[q].at] = req[q].val]
    /\ Become(q, IF Admits(req[q].val) THEN "upstream" ELSE "idle", 0)
    /\ UNCHANGED <<present, redis, running, cut, spent, added, cuts, restarts>>

\* Redis cannot be asked: the decision is on the replica's copy.
DecideLocally(q, r) ==
    /\ At(q, "idle")
    /\ r \in running \cap cut
    /\ Admits(local[r])
    /\ req' = [req EXCEPT ![q] = [at |-> r, pc |-> "upstream", val |-> 0]]
    /\ UNCHANGED <<present, redis, local, running, cut, spent, added, cuts, restarts>>

-----------------------------------------------------------------------------
(* Plugin.ProcessResponse *)

\* The upstream call ended; a failed, cached or free one costs nothing.
Respond(q, cost) ==
    /\ At(q, "upstream")
    /\ cost = 0 \/ spent < MaxSpent
    /\ Become(q, IF cost = 0 THEN "idle" ELSE "charge", cost)
    /\ UNCHANGED <<present, redis, local, running, cut, spent, added, cuts, restarts>>

\* DECRBY; an absent key counts as zero.
DecrBy(cost) == present' = TRUE /\ redis' = redis - cost

Charge(q) ==
    /\ At(q, "charge")
    /\ spent' = spent + req[q].val
    /\ UNCHANGED <<running, cut, added, cuts, restarts>>

\* ForceDeductMicros answers.
ChargeRedis(q) ==
    /\ Charge(q)
    /\ req[q].at \notin cut
    /\ DecrBy(req[q].val)
    /\ Become(q, "sync", redis - req[q].val)
    /\ UNCHANGED local

\* The result of ForceDeductMicros is stored in the replica's copy.
SyncLocal(q) ==
    /\ At(q, "sync")
    /\ local' = [local EXCEPT ![req[q].at] = req[q].val]
    /\ Become(q, "idle", 0)
    /\ UNCHANGED <<present, redis, running, cut, spent, added, cuts, restarts>>

\* ForceDeductMicros fails, perhaps only its answer was lost: the replica's
\* copy is charged.
ChargeLocal(q) ==
    /\ Charge(q)
    /\ req[q].at \in cut
    /\ DecrBy(req[q].val) \/ UNCHANGED <<present, redis>>
    /\ local' = [local EXCEPT ![req[q].at] = @ - req[q].val]
    /\ Become(q, "idle", 0)

-----------------------------------------------------------------------------

\* POST /-/keys/{key_id}/credits at replica r (KeyStore.AddCredits).
AddCredits(r) ==
    /\ r \in running
    /\ added < MaxTopUps
    /\ added' = added + 1
    /\ local' = [local EXCEPT ![r] = @ + 1]
    /\ UNCHANGED <<present, redis, running, cut, req, spent, cuts, restarts>>

Progress(q) ==
    \/ SyncAndDecide(q) \/ ChargeRedis(q) \/ SyncLocal(q) \/ ChargeLocal(q)
    \/ \E cost \in 0..MaxCost : Respond(q, cost)

Next ==
    \/ \E r \in Replicas :
          \/ Start(r) \/ Crash(r) \/ LoseRedis(r) \/ RegainRedis(r) \/ AddCredits(r)
          \/ \E q \in Requests : ReadRedis(q, r) \/ DecideLocally(q, r)
    \/ \E q \in Requests : Progress(q)

Safety == Init /\ [][Next]_vars

\* Upstream calls end and handlers run on.
Spec == Safety /\ \A q \in Requests : WF_vars(Progress(q))

-----------------------------------------------------------------------------
(* Properties *)

\* A charge is never negative, a balance in Redis never above the configured
\* one.
CreditsTypeOK ==
    /\ present \in BOOLEAN
    /\ redis \in Int /\ redis <= Seed
    /\ local \in [Replicas -> Int]
    /\ running \subseteq Replicas /\ cut \subseteq Replicas
    /\ req \in [Requests -> [at : Replicas, val : Int,
                             pc : {"idle", "read", "upstream", "charge", "sync"}]]
    /\ \A q \in Requests : At(q, "charge") => req[q].val \in 1..MaxCost
    /\ spent \in Nat /\ added \in 0..MaxTopUps
    /\ cuts \in 0..MaxCuts /\ restarts \in 0..MaxRestarts

\* As long as no replica ever lost Redis, the shared balance is the configured
\* one less everything charged: seeding by several replicas, restarts and
\* concurrent charges neither refund nor lose a charge.
SpendConserved == cuts = 0 /\ present => redis = Seed - spent

\* As long as no replica ever lost Redis, the key is overdrawn by less than
\* what the requests running at the same time can cost.
OverspendBounded == cuts = 0 => redis > -(Cardinality(Requests) * MaxCost)

\* Without outages and top-ups a request is refused only when the configured
\* balance is used up: no start order of the replicas serves a key that is
\* not in Redis yet.
FundedIsServed ==
    cuts = 0 /\ added = 0 =>
        \A q \in Requests : At(q, "read") /\ ~Admits(req[q].val) => spent >= Seed

\* The requests that saw a positive balance and are not charged yet.
Holders ==
    {q \in Requests : \/ At(q, "read") /\ req[q].val > 0
                      \/ req[q].pc \in {"upstream", "charge"}}

\* What makes the three invariants inductive.  Before the first loss of Redis:
\* a key absent from Redis was never served; a balance read is at least the
\* current one; and the debt leaves room for every holder to be charged.
LedgerInv ==
    cuts = 0 =>
        /\ cut = {}
        /\ ~present => /\ redis = 0 /\ spent = 0 /\ running = {}
                       /\ \A q \in Requests : At(q, "idle")
        /\ present => redis = Seed - spent
        /\ \A q \in Requests : At(q, "read") => redis <= req[q].val

DebtInv ==
    cuts = 0 => redis + Cardinality(Requests) * MaxCost >= 1 + Cardinality(Holders) * MaxCost

CreditsInv == CreditsTypeOK /\ LedgerInv /\ DebtInv

=============================================================================
