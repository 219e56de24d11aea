--------------------------- MODULE CreditsProofs ---------------------------
(* Proofs about prepaid credits, for every number of replicas and of         *)
(* concurrent requests, every configured balance and every largest cost.     *)
EXTENDS Credits, FiniteSetTheorems, TLAPS

PCs == {"idle", "read", "upstream", "charge", "sync"}

Slots == [at : Replicas, val : Int, pc : PCs]

\* CreditsTypeOK in parts: the request slots, and the balances and counters.
SlotsOK ==
    /\ req \in [Requests -> Slots]
    /\ \A q \in Requests : At(q, "charge") => req[q].val \in 1..MaxCost

BalancesOK ==
    /\ redis \in Int /\ redis <= Seed
    /\ local \in [Replicas -> Int]
    /\ running \subseteq Replicas /\ cut \subseteq Replicas
    /\ spent \in Nat /\ added \in 0..MaxTopUps
    /\ cuts \in 0..MaxCuts /\ restarts \in 0..MaxRestarts

\* The parts make up CreditsTypeOK.
LEMMA TypeParts == CreditsTypeOK <=> present \in BOOLEAN /\ SlotsOK /\ BalancesOK
<1>1. CreditsTypeOK => SlotsOK
  BY DEF CreditsTypeOK, SlotsOK, Slots, PCs
<1>2. CreditsTypeOK => present \in BOOLEAN /\ BalancesOK
  BY DEF CreditsTypeOK, BalancesOK
<1>3. present \in BOOLEAN /\ SlotsOK /\ BalancesOK => CreditsTypeOK
  BY DEF CreditsTypeOK, SlotsOK, BalancesOK, Slots, PCs
<1> QED BY <1>1, <1>2, <1>3

\* The same of the state after a step.
LEMMA TypePartsNext == present' \in BOOLEAN /\ SlotsOK' /\ BalancesOK' => CreditsTypeOK'
  BY DEF CreditsTypeOK, SlotsOK, BalancesOK, Slots, PCs, At

-----------------------------------------------------------------------------
(* Request slots *)

\* A slot that becomes something else keeps its replica, the others stay.
LEMMA BecomeMoves ==
  ASSUME req \in [Requests -> Slots], NEW q \in Requests,
         NEW pc \in PCs, NEW val \in Int, Become(q, pc, val)
  PROVE  /\ req' \in [Requests -> Slots]
         /\ req'[q].pc = pc /\ req'[q].val = val /\ req'[q].at = req[q].at
         /\ \A p \in Requests \ {q} : req'[p] = req[p]
<1> DEFINE n == [[req[q] EXCEPT !.pc = pc] EXCEPT !.val = val]
<1>1. req[q] \in Slots
  OBVIOUS
<1>2. n \in Slots /\ n.pc = pc /\ n.val = val /\ n.at = req[q].at
  BY <1>1 DEF Slots
<1>3. req' = [req EXCEPT ![q] = n]
  BY DEF Become
<1> HIDE DEF n
<1> QED BY <1>2, <1>3

\* A slot that is filled anew becomes the given record.
LEMMA FillMoves ==
  ASSUME req \in [Requests -> Slots], NEW q \in Requests, NEW n \in Slots,
         req' = [req EXCEPT ![q] = n]
  PROVE  /\ req' \in [Requests -> Slots]
         /\ req'[q] = n
         /\ \A p \in Requests \ {q} : req'[p] = req[p]
  OBVIOUS

-----------------------------------------------------------------------------
(* Arithmetic of the debt *)

\* A product grows with its first factor.
LEMMA ProductGrows ==
  ASSUME NEW a \in Nat, NEW b \in Nat, a <= b, NEW c \in Nat
  PROVE  a * c <= b * c
  OBVIOUS

\* One holder less leaves room for one charge more.
LEMMA ProductLess ==
  ASSUME NEW a \in Nat, NEW c \in Nat
  PROVE  (a - 1) * c = a * c - c
  OBVIOUS

\* The holders are a finite set of requests.
LEMMA HoldersFinite ==
  /\ IsFiniteSet(Holders) /\ Cardinality(Holders) \in Nat
  /\ Cardinality(Requests) \in Nat \ {0}
  /\ Cardinality(Holders) <= Cardinality(Requests)
<1>1. Holders \in SUBSET Requests
  BY DEF Holders
<1>2. IsFiniteSet(Holders) /\ Cardinality(Holders) <= Cardinality(Requests)
  BY <1>1, RequestsAssumption, FS_Subset
<1>3. Cardinality(Requests) \in Nat /\ Cardinality(Holders) \in Nat
  BY <1>2, RequestsAssumption, FS_CardinalityType
<1>4. Cardinality(Requests) # 0
  BY RequestsAssumption, FS_EmptySet
<1> QED BY <1>2, <1>3, <1>4

\* A step that adds no holder and leaves the balance alone keeps the debt.
LEMMA DebtKept ==
  ASSUME CreditsTypeOK, DebtInv, redis' = redis, cuts' = 0 => cuts = 0,
         Holders' \subseteq Holders
  PROVE  DebtInv'
<1> SUFFICES ASSUME cuts' = 0
             PROVE  redis' + Cardinality(Requests) * MaxCost
                        >= 1 + Cardinality(Holders') * MaxCost
  BY DEF DebtInv
<1>1. redis + Cardinality(Requests) * MaxCost >= 1 + Cardinality(Holders) * MaxCost
  BY DEF DebtInv
<1>2. Cardinality(Holders') <= Cardinality(Holders) /\ Cardinality(Holders') \in Nat
  BY HoldersFinite, FS_Subset, FS_CardinalityType
<1>3. Cardinality(Holders) \in Nat /\ Cardinality(Requests) \in Nat /\ redis \in Int
  BY HoldersFinite DEF CreditsTypeOK
<1>4. Cardinality(Holders') * MaxCost <= Cardinality(Holders) * MaxCost
  BY <1>2, <1>3, AmountAssumption, ProductGrows
<1>5. /\ Cardinality(Holders') * MaxCost \in Int
      /\ Cardinality(Holders) * MaxCost \in Int
      /\ Cardinality(Requests) * MaxCost \in Int
  BY <1>2, <1>3, AmountAssumption
<1> QED BY <1>1, <1>3, <1>4, <1>5

-----------------------------------------------------------------------------
(* Initial states *)

\* CreditsInv holds before any replica starts.
LEMMA CreditsInit == Init => CreditsInv
<1> SUFFICES ASSUME Init PROVE CreditsInv
  OBVIOUS
<1>1. PICK r \in Replicas : req = [q \in Requests |-> Free(r)]
  BY DEF Init
<1>2. \A q \in Requests : req[q] \in Slots /\ req[q].pc = "idle"
  BY <1>1 DEF Free, Slots, PCs
<1>3. req \in [Requests -> Slots]
  BY <1>1, <1>2
<1>4. CreditsTypeOK
  <2>1. SlotsOK
    BY <1>2, <1>3 DEF SlotsOK, At
  <2>2. BalancesOK
    BY AmountAssumption, LimitAssumption DEF Init, BalancesOK
  <2>3. present \in BOOLEAN
    BY Zenon DEF Init
  <2> QED BY <2>1, <2>2, <2>3, TypeParts
<1>5. LedgerInv
  BY <1>2 DEF Init, LedgerInv, At
<1>6. Holders = {}
  BY <1>2 DEF Holders, At
<1>7. DebtInv
  <2>1. Cardinality(Holders) = 0
    BY <1>6, FS_EmptySet
  <2>2. 1 * MaxCost <= Cardinality(Requests) * MaxCost
    BY HoldersFinite, AmountAssumption, ProductGrows
  <2>3. Cardinality(Requests) * MaxCost >= 1 /\ 0 * MaxCost = 0
    BY <2>2, HoldersFinite, AmountAssumption
  <2> QED BY <2>1, <2>3, HoldersFinite, AmountAssumption DEF DebtInv, Init
<1> QED BY <1>4, <1>5, <1>7 DEF CreditsInv

-----------------------------------------------------------------------------
(* Types *)

\* The key is in Redis or not.
LEMMA PresentNext == CreditsTypeOK /\ [Next]_vars => present' \in BOOLEAN
<1> SUFFICES ASSUME present \in BOOLEAN, [Next]_vars PROVE present' \in BOOLEAN
  BY DEF CreditsTypeOK
<1>1. present' = present \/ present' = TRUE
  BY Zenon DEF Next, Progress, vars, Start, SeedBalance, Crash, LoseRedis, RegainRedis,
     AddCredits, ReadRedis, DecideLocally, SyncAndDecide, Respond, ChargeRedis, SyncLocal,
     ChargeLocal, Charge, DecrBy
<1> QED BY <1>1

\* Every step of every replica and request preserves the types.
LEMMA TypeNext == CreditsTypeOK /\ [Next]_vars => CreditsTypeOK'
<1> SUFFICES ASSUME CreditsTypeOK, [Next]_vars PROVE CreditsTypeOK'
  OBVIOUS
<1>s. SlotsOK
  BY TypeParts
<1>b. BalancesOK
  BY TypeParts
<1>1. ASSUME NEW r \in Replicas, Start(r) PROVE SlotsOK' /\ BalancesOK'
  <2>1. SlotsOK'
    BY <1>s, <1>1 DEF Start, SlotsOK, At
  <2>2. BalancesOK'
    BY <1>b, <1>1, AmountAssumption DEF Start, SeedBalance, BalancesOK
  <2> QED BY <2>1, <2>2
<1>2. ASSUME NEW r \in Replicas, Crash(r) PROVE SlotsOK' /\ BalancesOK'
  <2>1. Free(r) \in Slots /\ Free(r).pc = "idle"
    BY DEF Free, Slots, PCs
  <2>2. SlotsOK'
    BY <1>s, <1>2, <2>1 DEF Crash, SlotsOK, At
  <2>3. BalancesOK'
    BY <1>b, <1>2, LimitAssumption DEF Crash, BalancesOK
  <2> QED BY <2>2, <2>3
<1>3. ASSUME NEW r \in Replicas, LoseRedis(r) PROVE SlotsOK' /\ BalancesOK'
  <2>1. SlotsOK'
    BY <1>s, <1>3 DEF LoseRedis, SlotsOK, At
  <2>2. BalancesOK'
    BY <1>b, <1>3, LimitAssumption DEF LoseRedis, BalancesOK
  <2> QED BY <2>1, <2>2
<1>4. ASSUME NEW r \in Replicas, RegainRedis(r) PROVE SlotsOK' /\ BalancesOK'
  <2>1. SlotsOK'
    BY <1>s, <1>4 DEF RegainRedis, SlotsOK, At
  <2>2. BalancesOK'
    BY <1>b, <1>4 DEF RegainRedis, BalancesOK
  <2> QED BY <2>1, <2>2
<1>5. ASSUME NEW r \in Replicas, AddCredits(r) PROVE SlotsOK' /\ BalancesOK'
  <2>1. SlotsOK'
    BY <1>s, <1>5 DEF AddCredits, SlotsOK, At
  <2>2. BalancesOK'
    BY <1>b, <1>5, LimitAssumption DEF AddCredits, BalancesOK
  <2> QED BY <2>1, <2>2
<1>6. ASSUME NEW r \in Replicas, NEW q \in Requests, ReadRedis(q, r)
      PROVE  SlotsOK' /\ BalancesOK'
  <2> DEFINE n == [at |-> r, pc |-> "read", val |-> redis]
  <2>1. n \in Slots /\ n.pc = "read"
    BY <1>b DEF Slots, PCs, BalancesOK
  <2>2. req' = [req EXCEPT ![q] = n]
    BY <1>6 DEF ReadRedis
  <2> HIDE DEF n
  <2>3. SlotsOK'
    BY <1>s, <2>1, <2>2, FillMoves DEF SlotsOK, At
  <2>4. BalancesOK'
    BY <1>b, <1>6 DEF ReadRedis, BalancesOK
  <2> QED BY <2>3, <2>4
<1>7. ASSUME NEW r \in Replicas, NEW q \in Requests, DecideLocally(q, r)
      PROVE  SlotsOK' /\ BalancesOK'
  <2> DEFINE n == [at |-> r, pc |-> "upstream", val |-> 0]
  <2>1. n \in Slots /\ n.pc = "upstream"
    BY DEF Slots, PCs
  <2>2. req' = [req EXCEPT ![q] = n]
    BY <1>7 DEF DecideLocally
  <2> HIDE DEF n
  <2>3. SlotsOK'
    BY <1>s, <2>1, <2>2, FillMoves DEF SlotsOK, At
  <2>4. BalancesOK'
    BY <1>b, <1>7 DEF DecideLocally, BalancesOK
  <2> QED BY <2>3, <2>4
<1>8. ASSUME NEW q \in Requests, SyncAndDecide(q) PROVE SlotsOK' /\ BalancesOK'
  <2>1. PICK pc \in {"upstream", "idle"} : Become(q, pc, 0)
    BY <1>8 DEF SyncAndDecide
  <2>2. SlotsOK'
    BY <1>s, <2>1, BecomeMoves DEF SlotsOK, At, PCs
  <2>3. req[q].val \in Int /\ req[q].at \in Replicas
    BY <1>s DEF SlotsOK, Slots
  <2>4. BalancesOK'
    BY <1>b, <1>8, <2>3 DEF SyncAndDecide, BalancesOK
  <2> QED BY <2>2, <2>4
<1>9. ASSUME NEW q \in Requests, NEW cost \in 0..MaxCost, Respond(q, cost)
      PROVE  SlotsOK' /\ BalancesOK'
  <2>1. BalancesOK'
    BY <1>b, <1>9 DEF Respond, BalancesOK
  <2>2. CASE cost = 0
    <3>1. Become(q, "idle", 0)
      BY <1>9, <2>2 DEF Respond
    <3> QED BY <1>s, <2>1, <3>1, BecomeMoves DEF SlotsOK, At, PCs
  <2>3. CASE cost # 0
    <3>1. Become(q, "charge", cost) /\ cost \in 1..MaxCost
      BY <1>9, <2>3, AmountAssumption DEF Respond
    <3>2. SlotsOK'
      BY <1>s, <3>1, BecomeMoves, AmountAssumption DEF SlotsOK, At, PCs
    <3> QED BY <2>1, <3>2
  <2> QED BY <2>2, <2>3
<1>10. ASSUME NEW q \in Requests, ChargeRedis(q) PROVE SlotsOK' /\ BalancesOK'
  <2>1. req[q].val \in 1..MaxCost
    BY <1>s, <1>10 DEF ChargeRedis, Charge, SlotsOK
  <2>2. Become(q, "sync", redis - req[q].val) /\ redis - req[q].val \in Int
    BY <1>b, <1>10, <2>1, AmountAssumption DEF ChargeRedis, BalancesOK
  <2>3. SlotsOK'
    BY <1>s, <2>2, BecomeMoves DEF SlotsOK, At, PCs
  <2>4. BalancesOK'
    BY <1>b, <1>10, <2>1, AmountAssumption DEF ChargeRedis, Charge, DecrBy, BalancesOK
  <2> QED BY <2>3, <2>4
<1>11. ASSUME NEW q \in Requests, SyncLocal(q) PROVE SlotsOK' /\ BalancesOK'
  <2>1. Become(q, "idle", 0)
    BY <1>11 DEF SyncLocal
  <2>2. SlotsOK'
    BY <1>s, <2>1, BecomeMoves DEF SlotsOK, At, PCs
  <2>3. req[q].val \in Int /\ req[q].at \in Replicas
    BY <1>s DEF SlotsOK, Slots
  <2>4. BalancesOK'
    BY <1>b, <1>11, <2>3 DEF SyncLocal, BalancesOK
  <2> QED BY <2>2, <2>4
<1>12. ASSUME NEW q \in Requests, ChargeLocal(q) PROVE SlotsOK' /\ BalancesOK'
  <2>1. Become(q, "idle", 0)
    BY <1>12 DEF ChargeLocal
  <2>2. SlotsOK'
    BY <1>s, <2>1, BecomeMoves DEF SlotsOK, At, PCs
  <2>3. req[q].val \in 1..MaxCost /\ req[q].at \in Replicas
    BY <1>s, <1>12 DEF ChargeLocal, Charge, SlotsOK, Slots
  <2>4. BalancesOK'
    BY <1>b, <1>12, <2>3, AmountAssumption DEF ChargeLocal, Charge, DecrBy, BalancesOK
  <2> QED BY <2>2, <2>4
<1>13. ASSUME UNCHANGED vars PROVE SlotsOK' /\ BalancesOK'
  BY <1>s, <1>b, <1>13 DEF vars, SlotsOK, BalancesOK, At
<1>14. SlotsOK' /\ BalancesOK'
  BY <1>1, <1>2, <1>3, <1>4, <1>5, <1>6, <1>7, <1>8, <1>9, <1>10, <1>11, <1>12,
     <1>13 DEF Next, Progress
<1> QED BY <1>14, PresentNext, TypePartsNext

-----------------------------------------------------------------------------
(* The ledger *)

\* Before the first loss of Redis, no step breaks the bookkeeping.
LEMMA LedgerNext == CreditsTypeOK /\ LedgerInv /\ [Next]_vars => LedgerInv'
<1> SUFFICES ASSUME CreditsTypeOK, LedgerInv, [Next]_vars, cuts' = 0
             PROVE  LedgerInv'
  BY DEF LedgerInv
<1>s. SlotsOK
  BY TypeParts
<1>b. BalancesOK
  BY TypeParts
<1>c. cuts = 0 /\ ~ \E r \in Replicas : LoseRedis(r)
  <2>1. ASSUME NEW r \in Replicas, LoseRedis(r) PROVE FALSE
    BY <1>b, <2>1, LimitAssumption DEF LoseRedis, BalancesOK
  <2>2. cuts' = cuts
    BY <2>1 DEF Next, Progress, vars, Start, Crash, RegainRedis, AddCredits, ReadRedis,
       DecideLocally, SyncAndDecide, Respond, ChargeRedis, SyncLocal, ChargeLocal, Charge
  <2> QED BY <2>1, <2>2
<1>l. /\ cut = {}
      /\ ~present => /\ redis = 0 /\ spent = 0 /\ running = {}
                     /\ \A q \in Requests : At(q, "idle")
      /\ present => redis = Seed - spent
      /\ \A q \in Requests : At(q, "read") => redis <= req[q].val
  BY <1>c DEF LedgerInv
<1>1. ASSUME NEW r \in Replicas, Start(r) PROVE LedgerInv'
  <2>1. CASE present
    BY <1>1, <1>l, <2>1 DEF Start, SeedBalance, LedgerInv, At
  <2>2. CASE ~present
    <3>1. present' /\ redis' = Seed /\ spent' = 0 /\ cut' = {} /\ req' = req
      BY <1>1, <1>l, <2>2 DEF Start, SeedBalance
    <3>2. \A q \in Requests : req'[q].pc = "idle"
      BY <1>l, <2>2, <3>1 DEF At
    <3> QED BY <3>1, <3>2, AmountAssumption DEF LedgerInv, At
  <2> QED BY <2>1, <2>2
<1>2. ASSUME NEW r \in Replicas, Crash(r) PROVE LedgerInv'
  <2>1. Free(r).pc = "idle"
    BY DEF Free
  <2>2. \A q \in Requests : req'[q] = Free(r) \/ req'[q] = req[q]
    BY <1>2 DEF Crash
  <2>3. /\ present' = present /\ redis' = redis /\ cut' = cut /\ spent' = spent
        /\ running' = running \ {r}
    BY <1>2 DEF Crash
  <2> QED BY <1>l, <2>1, <2>2, <2>3 DEF LedgerInv, At
<1>3. ASSUME NEW r \in Replicas, RegainRedis(r) PROVE LedgerInv'
  BY <1>3, <1>l DEF RegainRedis
<1>4. ASSUME NEW r \in Replicas, AddCredits(r) PROVE LedgerInv'
  BY <1>4, <1>l DEF AddCredits, LedgerInv, At
<1>5. ASSUME NEW r \in Replicas, NEW q \in Requests, ReadRedis(q, r) PROVE LedgerInv'
  <2> DEFINE n == [at |-> r, pc |-> "read", val |-> redis]
  <2>1. n \in Slots /\ n.val = redis
    BY <1>b DEF Slots, PCs, BalancesOK
  <2>2. req' = [req EXCEPT ![q] = n]
    BY <1>5 DEF ReadRedis
  <2>3. present
    BY <1>5, <1>l DEF ReadRedis
  <2>4. present' /\ redis' = redis /\ cut' = {} /\ spent' = spent
    BY <1>5, <1>l, <2>3 DEF ReadRedis
  <2> HIDE DEF n
  <2>5. \A p \in Requests : req'[p] = n \/ req'[p] = req[p]
    BY <1>s, <2>1, <2>2, FillMoves DEF SlotsOK
  <2> QED BY <1>b, <1>l, <2>1, <2>3, <2>4, <2>5 DEF LedgerInv, At, BalancesOK
<1>6. ASSUME NEW r \in Replicas, NEW q \in Requests, DecideLocally(q, r) PROVE LedgerInv'
  BY <1>6, <1>l DEF DecideLocally
<1>7. ASSUME NEW q \in Requests, ~At(q, "idle"), redis' = redis, present' = present,
             cut' = cut, spent' = spent, NEW pc \in PCs \ {"read"}, NEW val \in Int,
             Become(q, pc, val)
      PROVE  LedgerInv'
  <2>1. present
    BY <1>7, <1>l
  <2>2. req'[q].pc = pc /\ \A p \in Requests \ {q} : req'[p] = req[p]
    BY <1>s, <1>7, BecomeMoves DEF SlotsOK
  <2>3. \A p \in Requests : req'[p].pc = "read" => req'[p] = req[p]
    BY <1>7, <2>2
  <2> QED BY <1>7, <1>l, <2>1, <2>3 DEF LedgerInv, At
<1>8. ASSUME NEW q \in Requests, SyncAndDecide(q) PROVE LedgerInv'
  <2>1. PICK pc \in {"upstream", "idle"} : Become(q, pc, 0)
    BY <1>8 DEF SyncAndDecide
  <2> QED BY <1>7, <1>8, <2>1 DEF SyncAndDecide, At, PCs
<1>9. ASSUME NEW q \in Requests, NEW cost \in 0..MaxCost, Respond(q, cost) PROVE LedgerInv'
  <2>1. PICK pc \in {"charge", "idle"} : Become(q, pc, cost)
    BY <1>9 DEF Respond
  <2>2. cost \in Int
    BY AmountAssumption
  <2> QED BY <1>7, <1>9, <2>1, <2>2 DEF Respond, At, PCs
<1>10. ASSUME NEW q \in Requests, ChargeRedis(q) PROVE LedgerInv'
  <2>1. req[q].val \in 1..MaxCost
    BY <1>s, <1>10 DEF ChargeRedis, Charge, SlotsOK
  <2>2. present
    BY <1>10, <1>l DEF ChargeRedis, Charge, At
  <2>3. /\ present' /\ redis' = redis - req[q].val /\ cut' = {}
        /\ spent' = spent + req[q].val
    BY <1>10, <1>l DEF ChargeRedis, Charge, DecrBy
  <2>4. redis - req[q].val \in Int /\ redis' <= redis
    BY <1>b, <2>1, <2>3, AmountAssumption DEF BalancesOK
  <2>5. Become(q, "sync", redis - req[q].val)
    BY <1>10 DEF ChargeRedis
  <2>6. req'[q].pc = "sync" /\ \A p \in Requests \ {q} : req'[p] = req[p]
    BY <1>s, <2>4, <2>5, BecomeMoves DEF SlotsOK, PCs
  <2>7. ASSUME NEW p \in Requests, req'[p].pc = "read" PROVE redis' <= req'[p].val
    <3>1. req'[p] = req[p]
      BY <2>6, <2>7
    <3>2. redis <= req[p].val /\ req[p].val \in Int
      BY <1>l, <1>s, <2>7, <3>1 DEF At, SlotsOK, Slots
    <3> QED BY <1>b, <2>3, <2>4, <3>1, <3>2 DEF BalancesOK
  <2>8. redis' = Seed - spent'
    BY <1>b, <1>l, <2>1, <2>2, <2>3, AmountAssumption DEF BalancesOK
  <2> QED BY <2>3, <2>7, <2>8 DEF LedgerInv, At
<1>11. ASSUME NEW q \in Requests, SyncLocal(q) PROVE LedgerInv'
  BY <1>7, <1>11 DEF SyncLocal, At, PCs
<1>12. ASSUME NEW q \in Requests, ChargeLocal(q) PROVE LedgerInv'
  BY <1>12, <1>l DEF ChargeLocal
<1>13. CASE UNCHANGED vars
  BY <1>13, <1>l DEF vars, LedgerInv, At
<1> QED
  BY <1>c, <1>1, <1>2, <1>3, <1>4, <1>5, <1>6, <1>8, <1>9, <1>10, <1>11, <1>12,
     <1>13 DEF Next, Progress
-----------------------------------------------------------------------------
(* The debt *)

\* A slot moved to a place that holds no claim adds no holder.
LEMMA NoNewHolder ==
  ASSUME req \in [Requests -> Slots], NEW q \in Requests, NEW pc \in PCs \ {"read"},
         NEW val \in Int, Become(q, pc, val),
         pc \in {"upstream", "charge"} => q \in Holders
  PROVE  Holders' \subseteq Holders
<1>1. req'[q].pc = pc /\ \A p \in Requests \ {q} : req'[p] = req[p]
  BY BecomeMoves
<1> QED BY <1>1 DEF Holders, At

\* Before the first loss of Redis, admitting needs a positive balance and
\* charging uses up a claim, so the debt stays within bounds.
LEMMA DebtNext ==
  CreditsTypeOK /\ LedgerInv /\ DebtInv /\ [Next]_vars => DebtInv'
<1> SUFFICES ASSUME CreditsTypeOK, LedgerInv, DebtInv, [Next]_vars, cuts' = 0
             PROVE  DebtInv'
  BY DEF DebtInv
<1>s. SlotsOK
  BY TypeParts
<1>b. BalancesOK
  BY TypeParts
<1>lose. ASSUME NEW r \in Replicas, LoseRedis(r) PROVE FALSE
  BY <1>b, <1>lose, LimitAssumption DEF LoseRedis, BalancesOK
<1>c. cuts = 0
  BY <1>lose DEF Next, Progress, vars, Start, Crash, RegainRedis, AddCredits, ReadRedis,
     DecideLocally, SyncAndDecide, Respond, ChargeRedis, SyncLocal, ChargeLocal, Charge
<1>l. cut = {} /\ (~present => \A q \in Requests : At(q, "idle"))
  BY <1>c DEF LedgerInv
<1>n. /\ Cardinality(Requests) \in Nat \ {0}
      /\ Cardinality(Holders) \in Nat
      /\ Cardinality(Requests) * MaxCost \in Int
      /\ Cardinality(Holders) * MaxCost \in Int
      /\ redis \in Int /\ MaxCost \in Nat /\ Seed \in Nat \ {0}
  BY <1>b, HoldersFinite, AmountAssumption DEF BalancesOK
<1>d. redis + Cardinality(Requests) * MaxCost >= 1 + Cardinality(Holders) * MaxCost
  BY <1>c DEF DebtInv
<1>1. ASSUME NEW r \in Replicas, Start(r) PROVE DebtInv'
  <2>1. req' = req /\ Holders' = Holders
    BY <1>1 DEF Start, Holders, At
  <2>2. CASE present
    BY <1>1, <1>c, <2>1, <2>2, DebtKept DEF Start, SeedBalance
  <2>3. CASE ~present
    <3>1. redis' = Seed
      BY <1>1, <1>l, <2>3 DEF Start, SeedBalance
    <3>2. Holders = {}
      BY <1>l, <2>3 DEF Holders, At
    <3>3. Cardinality(Holders') * MaxCost = 0
      BY <2>1, <3>2, FS_EmptySet, AmountAssumption
    <3>4. Cardinality(Requests) * MaxCost >= 0
      BY <1>n
    <3> QED BY <1>n, <3>1, <3>3, <3>4 DEF DebtInv
  <2> QED BY <2>2, <2>3
<1>2. ASSUME NEW r \in Replicas, Crash(r) PROVE DebtInv'
  <2>1. Free(r).pc = "idle"
    BY DEF Free
  <2>2. \A q \in Requests : req'[q] = Free(r) \/ req'[q] = req[q]
    BY <1>2 DEF Crash
  <2>3. Holders' \subseteq Holders
    BY <2>1, <2>2 DEF Holders, At
  <2> QED BY <1>2, <1>c, <2>3, DebtKept DEF Crash
<1>3. ASSUME NEW r \in Replicas, RegainRedis(r) \/ AddCredits(r) PROVE DebtInv'
  <2>1. Holders' = Holders
    BY <1>3 DEF RegainRedis, AddCredits, Holders, At
  <2> QED BY <1>3, <1>c, <2>1, DebtKept DEF RegainRedis, AddCredits
<1>4. ASSUME NEW r \in Replicas, NEW q \in Requests, ReadRedis(q, r) PROVE DebtInv'
  <2> DEFINE n == [at |-> r, pc |-> "read", val |-> redis]
  <2>1. n \in Slots /\ n.val = redis /\ n.pc = "read"
    BY <1>b DEF Slots, PCs, BalancesOK
  <2>2. req' = [req EXCEPT ![q] = n] /\ redis' = redis
    BY <1>4 DEF ReadRedis
  <2> HIDE DEF n
  <2>3. req'[q] = n /\ \A p \in Requests \ {q} : req'[p] = req[p]
    BY <1>s, <2>1, <2>2, FillMoves DEF SlotsOK
  <2>4. CASE redis > 0
    <3>1. Holders' \in SUBSET Requests
      BY DEF Holders
    <3>2. /\ Cardinality(Holders') \in Nat
          /\ Cardinality(Holders') <= Cardinality(Requests)
      BY <3>1, RequestsAssumption, FS_Subset, FS_CardinalityType
    <3>3. Cardinality(Holders') * MaxCost <= Cardinality(Requests) * MaxCost
      BY <1>n, <3>2, ProductGrows
    <3>4. Cardinality(Holders') * MaxCost \in Int
      BY <1>n, <3>2
    <3> QED BY <1>n, <2>2, <2>4, <3>3, <3>4 DEF DebtInv
  <2>5. CASE ~(redis > 0)
    <3>1. Holders' \subseteq Holders
      BY <2>1, <2>3, <2>5 DEF Holders, At
    <3> QED BY <1>c, <2>2, <3>1, DebtKept
  <2> QED BY <2>4, <2>5
<1>5. ASSUME NEW r \in Replicas, NEW q \in Requests, DecideLocally(q, r) PROVE DebtInv'
  BY <1>5, <1>l DEF DecideLocally
<1>6. ASSUME NEW q \in Requests, SyncAndDecide(q) PROVE DebtInv'
  <2>1. PICK pc \in {"upstream", "idle"} :
            Become(q, pc, 0) /\ (pc = "upstream" => req[q].val > 0)
    BY <1>6 DEF SyncAndDecide, Admits
  <2>2. pc = "upstream" => q \in Holders
    BY <1>6, <2>1 DEF SyncAndDecide, Holders
  <2>3. Holders' \subseteq Holders
    BY <1>s, <2>1, <2>2, NoNewHolder DEF SlotsOK, PCs
  <2> QED BY <1>6, <1>c, <2>3, DebtKept DEF SyncAndDecide
<1>7. ASSUME NEW q \in Requests, NEW cost \in 0..MaxCost, Respond(q, cost) PROVE DebtInv'
  <2>1. PICK pc \in {"charge", "idle"} : Become(q, pc, cost)
    BY <1>7 DEF Respond
  <2>2. q \in Holders /\ cost \in Int
    BY <1>7, AmountAssumption DEF Respond, Holders, At
  <2>3. Holders' \subseteq Holders
    BY <1>s, <2>1, <2>2, NoNewHolder DEF SlotsOK, PCs
  <2> QED BY <1>7, <1>c, <2>3, DebtKept DEF Respond
<1>8. ASSUME NEW q \in Requests, ChargeRedis(q) PROVE DebtInv'
  <2>1. req[q].val \in 1..MaxCost /\ q \in Holders
    BY <1>s, <1>8 DEF ChargeRedis, Charge, SlotsOK, Holders, At
  <2>2. redis' = redis - req[q].val
    BY <1>8 DEF ChargeRedis, DecrBy
  <2>3. redis - req[q].val \in Int /\ Become(q, "sync", redis - req[q].val)
    BY <1>8, <1>n, <2>1 DEF ChargeRedis
  <2>4. req'[q].pc = "sync" /\ \A p \in Requests \ {q} : req'[p] = req[p]
    BY <1>s, <2>3, BecomeMoves DEF SlotsOK, PCs
  <2>5. Holders' = Holders \ {q}
    BY <2>4 DEF Holders, At
  <2>6. Cardinality(Holders') = Cardinality(Holders) - 1
    BY <2>1, <2>5, HoldersFinite, FS_RemoveElement
  <2>7. Cardinality(Holders') * MaxCost = Cardinality(Holders) * MaxCost - MaxCost
    BY <1>n, <2>6, ProductLess
  <2> QED BY <1>d, <1>n, <2>1, <2>2, <2>7 DEF DebtInv
<1>9. ASSUME NEW q \in Requests, SyncLocal(q) PROVE DebtInv'
  <2>1. Holders' \subseteq Holders
    BY <1>s, <1>9, NoNewHolder DEF SyncLocal, SlotsOK, PCs
  <2> QED BY <1>9, <1>c, <2>1, DebtKept DEF SyncLocal
<1>10. ASSUME NEW q \in Requests, ChargeLocal(q) PROVE DebtInv'
  BY <1>10, <1>l DEF ChargeLocal
<1>11. CASE UNCHANGED vars
  <2>1. Holders' = Holders
    BY <1>11 DEF vars, Holders, At
  <2> QED BY <1>11, <1>c, <2>1, DebtKept DEF vars
<1> QED
  BY <1>lose, <1>1, <1>2, <1>3, <1>4, <1>5, <1>6, <1>7, <1>8, <1>9, <1>10,
     <1>11 DEF Next, Progress

-----------------------------------------------------------------------------

\* The inductive invariant holds in every reachable state of the gateway.
THEOREM CreditsInvariant == Safety => []CreditsInv
<1>1. CreditsInv /\ [Next]_vars => CreditsInv'
  BY TypeNext, LedgerNext, DebtNext DEF CreditsInv
<1> QED BY <1>1, CreditsInit, PTL DEF Safety

\* Until a replica loses Redis, seeding, restarts and concurrent charges
\* neither refund nor lose a charge.
THEOREM CreditsConserved == Safety => []SpendConserved
<1>1. CreditsInv => SpendConserved
  BY DEF CreditsInv, LedgerInv, SpendConserved
<1> QED BY <1>1, CreditsInvariant, PTL

\* Until a replica loses Redis, a key is overdrawn by less than what the
\* requests in flight can cost, however checks and charges interleave.
THEOREM DebtIsBounded == Safety => []OverspendBounded
<1>1. CreditsInv => OverspendBounded
  <2> SUFFICES ASSUME CreditsInv, cuts = 0
               PROVE  redis > -(Cardinality(Requests) * MaxCost)
    BY DEF OverspendBounded
  <2>1. redis + Cardinality(Requests) * MaxCost >= 1 + Cardinality(Holders) * MaxCost
    BY DEF CreditsInv, DebtInv
  <2>2. Cardinality(Requests) \in Nat /\ Cardinality(Holders) \in Nat /\ redis \in Int
    BY HoldersFinite DEF CreditsInv, CreditsTypeOK
  <2>3. /\ Cardinality(Holders) * MaxCost \in Nat
        /\ Cardinality(Requests) * MaxCost \in Nat
    BY <2>2, AmountAssumption
  <2> QED BY <2>1, <2>2, <2>3
<1> QED BY <1>1, CreditsInvariant, PTL

\* Until a replica loses Redis or the key is topped up, a request is refused
\* only when the configured balance is used up.
THEOREM FundedIsNotRefused == Safety => []FundedIsServed
<1>1. CreditsInv => FundedIsServed
  <2> SUFFICES ASSUME CreditsInv, cuts = 0, NEW q \in Requests,
                      At(q, "read"), ~Admits(req[q].val)
               PROVE  spent >= Seed
    BY DEF FundedIsServed
  <2>1. present /\ redis = Seed - spent /\ redis <= req[q].val
    BY DEF CreditsInv, LedgerInv, At
  <2>2. req[q].val \in Int /\ redis \in Int /\ spent \in Nat
    BY TypeParts DEF CreditsInv, SlotsOK, Slots, BalancesOK
  <2> QED BY <2>1, <2>2, AmountAssumption DEF Admits
<1> QED BY <1>1, CreditsInvariant, PTL

=============================================================================
