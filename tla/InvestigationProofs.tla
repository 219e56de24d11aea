------------------------ MODULE InvestigationProofs ------------------------
(* Proofs about the investigation ledger, for any sets of trace and call    *)
(* jobs, any capacity, any bounds, and at least one retry delay.            *)
(*                                                                          *)
(* LedgerInv, the inductive invariant, is stated of one job at a time       *)
(* (JobCore, RunningOf), because every handler works on one job under its   *)
(* lock; what crosses jobs are the publications on their way (ArrivedInv),  *)
(* the claims between their two halves (CountingInv), and the bounds.  The  *)
(* hard part is the retry budget, BudgetOf: _settle_job counts the unread   *)
(* attempts at the end of the history, so the invariant counts them too,    *)
(* next to the reads that set the count back.                               *)
EXTENDS Investigation, FiniteSetTheorems, TLAPS

States == {"absent", "waiting", "running", "completed", "cancelled"}
Statuses == {"none", "claimed", "completed", "expired", "cancelled"}
Outcomes == {"none", "completed", "failed"}

JobRec == [state : States, gen : Nat, ready : BOOLEAN, current : 0 .. MaxGen]
Attempt == [status : Statuses, due : BOOLEAN]
Publication == [job : Jobs, gen : Gens, overdue : SUBSET Gens,
                result : {"completed", "retryable", "final"}]

\* What is known of one job: its row b, its attempts a, its reports rep, the flagged
\* generations fl and the inputs n it has had.
TypesOf(b, a, rep, n) ==
    /\ b \in JobRec /\ a \in [Gens -> Attempt] /\ rep \in [Gens -> Outcomes]
    /\ n \in 0 .. MaxInputs

\* Attempts are of generations the job has had, completed ones have a report, expired
\* ones ran out; the current report is that of a completed attempt.
AttemptsOf(b, a, rep) ==
    \A g \in Gens :
        /\ a[g].status # "none" => g <= b.gen
        /\ a[g].status = "completed" => rep[g] # "none"
        /\ rep[g] # "none" => a[g].status # "none"
        /\ a[g].status = "expired" => a[g].due
        /\ a[g].due => a[g].status # "none"

PointerOf(b, a, fl) ==
    /\ b.current # 0 => a[b.current].status = "completed"
    /\ fl = IF b.current = 0 THEN {} ELSE {b.current}

ReadGens(a, rep) == {g \in Gens : a[g].status = "completed" /\ rep[g] = "completed"}
UnreadBelow(m, a, rep) ==
    {g \in Gens : g < m /\ a[g].status # "none" /\ \A h \in ReadGens(a, rep) : h < g}
Reported(rep) == {g \in Gens : rep[g] # "none"}

\* The automatic generations.  Every retry of a trace leaves an unread attempt behind it,
\* and there are no more of them than delays before the next read; a call is retried
\* only by its first report.
BudgetOf(j, m, a, rep, n) ==
    /\ j \in TraceJobs =>
          /\ m <= n + NumDelays * (1 + Cardinality(ReadGens(a, rep)))
          /\ m <= n + NumDelays * Cardinality(ReadGens(a, rep))
                    + Cardinality(UnreadBelow(m, a, rep))
    /\ j \in CallJobs => m <= n + 1 /\ (Reported(rep) = {} => m <= n)

RunningOf(b, a) ==
    b.state = "running" => \E g \in Gens : g <= b.gen /\ a[g].status = "claimed"

\* All of it but the claim of a running job.
JobCore(j, b, a, rep, fl, n) ==
    /\ TypesOf(b, a, rep, n) /\ AttemptsOf(b, a, rep) /\ PointerOf(b, a, fl)
    /\ (b.state = "absent" <=> b.gen = 0)
    /\ BudgetOf(j, b.gen, a, rep, n)

\* A publication on its way is the only one of its attempt, which has no report yet, and
\* a lease that had run out when it arrived has run out.
ArrivedInv ==
    /\ arrived \subseteq Publication
    /\ \A p \in arrived :
          /\ report[p.job][p.gen] = "none" /\ att[p.job][p.gen].status # "none"
          /\ \A h \in p.overdue : att[p.job][h].due
    /\ \A p, q \in arrived : p.job = q.job /\ p.gen = q.gen => p = q

\* A job whose claim is being committed is still as the claim found it.
CountingInv ==
    /\ counting \subseteq CallJobs
    /\ \A j \in counting : job[j].state = "waiting" /\ att[j][job[j].gen].status = "none"

Arriving(j) == {p.gen : p \in {q \in arrived : q.job = j}}

\* Publications are within their bound.
ReportsCounted ==
    \A j \in Jobs : Cardinality(Reported(report[j]) \cup Arriving(j)) <= MaxReports

\* The columns of the ledger, apart from the bound on the generations.
ColumnsOK ==
    /\ job \in [Jobs -> JobRec] /\ att \in [Jobs -> [Gens -> Attempt]]
    /\ report \in [Jobs -> [Gens -> Outcomes]] /\ flagged \in [Jobs -> SUBSET Gens]
    /\ inputs \in [Jobs -> 0 .. MaxInputs] /\ config \in {"sampled", "sampled_out", "off"}

JobsInv ==
    \A j \in Jobs :
        /\ JobCore(j, job[j], att[j], report[j], flagged[j], inputs[j])
        /\ RunningOf(job[j], att[j])

GensBounded == \A j \in Jobs : job[j].gen <= MaxGen

LedgerInv ==
    ColumnsOK /\ JobsInv /\ GensBounded /\ ArrivedInv /\ CountingInv /\ ReportsCounted

-----------------------------------------------------------------------------
(* Arithmetic and cardinalities                                            *)

\* The bounds are numbers, and sets of generations are finite.
LEMMA Bounds == MaxGen \in Nat /\ NumDelays \in Nat \ {0} /\ MaxInputs \in Nat /\ MaxReports \in Nat
<1>1. NumDelays \in Nat \ {0} /\ MaxInputs \in Nat /\ MaxReports \in Nat
  BY CapacityAssumption, InvestigationBounds
<1>2. NumDelays * (1 + MaxReports) \in Nat
  BY <1>1
<1> QED
  BY <1>1, <1>2 DEF MaxGen

\* Sets of generations have a size.
LEMMA GensFinite == \A S \in SUBSET Gens : IsFiniteSet(S) /\ Cardinality(S) \in Nat
<1>1. IsFiniteSet(Gens)
  BY Bounds, FS_Interval DEF Gens
<1> QED
  BY <1>1, FS_Subset, FS_CardinalityType

\* A larger set of generations has no fewer members.
LEMMA GensMonotone == \A T \in SUBSET Gens : \A S \in SUBSET T : Cardinality(S) <= Cardinality(T)
  BY GensFinite, FS_Subset

\* One generation more is one member more.
LEMMA GensAdd ==
    \A S \in SUBSET Gens : \A g \in Gens \ S : Cardinality(S \cup {g}) = Cardinality(S) + 1
  BY GensFinite, FS_AddElement

\* The products the budget is built from.
LEMMA TimesSuccessor == \A n, k \in Nat : n * (1 + k) = n * k + n /\ n * (1 + (k + 1)) = n * (1 + k) + n
                                          /\ n * k \in Nat
  OBVIOUS

\* More reads allow no fewer retries.
LEMMA TimesMonotone == ASSUME NEW n \in Nat, NEW k \in Nat, NEW m \in Nat, k <= m
                       PROVE  n * k <= n * m
<1>1. PICK d \in Nat : m = k + d
  <2>1. m - k \in Nat /\ m = k + (m - k)
    OBVIOUS
  <2> QED
    BY <2>1
<1>2. n * (k + d) = n * k + n * d /\ n * d \in Nat /\ n * k \in Nat
  OBVIOUS
<1> QED
  BY <1>1, <1>2

-----------------------------------------------------------------------------
(* The automatic generations                                               *)

\* What keeps the reads, and the unread attempts below the generation, keeps the budget.
LEMMA BudgetKept ==
    ASSUME NEW j \in Jobs, NEW m \in Nat, NEW n \in Nat, NEW a, NEW a2, NEW rep, NEW rep2,
           BudgetOf(j, m, a, rep, n),
           ReadGens(a2, rep2) = ReadGens(a, rep),
           UnreadBelow(m, a, rep) \subseteq UnreadBelow(m, a2, rep2),
           Reported(rep) \subseteq Reported(rep2)
    PROVE  BudgetOf(j, m, a2, rep2, n)
<1> DEFINE R == ReadGens(a, rep) U == UnreadBelow(m, a, rep) U2 == UnreadBelow(m, a2, rep2)
<1>1. R \in SUBSET Gens /\ U \in SUBSET U2 /\ U2 \in SUBSET Gens
  BY DEF ReadGens, UnreadBelow
<1>2. Cardinality(U) <= Cardinality(U2) /\ Cardinality(R) \in Nat /\ Cardinality(U) \in Nat
      /\ Cardinality(U2) \in Nat
  BY <1>1, GensMonotone, GensFinite
<1>3. NumDelays * Cardinality(R) \in Nat
  BY <1>2, Bounds, TimesSuccessor
<1> HIDE DEF R, U, U2
<1>4. j \in TraceJobs => /\ m <= n + NumDelays * (1 + Cardinality(R))
                         /\ m <= n + NumDelays * Cardinality(R) + Cardinality(U)
  BY DEF BudgetOf, R, U
<1>5. j \in TraceJobs => m <= n + NumDelays * Cardinality(R) + Cardinality(U2)
  BY <1>2, <1>3, <1>4
<1> QED
  BY <1>4, <1>5 DEF BudgetOf, R, U2

\* An input advances the generation and the inputs together.
LEMMA BudgetInput ==
    ASSUME NEW j \in Jobs, NEW m \in Nat, NEW n \in Nat, NEW a, NEW rep,
           BudgetOf(j, m, a, rep, n)
    PROVE  BudgetOf(j, m + 1, a, rep, n + 1)
<1> DEFINE R == ReadGens(a, rep) U == UnreadBelow(m, a, rep) U2 == UnreadBelow(m + 1, a, rep)
<1>1. R \in SUBSET Gens /\ U \in SUBSET U2 /\ U2 \in SUBSET Gens
  BY Bounds DEF ReadGens, UnreadBelow, Gens
<1>2. Cardinality(U) <= Cardinality(U2) /\ Cardinality(R) \in Nat /\ Cardinality(U) \in Nat
      /\ Cardinality(U2) \in Nat
  BY <1>1, GensMonotone, GensFinite
<1>3. NumDelays * Cardinality(R) \in Nat /\ NumDelays * (1 + Cardinality(R)) \in Nat
  BY <1>2, Bounds, TimesSuccessor
<1> HIDE DEF R, U, U2
<1>4. j \in TraceJobs => /\ m <= n + NumDelays * (1 + Cardinality(R))
                         /\ m <= n + NumDelays * Cardinality(R) + Cardinality(U)
  BY DEF BudgetOf, R, U
<1>5. j \in TraceJobs => /\ m + 1 <= n + 1 + NumDelays * (1 + Cardinality(R))
                         /\ m + 1 <= n + 1 + NumDelays * Cardinality(R) + Cardinality(U2)
  BY <1>2, <1>3, <1>4
<1>6. j \in CallJobs => m + 1 <= n + 1 + 1 /\ (Reported(rep) = {} => m + 1 <= n + 1)
  BY DEF BudgetOf
<1> QED
  BY <1>5, <1>6 DEF BudgetOf, R, U2

\* A read gives the job its delays again.
LEMMA BudgetRead ==
    ASSUME NEW j \in Jobs, NEW m \in Nat, NEW n \in Nat, NEW a, NEW a2, NEW rep, NEW rep2,
           NEW g \in Gens, BudgetOf(j, m, a, rep, n),
           g \notin ReadGens(a, rep), ReadGens(a2, rep2) = ReadGens(a, rep) \cup {g},
           Reported(rep) \subseteq Reported(rep2)
    PROVE  BudgetOf(j, m, a2, rep2, n)
<1> DEFINE k == Cardinality(ReadGens(a, rep)) u == Cardinality(UnreadBelow(m, a2, rep2))
<1>1. ReadGens(a, rep) \in SUBSET Gens /\ UnreadBelow(m, a2, rep2) \in SUBSET Gens
  BY DEF ReadGens, UnreadBelow
<1>2. k \in Nat /\ u \in Nat /\ Cardinality(ReadGens(a2, rep2)) = k + 1
  BY <1>1, GensFinite, GensAdd
<1>3. /\ NumDelays * (1 + k) \in Nat /\ NumDelays * (1 + (k + 1)) = NumDelays * (1 + k) + NumDelays
      /\ 1 + k = k + 1
  BY <1>2, Bounds, TimesSuccessor
<1>4. j \in TraceJobs => m <= n + NumDelays * (1 + k)
  BY DEF BudgetOf
<1> HIDE DEF k, u
<1>5. j \in TraceJobs => /\ m <= n + NumDelays * (1 + (k + 1))
                         /\ m <= n + NumDelays * (k + 1) + u
  BY <1>2, <1>3, <1>4, Bounds
<1> QED
  BY <1>2, <1>5 DEF BudgetOf, u

\* An automatic retry leaves an unread attempt behind, within the delays.
LEMMA BudgetRetry ==
    ASSUME NEW j \in Jobs, NEW m \in Gens, NEW n \in Nat, NEW a, NEW rep,
           BudgetOf(j, m, a, rep, n), RetryLeft(j, a, rep),
           \A g \in Gens : a[g].status # "none" => g <= m,
           a[m].status # "none", m \notin ReadGens(a, rep)
    PROVE  BudgetOf(j, m + 1, a, rep, n)
<1> DEFINE R == ReadGens(a, rep) U == UnreadBelow(m, a, rep) U2 == UnreadBelow(m + 1, a, rep)
<1>0. m \in Nat
  BY Bounds DEF Gens
<1>1. R \in SUBSET Gens /\ U \in SUBSET Gens /\ U2 \in SUBSET Gens
  BY DEF ReadGens, UnreadBelow
<1>2. \A h \in R : h < m
  BY <1>0, Bounds DEF ReadGens, Gens
<1>3. U2 = U \cup {m} /\ m \notin U
  BY <1>0, <1>2, Bounds DEF UnreadBelow, Gens
<1>4. U2 = {g \in Gens : a[g].status # "none" /\ \A h \in R : h < g}
  BY <1>0, Bounds DEF UnreadBelow, Gens
<1>5. j \in TraceJobs /\ Cardinality(U2) <= NumDelays
  BY <1>4 DEF RetryLeft, ReadGens
<1>6. /\ Cardinality(U2) = Cardinality(U) + 1 /\ Cardinality(U) \in Nat
      /\ Cardinality(R) \in Nat
  BY <1>1, <1>3, GensAdd, GensFinite
<1>7. NumDelays * (1 + Cardinality(R)) = NumDelays * Cardinality(R) + NumDelays
      /\ NumDelays * Cardinality(R) \in Nat
  BY <1>6, Bounds, TimesSuccessor
<1> HIDE DEF R, U, U2
<1>8. m <= n + NumDelays * Cardinality(R) + Cardinality(U)
  BY <1>5 DEF BudgetOf, R, U
<1>9. /\ m + 1 <= n + NumDelays * Cardinality(R) + Cardinality(U2)
      /\ m + 1 <= n + NumDelays * (1 + Cardinality(R))
  BY <1>0, <1>5, <1>6, <1>7, <1>8, Bounds
<1>10. j \notin CallJobs
  BY <1>5, JobsAssumption
<1> QED
  BY <1>9, <1>10 DEF BudgetOf, R, U2

\* Within the bounds on inputs and reports the generations are the modelled ones.
LEMMA BudgetBounds ==
    ASSUME NEW j \in Jobs, NEW m \in Nat, NEW n \in 0 .. MaxInputs, NEW a, NEW rep,
           BudgetOf(j, m, a, rep, n), \A g \in ReadGens(a, rep) : rep[g] # "none",
           Cardinality(Reported(rep)) <= MaxReports
    PROVE  m <= MaxGen
<1> DEFINE k == Cardinality(ReadGens(a, rep))
<1>1. ReadGens(a, rep) \in SUBSET Reported(rep) /\ Reported(rep) \in SUBSET Gens
  BY DEF ReadGens, Reported
<1>2. k \in Nat /\ k <= MaxReports
  BY <1>1, GensMonotone, GensFinite, Bounds
<1> HIDE DEF k
<1>3. NumDelays * (1 + k) <= NumDelays * (1 + MaxReports)
  BY <1>2, Bounds, TimesMonotone
<1>4. NumDelays * 1 <= NumDelays * (1 + MaxReports)
  BY Bounds, TimesMonotone
<1>5. /\ NumDelays * (1 + k) \in Nat /\ NumDelays * (1 + MaxReports) \in Nat
      /\ NumDelays * 1 = NumDelays
  BY <1>2, Bounds
<1>6. CASE j \in TraceJobs
  BY <1>3, <1>5, <1>6, Bounds DEF BudgetOf, MaxGen, k
<1>7. CASE j \in CallJobs
  BY <1>4, <1>5, <1>7, Bounds DEF BudgetOf, MaxGen
<1> QED
  BY <1>6, <1>7 DEF Jobs

-----------------------------------------------------------------------------
(* The row of a job                                                        *)

\* The row of a job that moves to its next generation.
LEMMA NextRow ==
    ASSUME NEW b \in JobRec, NEW x \in States, NEW y \in BOOLEAN
    PROVE  LET c == [b EXCEPT !.gen = @ + 1, !.state = x, !.ready = y] IN
           /\ c \in JobRec /\ c.gen = b.gen + 1 /\ c.state = x /\ c.current = b.current
<1> DEFINE b1 == [b EXCEPT !.gen = b.gen + 1]
           b2 == [b1 EXCEPT !.state = x]
           b3 == [b2 EXCEPT !.ready = y]
<1>1. b1 \in JobRec /\ b1.gen = b.gen + 1 /\ b1.current = b.current
  BY DEF JobRec
<1> HIDE DEF b1
<1>2. b2 \in JobRec /\ b2.gen = b.gen + 1 /\ b2.current = b.current /\ b2.state = x
  BY <1>1 DEF JobRec
<1> HIDE DEF b2
<1>3. b3 \in JobRec /\ b3.gen = b.gen + 1 /\ b3.current = b.current /\ b3.state = x
  BY <1>2 DEF JobRec
<1>4. b3 = [b EXCEPT !.gen = @ + 1, !.state = x, !.ready = y]
  BY DEF b1, b2, JobRec
<1> HIDE DEF b3
<1> QED
  BY <1>3, <1>4

\* The row of a call that is armed again.
LEMMA RearmedRow ==
    ASSUME NEW b \in JobRec
    PROVE  /\ Rearm(b) \in JobRec /\ Rearm(b).gen = b.gen + 1 /\ Rearm(b).current = 0
           /\ Rearm(b).state = "waiting"
<1> DEFINE c == [b EXCEPT !.gen = @ + 1, !.state = "waiting", !.ready = TRUE]
           e == [c EXCEPT !.current = 0]
<1>1. c \in JobRec /\ c.gen = b.gen + 1 /\ c.state = "waiting"
  <2>1. "waiting" \in States /\ TRUE \in BOOLEAN
    BY DEF States
  <2> HIDE DEF c
  <2> QED
    BY <2>1, NextRow DEF c
<1>2. e = Rearm(b)
  BY DEF Rearm, JobRec
<1> HIDE DEF c
<1>3. e \in JobRec /\ e.gen = b.gen + 1 /\ e.current = 0 /\ e.state = "waiting"
  BY <1>1, Bounds DEF JobRec
<1> HIDE DEF e
<1> QED
  BY <1>2, <1>3

\* A row that keeps its pointer and does not go back in generation, within the budget.
LEMMA CoreMoves ==
    ASSUME NEW j \in Jobs, NEW b, NEW a, NEW rep, NEW fl, NEW n, NEW n2 \in 0 .. MaxInputs,
           JobCore(j, b, a, rep, fl, n), NEW c \in JobRec, c.gen >= b.gen, c.gen # 0,
           c.current = b.current, c.state # "absent", BudgetOf(j, c.gen, a, rep, n2)
    PROVE  JobCore(j, c, a, rep, fl, n2)
<1>1. TypesOf(c, a, rep, n2)
  BY DEF JobCore, TypesOf
<1>2. AttemptsOf(c, a, rep)
  BY Bounds DEF JobCore, TypesOf, AttemptsOf, JobRec, Gens
<1>3. PointerOf(c, a, fl)
  BY DEF JobCore, PointerOf
<1> QED
  BY <1>1, <1>2, <1>3 DEF JobCore

\* A job with an attempt has a generation, and is not absent.
LEMMA AttemptedExists ==
    ASSUME NEW j \in Jobs, NEW b, NEW a, NEW rep, NEW fl, NEW n, JobCore(j, b, a, rep, fl, n),
           NEW g \in Gens, a[g].status # "none"
    PROVE  g <= b.gen /\ b.gen # 0 /\ b.state # "absent" /\ b \in JobRec /\ b.gen \in Nat
  BY Bounds DEF JobCore, AttemptsOf, TypesOf, JobRec, Gens

\* _settle_job keeps the row in order and leaves a job running only with its claim.
LEMMA SettleKeeps ==
    ASSUME NEW j \in Jobs, NEW b, NEW a, NEW rep, NEW fl, NEW n, JobCore(j, b, a, rep, fl, n),
           b.gen <= MaxGen, NEW g \in Gens, a[g].status # "none", NEW overdue,
           NEW ended \in {"completed", "cancelled"}, NEW retry \in BOOLEAN,
           b.state = "running" /\ b.gen = g /\ retry => g \notin ReadGens(a, rep)
    PROVE  LET s == Settle(j, b, a, rep, g, overdue, ended, retry) IN
           /\ JobCore(j, s, a, rep, fl, n) /\ RunningOf(s, a)
           /\ s.current = b.current /\ (j \in CallJobs => s.gen = b.gen)
<1> DEFINE s == Settle(j, b, a, rep, g, overdue, ended, retry)
<1>a. g <= b.gen /\ b.gen # 0 /\ b.state # "absent" /\ b \in JobRec /\ b.gen \in Nat
  BY AttemptedExists
<1>b. n \in 0 .. MaxInputs /\ n \in Nat /\ BudgetOf(j, b.gen, a, rep, n)
  BY Bounds DEF JobCore, TypesOf
<1>c. b.gen \in Gens /\ g \in Nat
  BY <1>a, Bounds DEF Gens
<1> HIDE DEF Settle
<1> SUFFICES JobCore(j, s, a, rep, fl, n) /\ RunningOf(s, a)
             /\ s.current = b.current /\ (j \in CallJobs => s.gen = b.gen)
  OBVIOUS
<1>1. CASE b.state # "running"
  <2>1. s = b
    BY <1>1 DEF Settle
  <2> HIDE DEF s
  <2> QED
    BY <1>1, <2>1 DEF RunningOf
<1>2. CASE b.state = "running" /\ b.gen > g
  <2>1. s = [b EXCEPT !.state = SupersededState(b, a, overdue)]
    BY <1>2 DEF Settle
  <2>2. SupersededState(b, a, overdue) \in {"running", "waiting"}
    BY DEF SupersededState
  <2>3. s \in JobRec /\ s.gen = b.gen /\ s.current = b.current
        /\ s.state = SupersededState(b, a, overdue)
    BY <1>a, <2>1, <2>2 DEF JobRec, States
  <2> HIDE DEF s
  <2>4. JobCore(j, s, a, rep, fl, n)
    BY <1>a, <1>b, <2>2, <2>3, CoreMoves
  <2>5. RunningOf(s, a)
    BY <1>a, <1>c, <2>3 DEF RunningOf, SupersededState
  <2> QED
    BY <2>3, <2>4, <2>5
<1>3. CASE b.state = "running" /\ ~(b.gen > g) /\ retry /\ RetryLeft(j, a, rep)
  <2>1. s = [b EXCEPT !.gen = @ + 1, !.state = "waiting", !.ready = FALSE]
    BY <1>3 DEF Settle
  <2>2. s \in JobRec /\ s.gen = b.gen + 1 /\ s.current = b.current /\ s.state = "waiting"
    <3>1. "waiting" \in States /\ FALSE \in BOOLEAN
      BY DEF States
    <3> HIDE DEF s
    <3> QED
      BY <1>a, <2>1, <3>1, NextRow
  <2>3. b.gen = g
    BY <1>3, <1>a, <1>c
  <2>4. \A h \in Gens : a[h].status # "none" => h <= b.gen
    BY DEF JobCore, AttemptsOf
  <2>5. BudgetOf(j, b.gen + 1, a, rep, n)
    BY <1>3, <1>b, <1>c, <2>3, <2>4, BudgetRetry
  <2> HIDE DEF s
  <2>6. JobCore(j, s, a, rep, fl, n)
    BY <1>a, <1>b, <2>2, <2>5, CoreMoves
  <2>7. j \notin CallJobs
    BY <1>3, JobsAssumption DEF RetryLeft
  <2> QED
    BY <2>2, <2>6, <2>7 DEF RunningOf
<1>4. CASE b.state = "running" /\ ~(b.gen > g) /\ ~(retry /\ RetryLeft(j, a, rep))
  <2>1. s = [b EXCEPT !.state = ended]
    BY <1>4 DEF Settle
  <2>2. s \in JobRec /\ s.gen = b.gen /\ s.current = b.current /\ s.state = ended
    BY <1>a, <2>1 DEF JobRec, States
  <2> HIDE DEF s
  <2>3. JobCore(j, s, a, rep, fl, n)
    BY <1>a, <1>b, <2>2, CoreMoves
  <2> QED
    BY <2>2, <2>3 DEF RunningOf
<1> QED
  BY <1>1, <1>2, <1>3, <1>4

\* A claim opens an attempt of the generation of the job.
LEMMA ClaimKeeps ==
    ASSUME NEW j \in Jobs, NEW b, NEW a, NEW rep, NEW fl, NEW n, JobCore(j, b, a, rep, fl, n),
           b.state = "waiting", b.gen <= MaxGen, a[b.gen].status = "none"
    PROVE  LET c == [b EXCEPT !.state = "running"]
               a2 == [a EXCEPT ![b.gen] = [status |-> "claimed", due |-> FALSE]]
           IN  /\ JobCore(j, c, a2, rep, fl, n) /\ RunningOf(c, a2)
               /\ c.current = b.current /\ b.gen \in Gens
<1> DEFINE c == [b EXCEPT !.state = "running"]
           a2 == [a EXCEPT ![b.gen] = [status |-> "claimed", due |-> FALSE]]
<1>1. /\ b \in JobRec /\ a \in [Gens -> Attempt] /\ rep \in [Gens -> Outcomes]
      /\ n \in 0 .. MaxInputs /\ n \in Nat /\ BudgetOf(j, b.gen, a, rep, n)
  BY Bounds DEF JobCore, TypesOf
<1>2. b.gen \in Gens /\ b.gen \in Nat
  BY <1>1, Bounds DEF JobCore, JobRec, Gens
<1>3. c \in JobRec /\ c.gen = b.gen /\ c.current = b.current /\ c.state = "running"
  BY <1>1 DEF JobRec, States
<1>4. /\ a2 \in [Gens -> Attempt] /\ a2[b.gen].status = "claimed" /\ ~a2[b.gen].due
      /\ \A g \in Gens : g # b.gen => a2[g] = a[g]
  BY <1>1, <1>2 DEF Attempt, Statuses
<1> HIDE DEF c, a2
<1>5. AttemptsOf(c, a2, rep)
  <2>1. AttemptsOf(b, a, rep)
    BY DEF JobCore
  <2>2. rep[b.gen] = "none"
    BY <1>2, <2>1 DEF AttemptsOf
  <2> SUFFICES ASSUME NEW g \in Gens
               PROVE  /\ a2[g].status # "none" => g <= c.gen
                      /\ a2[g].status = "completed" => rep[g] # "none"
                      /\ rep[g] # "none" => a2[g].status # "none"
                      /\ a2[g].status = "expired" => a2[g].due
                      /\ a2[g].due => a2[g].status # "none"
    BY DEF AttemptsOf
  <2>3. CASE g = b.gen
    BY <1>2, <1>3, <1>4, <2>2, <2>3
  <2>4. CASE g # b.gen
    BY <1>3, <1>4, <2>1, <2>4 DEF AttemptsOf
  <2> QED
    BY <2>3, <2>4
<1>6. PointerOf(c, a2, fl)
  <2>1. PointerOf(b, a, fl)
    BY DEF JobCore
  <2>2. b.current # 0 => b.current \in Gens /\ b.current # b.gen
    BY <1>1, <2>1, Bounds DEF PointerOf, JobRec, Gens
  <2> QED
    BY <1>3, <1>4, <2>1, <2>2 DEF PointerOf
<1>7. ReadGens(a2, rep) = ReadGens(a, rep)
  BY <1>2, <1>4 DEF ReadGens
<1>8. UnreadBelow(b.gen, a, rep) \subseteq UnreadBelow(b.gen, a2, rep)
  BY <1>2, <1>4, <1>7, Bounds DEF UnreadBelow, Gens
<1>9. BudgetOf(j, c.gen, a2, rep, n)
  BY <1>1, <1>2, <1>3, <1>7, <1>8, BudgetKept
<1>10. JobCore(j, c, a2, rep, fl, n)
  BY <1>1, <1>2, <1>3, <1>4, <1>5, <1>6, <1>9, Bounds DEF JobCore, TypesOf, Gens
<1>11. RunningOf(c, a2)
  BY <1>2, <1>3, <1>4 DEF RunningOf
<1> QED
  BY <1>2, <1>3, <1>10, <1>11 DEF c, a2

\* An attempt that changes its status without a report, or runs out, changes no more.
LEMMA AttemptKeeps ==
    ASSUME NEW j \in Jobs, NEW b, NEW a, NEW rep, NEW fl, NEW n, JobCore(j, b, a, rep, fl, n),
           NEW g \in Gens, a[g].status = "claimed", NEW x \in Attempt,
           x.status \in {"claimed", "expired", "cancelled"}, a[g].due => x.due,
           x.status = "expired" => x.due
    PROVE  JobCore(j, b, [a EXCEPT ![g] = x], rep, fl, n)
<1> DEFINE a2 == [a EXCEPT ![g] = x]
<1>1. /\ b \in JobRec /\ a \in [Gens -> Attempt] /\ rep \in [Gens -> Outcomes]
      /\ n \in 0 .. MaxInputs /\ n \in Nat /\ BudgetOf(j, b.gen, a, rep, n)
  BY Bounds DEF JobCore, TypesOf
<1>2. a2 \in [Gens -> Attempt] /\ a2[g] = x /\ \A h \in Gens : h # g => a2[h] = a[h]
  BY <1>1
<1> HIDE DEF a2
<1>3. AttemptsOf(b, a2, rep)
  <2>1. AttemptsOf(b, a, rep)
    BY DEF JobCore
  <2> QED
    BY <1>2, <2>1 DEF AttemptsOf
<1>4. PointerOf(b, a2, fl)
  <2>1. b.current # 0 => b.current \in Gens /\ b.current # g
    BY <1>1, Bounds DEF JobCore, PointerOf, JobRec, Gens
  <2> QED
    BY <1>2, <2>1 DEF JobCore, PointerOf
<1>5. ReadGens(a2, rep) = ReadGens(a, rep)
  BY <1>2 DEF ReadGens
<1>6. UnreadBelow(b.gen, a, rep) \subseteq UnreadBelow(b.gen, a2, rep)
  BY <1>2, <1>5 DEF UnreadBelow
<1>7. BudgetOf(j, b.gen, a2, rep, n)
  BY <1>1, <1>5, <1>6, BudgetKept DEF JobRec
<1> QED
  BY <1>1, <1>2, <1>3, <1>4, <1>7 DEF JobCore, TypesOf, a2

-----------------------------------------------------------------------------
(* A publication                                                           *)

\* The report of p, among those of its job.
RepAfter(p) ==
    [report[p.job] EXCEPT ![p.gen] = IF p.result = "completed" THEN "completed" ELSE "failed"]

\* The row with the pointer the publication leaves, before it is settled.
Pointed(p) == [job[p.job] EXCEPT !.current = IF BecomesCurrent(p) THEN p.gen ELSE @]

\* What the invariant says of a publication that is about to commit.
LEMMA Arrived ==
    ASSUME LedgerInv, NEW p \in arrived
    PROVE  /\ p.job \in Jobs /\ p.gen \in Gens /\ p.overdue \subseteq Gens
           /\ p.result \in {"completed", "retryable", "final"}
           /\ JobCore(p.job, job[p.job], att[p.job], report[p.job], flagged[p.job], inputs[p.job])
           /\ RunningOf(job[p.job], att[p.job]) /\ job[p.job].gen <= MaxGen
           /\ report[p.job][p.gen] = "none"
           /\ att[p.job][p.gen].status \in {"claimed", "expired", "cancelled"}
           /\ \A h \in p.overdue : att[p.job][h].due
<1>1. p \in Publication /\ report[p.job][p.gen] = "none" /\ att[p.job][p.gen].status # "none"
      /\ \A h \in p.overdue : att[p.job][h].due
  BY DEF LedgerInv, ArrivedInv
<1>2. p.job \in Jobs /\ p.gen \in Gens /\ p.overdue \subseteq Gens
      /\ p.result \in {"completed", "retryable", "final"}
  BY <1>1 DEF Publication
<1>3. /\ JobCore(p.job, job[p.job], att[p.job], report[p.job], flagged[p.job], inputs[p.job])
      /\ RunningOf(job[p.job], att[p.job]) /\ job[p.job].gen <= MaxGen
  BY <1>2 DEF LedgerInv, JobsInv, GensBounded
<1>4. att[p.job] \in [Gens -> Attempt] /\ AttemptsOf(job[p.job], att[p.job], report[p.job])
  BY <1>3 DEF JobCore, TypesOf
<1>5. att[p.job][p.gen].status \in Statuses /\ att[p.job][p.gen].status # "completed"
  BY <1>1, <1>2, <1>4 DEF AttemptsOf, Attempt
<1> QED
  BY <1>1, <1>2, <1>3, <1>5 DEF Statuses

\* The attempt of a publication ends, completed when the report is used.
LEMMA AttemptsAfterFacts ==
    ASSUME LedgerInv, NEW p \in arrived
    PROVE  /\ AttemptsAfter(p) \in [Gens -> Attempt]
           /\ \A h \in Gens : h # p.gen => AttemptsAfter(p)[h] = att[p.job][h]
           /\ \A h \in Gens : AttemptsAfter(p)[h].due = att[p.job][h].due
           /\ AttemptsAfter(p)[p.gen].status \in {"completed", "expired", "cancelled"}
           /\ AttemptsAfter(p)[p.gen].status = "expired" => att[p.job][p.gen].due
           /\ OnTime(p) \/ Late(p) => AttemptsAfter(p)[p.gen].status = "completed"
           /\ AttemptsAfter(p)[p.gen].status = "completed" /\ ~OnTime(p) /\ ~Late(p) =>
                 att[p.job][p.gen].status = "claimed" /\ p.gen \notin p.overdue
<1> DEFINE a == att[p.job] a2 == AttemptsAfter(p)
<1>1. /\ p.gen \in Gens /\ a[p.gen].status \in {"claimed", "expired", "cancelled"}
      /\ \A h \in p.overdue : a[h].due
  BY Arrived
<1>2. a \in [Gens -> Attempt] /\ AttemptsOf(job[p.job], a, report[p.job])
  BY Arrived DEF JobCore, TypesOf
<1>3. a[p.gen].status = "expired" => a[p.gen].due
  BY <1>1, <1>2 DEF AttemptsOf
<1>4. OnTime(p) => a[p.gen].status = "claimed"
  BY DEF OnTime
<1>5. CASE ~Late(p) /\ a[p.gen].status # "claimed"
  <2>1. a2 = a
    BY <1>5 DEF AttemptsAfter
  <2> QED
    BY <1>1, <1>2, <1>3, <1>4, <1>5, <2>1
<1>6. CASE Late(p) \/ a[p.gen].status = "claimed"
  <2> DEFINE x == IF OnTime(p) \/ Late(p) \/ p.gen \notin p.overdue THEN "completed" ELSE "expired"
  <2>1. a2 = [a EXCEPT ![p.gen].status = x]
    BY <1>6 DEF AttemptsAfter
  <2>2. x \in {"completed", "expired"} /\ (x = "expired" => p.gen \in p.overdue)
        /\ (OnTime(p) \/ Late(p) => x = "completed")
        /\ (x = "completed" /\ ~OnTime(p) /\ ~Late(p) => p.gen \notin p.overdue)
    OBVIOUS
  <2> HIDE DEF x
  <2>3. /\ a2 \in [Gens -> Attempt] /\ a2[p.gen].status = x /\ a2[p.gen].due = a[p.gen].due
        /\ \A h \in Gens : h # p.gen => a2[h] = a[h]
    BY <1>1, <1>2, <2>1, <2>2 DEF Attempt, Statuses
  <2> HIDE DEF a2
  <2>4. \A h \in Gens : a2[h].due = a[h].due
    BY <2>3
  <2> QED
    BY <1>1, <1>6, <2>2, <2>3, <2>4 DEF a2
<1> QED
  BY <1>5, <1>6

\* The report is stored once.
LEMMA RepAfterFacts ==
    ASSUME LedgerInv, NEW p \in arrived
    PROVE  /\ RepAfter(p) \in [Gens -> Outcomes]
           /\ \A h \in Gens : h # p.gen => RepAfter(p)[h] = report[p.job][h]
           /\ RepAfter(p)[p.gen] = IF p.result = "completed" THEN "completed" ELSE "failed"
           /\ RepAfter(p)[p.gen] # "none"
           /\ Reported(RepAfter(p)) = Reported(report[p.job]) \cup {p.gen}
           /\ p.gen \notin Reported(report[p.job])
<1>1. p.gen \in Gens /\ report[p.job][p.gen] = "none"
  BY Arrived
<1>2. report[p.job] \in [Gens -> Outcomes]
  BY Arrived DEF JobCore, TypesOf
<1>3. /\ RepAfter(p) \in [Gens -> Outcomes]
      /\ \A h \in Gens : h # p.gen => RepAfter(p)[h] = report[p.job][h]
      /\ RepAfter(p)[p.gen] = IF p.result = "completed" THEN "completed" ELSE "failed"
  BY <1>1, <1>2 DEF RepAfter, Outcomes
<1>4. RepAfter(p)[p.gen] # "none"
  BY <1>3
<1> QED
  BY <1>1, <1>3, <1>4 DEF Reported

\* The budget: the report is a read, or it changes neither reads nor unread attempts.
LEMMA PublishBudget ==
    ASSUME LedgerInv, NEW p \in arrived
    PROVE  BudgetOf(p.job, job[p.job].gen, AttemptsAfter(p), RepAfter(p), inputs[p.job])
<1> DEFINE a == att[p.job] a2 == AttemptsAfter(p) r == report[p.job] r2 == RepAfter(p)
           m == job[p.job].gen n == inputs[p.job]
<1>1. p.job \in Jobs /\ m \in Nat /\ n \in Nat /\ BudgetOf(p.job, m, a, r, n)
  BY Arrived, Bounds DEF JobCore, TypesOf, JobRec
<1>2. /\ p.gen \in Gens /\ r[p.gen] = "none" /\ a[p.gen].status # "none"
      /\ a2[p.gen].status # "none"
      /\ \A h \in Gens : h # p.gen => a2[h] = a[h] /\ r2[h] = r[h]
      /\ Reported(r) \subseteq Reported(r2)
  BY Arrived, AttemptsAfterFacts, RepAfterFacts
<1> HIDE DEF a, a2, r, r2, m, n
<1>3. p.gen \notin ReadGens(a, r)
  BY <1>2 DEF ReadGens
<1>4. CASE p.gen \in ReadGens(a2, r2)
  <2>1. ReadGens(a2, r2) = ReadGens(a, r) \cup {p.gen}
    BY <1>2, <1>4 DEF ReadGens
  <2>2. BudgetOf(p.job, m, a2, r2, n)
    BY <1>1, <1>2, <1>3, <2>1, BudgetRead
  <2> QED
    BY <2>2 DEF a2, r2, m, n
<1>5. CASE p.gen \notin ReadGens(a2, r2)
  <2>1. ReadGens(a2, r2) = ReadGens(a, r)
    BY <1>2, <1>3, <1>5 DEF ReadGens
  <2>2. UnreadBelow(m, a, r) \subseteq UnreadBelow(m, a2, r2)
    BY <1>2, <2>1 DEF UnreadBelow
  <2>3. BudgetOf(p.job, m, a2, r2, n)
    BY <1>1, <1>2, <2>1, <2>2, BudgetKept
  <2> QED
    BY <2>3 DEF a2, r2, m, n
<1> QED
  BY <1>4, <1>5

\* The row with its new pointer fits the attempts and the reports.
LEMMA PointedKeeps ==
    ASSUME LedgerInv, NEW p \in arrived
    PROVE  /\ JobCore(p.job, Pointed(p), AttemptsAfter(p), RepAfter(p),
                      IF BecomesCurrent(p) THEN {p.gen} ELSE flagged[p.job], inputs[p.job])
           /\ Pointed(p).gen = job[p.job].gen /\ Pointed(p).state = job[p.job].state
           /\ Pointed(p).current = IF BecomesCurrent(p) THEN p.gen ELSE job[p.job].current
<1> DEFINE a == att[p.job] a2 == AttemptsAfter(p) r == report[p.job] r2 == RepAfter(p)
           b == job[p.job] c == Pointed(p)
           fl == IF BecomesCurrent(p) THEN {p.gen} ELSE flagged[p.job]
<1>1. /\ p.gen \in Gens /\ r[p.gen] = "none" /\ a[p.gen].status # "none"
      /\ JobCore(p.job, b, a, r, flagged[p.job], inputs[p.job])
  BY Arrived
<1>2. /\ b \in JobRec /\ AttemptsOf(b, a, r) /\ PointerOf(b, a, flagged[p.job])
      /\ (b.state = "absent" <=> b.gen = 0) /\ inputs[p.job] \in 0 .. MaxInputs
  BY <1>1 DEF JobCore, TypesOf
<1>3. /\ c \in JobRec /\ c.gen = b.gen /\ c.state = b.state
      /\ c.current = IF BecomesCurrent(p) THEN p.gen ELSE b.current
  BY <1>1, <1>2, Bounds DEF Pointed, JobRec, Gens
<1>4. /\ a2 \in [Gens -> Attempt] /\ \A h \in Gens : h # p.gen => a2[h] = a[h] /\ r2[h] = r[h]
      /\ \A h \in Gens : a2[h].due = a[h].due
      /\ a2[p.gen].status \in {"completed", "expired", "cancelled"}
      /\ a2[p.gen].status = "expired" => a[p.gen].due
      /\ OnTime(p) \/ Late(p) => a2[p.gen].status = "completed"
      /\ r2 \in [Gens -> Outcomes] /\ r2[p.gen] # "none"
  BY AttemptsAfterFacts, RepAfterFacts
<1>5. BudgetOf(p.job, c.gen, a2, r2, inputs[p.job])
  BY <1>3, PublishBudget
<1> HIDE DEF a, a2, r, r2, b, c
<1>6. AttemptsOf(c, a2, r2)
  <2> SUFFICES ASSUME NEW g \in Gens
               PROVE  /\ a2[g].status # "none" => g <= c.gen
                      /\ a2[g].status = "completed" => r2[g] # "none"
                      /\ r2[g] # "none" => a2[g].status # "none"
                      /\ a2[g].status = "expired" => a2[g].due
                      /\ a2[g].due => a2[g].status # "none"
    BY DEF AttemptsOf
  <2>1. CASE g = p.gen
    BY <1>1, <1>2, <1>3, <1>4, <2>1 DEF AttemptsOf
  <2>2. CASE g # p.gen
    BY <1>2, <1>3, <1>4, <2>2 DEF AttemptsOf
  <2> QED
    BY <2>1, <2>2
<1>7. PointerOf(c, a2, fl)
  <2>1. CASE BecomesCurrent(p)
    <3>1. OnTime(p) \/ Late(p)
      BY <2>1 DEF BecomesCurrent
    <3>2. p.gen # 0
      BY <1>1, Bounds DEF Gens
    <3> QED
      BY <1>3, <1>4, <2>1, <3>1, <3>2 DEF PointerOf
  <2>2. CASE ~BecomesCurrent(p)
    <3>1. b.current # 0 => b.current \in Gens /\ b.current # p.gen
      BY <1>1, <1>2, Bounds DEF PointerOf, AttemptsOf, JobRec, Gens
    <3> QED
      BY <1>2, <1>3, <1>4, <2>2, <3>1 DEF PointerOf
  <2> QED
    BY <2>1, <2>2
<1>8. JobCore(p.job, c, a2, r2, fl, inputs[p.job])
  BY <1>2, <1>3, <1>4, <1>5, <1>6, <1>7 DEF JobCore, TypesOf
<1> QED
  BY <1>3, <1>8 DEF a2, r2, b, c

\* The row once the publication is settled, before a call is armed again.
LEMMA JobAfterKeeps ==
    ASSUME LedgerInv, NEW p \in arrived
    PROVE  LET c == JobAfter(p, RepAfter(p)) IN
           /\ JobCore(p.job, c, AttemptsAfter(p), RepAfter(p),
                      IF BecomesCurrent(p) THEN {p.gen} ELSE flagged[p.job], inputs[p.job])
           /\ RunningOf(c, AttemptsAfter(p))
           /\ c.current = Pointed(p).current /\ (p.job \in CallJobs => c.gen = job[p.job].gen)
<1> DEFINE a2 == AttemptsAfter(p) r2 == RepAfter(p) b == Pointed(p) n == inputs[p.job]
           fl == IF BecomesCurrent(p) THEN {p.gen} ELSE flagged[p.job]
           active == OnTime(p) \/ Late(p)
           ended == IF active THEN "completed" ELSE "cancelled"
           retry == ~active \/ p.result = "retryable"
           c == JobAfter(p, r2)
<1>1. /\ p.job \in Jobs /\ p.gen \in Gens /\ b.gen <= MaxGen
      /\ JobCore(p.job, b, a2, r2, fl, n)
      /\ b.gen = job[p.job].gen /\ b.state = job[p.job].state
      /\ a2[p.gen].status # "none"
  BY Arrived, PointedKeeps, AttemptsAfterFacts
<1>2. b.state = "running" /\ b.gen = p.gen /\ retry => p.gen \notin ReadGens(a2, r2)
  <2> SUFFICES ASSUME b.state = "running", b.gen = p.gen, retry, p.gen \in ReadGens(a2, r2)
               PROVE  FALSE
    OBVIOUS
  <2>1. a2[p.gen].status = "completed" /\ r2[p.gen] = "completed"
    BY DEF ReadGens
  <2>2. p.result = "completed"
    BY <2>1, RepAfterFacts
  <2>3. ~OnTime(p) /\ ~Late(p)
    BY <2>2
  <2>4. att[p.job][p.gen].status = "claimed" /\ p.gen \notin p.overdue
    BY <2>1, <2>3, AttemptsAfterFacts
  <2>5. OnTime(p)
    BY <1>1, <2>4 DEF OnTime
  <2> QED
    BY <2>3, <2>5
<1>3. CASE Late(p) /\ b.state # "running"
  <2>1. c = [b EXCEPT !.state = IF @ = "cancelled" THEN "completed" ELSE @]
    BY <1>3 DEF JobAfter, Pointed
  <2>2. b.gen # 0 /\ b.state # "absent" /\ b \in JobRec /\ b.gen \in Nat
    BY <1>1, AttemptedExists
  <2> HIDE DEF b, c
  <2>3. /\ c \in JobRec /\ c.gen = b.gen /\ c.current = b.current
        /\ c.state = IF b.state = "cancelled" THEN "completed" ELSE b.state
    BY <2>1, <2>2 DEF JobRec, States
  <2>4. n \in 0 .. MaxInputs /\ BudgetOf(p.job, b.gen, a2, r2, n)
    BY <1>1 DEF JobCore, TypesOf
  <2> HIDE DEF a2, r2, n, fl
  <2>5. c.state # "absent" /\ c.state # "running"
    BY <1>3, <2>2, <2>3
  <2>6. JobCore(p.job, c, a2, r2, fl, n)
    BY <1>1, <2>2, <2>3, <2>4, <2>5, CoreMoves
  <2>7. RunningOf(c, a2)
    BY <2>5 DEF RunningOf
  <2> QED
    BY <1>1, <2>3, <2>6, <2>7 DEF a2, r2, n, fl, b, c
<1>4. CASE ~(Late(p) /\ b.state # "running")
  <2>1. c = Settle(p.job, b, a2, r2, p.gen, p.overdue, ended, retry)
    BY <1>4 DEF JobAfter, Pointed
  <2>2. ended \in {"completed", "cancelled"}
    OBVIOUS
  <2> HIDE DEF a2, r2, n, fl, b, c, ended, retry
  <2>4. PICK y \in BOOLEAN : /\ c = Settle(p.job, b, a2, r2, p.gen, p.overdue, ended, y)
                             /\ y => retry
    <3>1. CASE retry
      <4>1. c = Settle(p.job, b, a2, r2, p.gen, p.overdue, ended, TRUE)
        BY <2>1, <3>1 DEF Settle
      <4> QED
        BY <3>1, <4>1
    <3>2. CASE ~retry
      <4>1. c = Settle(p.job, b, a2, r2, p.gen, p.overdue, ended, FALSE)
        BY <2>1, <3>2 DEF Settle
      <4> QED
        BY <3>2, <4>1
    <3> QED
      BY <3>1, <3>2
  <2>5. b.state = "running" /\ b.gen = p.gen /\ y => p.gen \notin ReadGens(a2, r2)
    BY <1>2, <2>4
  <2>3. /\ JobCore(p.job, c, a2, r2, fl, n) /\ RunningOf(c, a2)
        /\ c.current = b.current /\ (p.job \in CallJobs => c.gen = b.gen)
    <3>1. /\ p.job \in Jobs /\ JobCore(p.job, b, a2, r2, fl, n) /\ b.gen <= MaxGen
          /\ p.gen \in Gens /\ a2[p.gen].status # "none"
      BY <1>1
    <3> DEFINE j == p.job g == p.gen o == p.overdue
    <3>2. y \in BOOLEAN /\ (b.state = "running" /\ b.gen = g /\ y => g \notin ReadGens(a2, r2))
      BY <2>5
    <3> HIDE DEF j, g, o
    <3>3. j \in Jobs /\ JobCore(j, b, a2, r2, fl, n) /\ b.gen <= MaxGen
          /\ g \in Gens /\ a2[g].status # "none"
      BY <3>1 DEF j, g
    <3>4. LET s == Settle(j, b, a2, r2, g, o, ended, y) IN
           /\ JobCore(j, s, a2, r2, fl, n) /\ RunningOf(s, a2)
           /\ s.current = b.current /\ (j \in CallJobs => s.gen = b.gen)
      BY <2>2, <3>2, <3>3, SettleKeeps
    <3> QED
      BY <3>4, <2>4 DEF j, g, o
  <2> QED
    BY <1>1, <2>3 DEF a2, r2, n, fl, b, c
<1> QED
  BY <1>3, <1>4

\* The row as publish_investigation commits it.
Committed(p) ==
    IF RetriedOnce(p, RepAfter(p)) THEN Rearm(JobAfter(p, RepAfter(p)))
    ELSE JobAfter(p, RepAfter(p))

\* A committed publication keeps the row, the attempts, the reports and the flags of its
\* job together, and moves the pointer of a trace only to the report that becomes current.
LEMMA PublishKeeps ==
    ASSUME LedgerInv, NEW p \in arrived
    PROVE  /\ JobCore(p.job, Committed(p), AttemptsAfter(p), RepAfter(p),
                      FlagsAfter(p, RepAfter(p)), inputs[p.job])
           /\ RunningOf(Committed(p), AttemptsAfter(p))
           /\ p.job \in TraceJobs => Committed(p).current = Pointed(p).current
<1> DEFINE a2 == AttemptsAfter(p) r2 == RepAfter(p) n == inputs[p.job]
           fl == IF BecomesCurrent(p) THEN {p.gen} ELSE flagged[p.job]
           c == JobAfter(p, r2)
           e == Committed(p) f == FlagsAfter(p, r2)
<1>1. /\ p.job \in Jobs /\ p.gen \in Gens
      /\ JobCore(p.job, c, a2, r2, fl, n) /\ RunningOf(c, a2)
      /\ c.current = Pointed(p).current /\ (p.job \in CallJobs => c.gen = job[p.job].gen)
  BY Arrived, JobAfterKeeps
<1>2. CASE ~RetriedOnce(p, r2)
  <2>1. e = c /\ f = fl
    BY <1>2 DEF Committed, FlagsAfter
  <2> HIDE DEF a2, r2, n, fl, c, e, f
  <2>2. JobCore(p.job, e, a2, r2, f, n) /\ RunningOf(e, a2) /\ e.current = Pointed(p).current
    BY <1>1, <2>1
  <2> QED
    BY <2>2 DEF a2, r2, n, e, f
<1>3. CASE RetriedOnce(p, r2)
  <2>1. e = Rearm(c) /\ f = fl \ {c.current}
    BY <1>3 DEF Committed, FlagsAfter
  <2>2. p.job \in CallJobs /\ p.job \notin TraceJobs /\ Cardinality(Reported(r2)) = 1
    BY <1>3, JobsAssumption DEF RetriedOnce, Reported
  <2>3. Reported(report[p.job]) = {}
    <3>1. /\ Reported(r2) = Reported(report[p.job]) \cup {p.gen}
          /\ p.gen \notin Reported(report[p.job])
      BY RepAfterFacts
    <3>2. Reported(report[p.job]) \in SUBSET Gens
      BY DEF Reported
    <3>3. Cardinality(Reported(report[p.job])) + 1 = 1
      BY <1>1, <2>2, <3>1, <3>2, GensAdd
    <3>4. Cardinality(Reported(report[p.job])) = 0
      BY <3>2, <3>3, GensFinite
    <3> QED
      BY <3>2, <3>4, GensFinite, FS_EmptySet
  <2>4. job[p.job].gen <= n /\ n \in 0 .. MaxInputs /\ n \in Nat /\ job[p.job].gen \in Nat
    BY <2>2, <2>3, Arrived, Bounds DEF JobCore, BudgetOf, TypesOf, JobRec
  <2>5. p.gen \in Reported(r2)
    BY RepAfterFacts DEF Reported
  <2>6. c \in JobRec /\ c.gen = job[p.job].gen /\ PointerOf(c, a2, fl) /\ AttemptsOf(c, a2, r2)
        /\ TypesOf(c, a2, r2, n)
    BY <1>1, <2>2 DEF JobCore, TypesOf
  <2> HIDE DEF a2, r2, n, fl, c, e, f
  <2>7. e \in JobRec /\ e.gen = c.gen + 1 /\ e.current = 0 /\ e.state = "waiting"
    BY <2>1, <2>6, RearmedRow
  <2>8. f = {}
    BY <2>1, <2>6 DEF PointerOf
  <2>9. BudgetOf(p.job, e.gen, a2, r2, n)
    BY <2>2, <2>4, <2>5, <2>6, <2>7 DEF BudgetOf
  <2>10. AttemptsOf(e, a2, r2)
    BY <2>4, <2>6, <2>7, Bounds DEF AttemptsOf, Gens
  <2>11. e.gen # 0
    BY <2>4, <2>6, <2>7
  <2>12. JobCore(p.job, e, a2, r2, f, n)
    BY <2>6, <2>7, <2>8, <2>9, <2>10, <2>11 DEF JobCore, TypesOf, PointerOf
  <2>13. RunningOf(e, a2)
    BY <2>7 DEF RunningOf
  <2> QED
    BY <2>2, <2>12, <2>13 DEF a2, r2, n, e, f
<1> QED
  BY <1>2, <1>3

-----------------------------------------------------------------------------
(* The steps                                                               *)

\* A step that changes one job at most.
Touches(j, b, a, rep, fl, n) ==
    /\ job' = [job EXCEPT ![j] = b] /\ att' = [att EXCEPT ![j] = a]
    /\ report' = [report EXCEPT ![j] = rep] /\ flagged' = [flagged EXCEPT ![j] = fl]
    /\ inputs' = [inputs EXCEPT ![j] = n]

\* The generation of a job that is in order is one of those modelled.
LEMMA CoreBounds ==
    ASSUME NEW j \in Jobs, NEW b, NEW a, NEW rep, NEW fl, NEW n, JobCore(j, b, a, rep, fl, n),
           Cardinality(Reported(rep)) <= MaxReports
    PROVE  b.gen <= MaxGen
<1>1. b.gen \in Nat /\ n \in 0 .. MaxInputs /\ BudgetOf(j, b.gen, a, rep, n)
  BY DEF JobCore, TypesOf, JobRec
<1>2. \A g \in ReadGens(a, rep) : rep[g] # "none"
  BY DEF ReadGens
<1> QED
  BY <1>1, <1>2, BudgetBounds

\* A step that changes one job, and keeps it in order, keeps all jobs in order.
LEMMA TouchKeeps ==
    ASSUME LedgerInv, NEW j \in Jobs, NEW b, NEW a, NEW rep, NEW fl, NEW n,
           Touches(j, b, a, rep, fl, n), JobCore(j, b, a, rep, fl, n), RunningOf(b, a),
           Cardinality(Reported(rep)) <= MaxReports, config' \in {"sampled", "sampled_out", "off"}
    PROVE  ColumnsOK' /\ JobsInv' /\ GensBounded'
<1>1. /\ b \in JobRec /\ a \in [Gens -> Attempt] /\ rep \in [Gens -> Outcomes]
      /\ n \in 0 .. MaxInputs
  BY DEF JobCore, TypesOf
<1>2. fl \in SUBSET Gens
  BY <1>1, Bounds DEF JobCore, PointerOf, JobRec, Gens
<1>3. ColumnsOK'
  BY <1>1, <1>2 DEF LedgerInv, ColumnsOK, Touches
<1>4. ASSUME NEW k \in Jobs
      PROVE  /\ JobCore(k, job'[k], att'[k], report'[k], flagged'[k], inputs'[k])
             /\ RunningOf(job'[k], att'[k]) /\ job'[k].gen <= MaxGen
  <2>1. CASE k = j
    <3>1. job'[j] = b /\ att'[j] = a /\ report'[j] = rep /\ flagged'[j] = fl /\ inputs'[j] = n
      BY DEF LedgerInv, ColumnsOK, Touches
    <3>2. b.gen <= MaxGen
      BY CoreBounds
    <3> QED
      BY <2>1, <3>1, <3>2
  <2>2. CASE k # j
    <3>1. /\ job'[k] = job[k] /\ att'[k] = att[k] /\ report'[k] = report[k]
          /\ flagged'[k] = flagged[k] /\ inputs'[k] = inputs[k]
      BY <2>2 DEF LedgerInv, ColumnsOK, Touches
    <3> QED
      BY <3>1 DEF LedgerInv, JobsInv, GensBounded
  <2> QED
    BY <2>1, <2>2
<1>5. JobsInv' /\ GensBounded'
  BY <1>4 DEF JobsInv, GensBounded
<1> QED
  BY <1>3, <1>5

\* The facts of one job.
LEMMA OfJob ==
    ASSUME LedgerInv, NEW j \in Jobs
    PROVE  /\ JobCore(j, job[j], att[j], report[j], flagged[j], inputs[j])
           /\ RunningOf(job[j], att[j]) /\ job[j].gen <= MaxGen
           /\ job[j] \in JobRec /\ job[j].gen \in Nat /\ att[j] \in [Gens -> Attempt]
           /\ inputs[j] \in 0 .. MaxInputs /\ inputs[j] \in Nat
           /\ BudgetOf(j, job[j].gen, att[j], report[j], inputs[j])
           /\ Cardinality(Reported(report[j])) <= MaxReports
<1>1. Reported(report[j]) \in SUBSET (Reported(report[j]) \cup Arriving(j))
  OBVIOUS
<1>2. Reported(report[j]) \cup Arriving(j) \in SUBSET Gens
  BY DEF Reported, Arriving, LedgerInv, ArrivedInv, Publication
<1>3. /\ Cardinality(Reported(report[j])) \in Nat
      /\ Cardinality(Reported(report[j]) \cup Arriving(j)) \in Nat
      /\ Cardinality(Reported(report[j])) <= Cardinality(Reported(report[j]) \cup Arriving(j))
  BY <1>1, <1>2, GensMonotone, GensFinite
<1>4. Cardinality(Reported(report[j])) <= MaxReports
  BY <1>3, Bounds DEF LedgerInv, ReportsCounted
<1>5. job[j] \in JobRec /\ att[j] \in [Gens -> Attempt] /\ inputs[j] \in 0 .. MaxInputs
  BY DEF LedgerInv, ColumnsOK
<1>6. job[j].gen \in Nat /\ inputs[j] \in Nat
  BY <1>5, Bounds DEF JobRec
<1>7. /\ JobCore(j, job[j], att[j], report[j], flagged[j], inputs[j])
      /\ RunningOf(job[j], att[j]) /\ job[j].gen <= MaxGen
  BY DEF LedgerInv, JobsInv, GensBounded
<1>8. BudgetOf(j, job[j].gen, att[j], report[j], inputs[j])
  BY <1>7 DEF JobCore
<1> QED
  BY <1>4, <1>5, <1>6, <1>7, <1>8

\* Publications and claims in progress are not disturbed by a step that leaves them, the
\* reports, and the status and the lease of every attempt that exists.
LEMMA BystandersKept ==
    ASSUME LedgerInv, UNCHANGED <<arrived, report>>,
           \A k \in Jobs, g \in Gens : att[k][g].status # "none" =>
               att'[k][g].status # "none" /\ (att[k][g].due => att'[k][g].due)
    PROVE  ArrivedInv' /\ ReportsCounted'
<1>1. ArrivedInv'
  <2>1. arrived \subseteq Publication
    BY DEF LedgerInv, ArrivedInv
  <2>2. ASSUME NEW p \in arrived
        PROVE  /\ report[p.job][p.gen] = "none" /\ att'[p.job][p.gen].status # "none"
               /\ \A h \in p.overdue : att'[p.job][h].due
    <3>1. p.job \in Jobs /\ p.gen \in Gens /\ p.overdue \subseteq Gens
      BY <2>1 DEF Publication
    <3>2. /\ report[p.job][p.gen] = "none" /\ att[p.job][p.gen].status # "none"
          /\ \A h \in p.overdue : att[p.job][h].due
      BY DEF LedgerInv, ArrivedInv
    <3>3. \A h \in Gens : att[p.job][h].due => att[p.job][h].status # "none"
      BY <3>1, OfJob DEF JobCore, AttemptsOf
    <3> QED
      BY <3>1, <3>2, <3>3
  <2> QED
    BY <2>1, <2>2 DEF LedgerInv, ArrivedInv
<1>2. ReportsCounted'
  BY DEF LedgerInv, ReportsCounted, Arriving
<1> QED
  BY <1>1, <1>2

\* A step that changes only the row and the inputs of a job no claim holds.
LEMMA RowStep ==
    ASSUME LedgerInv, NEW j \in Jobs \ counting, NEW c, NEW n,
           job' = [job EXCEPT ![j] = c], inputs' = [inputs EXCEPT ![j] = n],
           JobCore(j, c, att[j], report[j], flagged[j], n), RunningOf(c, att[j]),
           UNCHANGED <<att, report, flagged, arrived, counting, config>>
    PROVE  LedgerInv'
<1>1. Touches(j, c, att[j], report[j], flagged[j], n)
  BY DEF LedgerInv, ColumnsOK, Touches
<1>2. ColumnsOK' /\ JobsInv' /\ GensBounded'
  BY <1>1, OfJob, TouchKeeps DEF LedgerInv, ColumnsOK
<1>3. ArrivedInv' /\ ReportsCounted'
  BY BystandersKept
<1>4. CountingInv'
  BY DEF LedgerInv, CountingInv, ColumnsOK
<1> QED
  BY <1>2, <1>3, <1>4 DEF LedgerInv

\* A new input of a trace advances the generation with the inputs.
LEMMA NotifyStep == ASSUME LedgerInv, NEW j \in TraceJobs, Notify(j) PROVE LedgerInv'
<1> DEFINE b == job[j] c == job'[j]
<1>1. j \in Jobs \ counting
  BY JobsAssumption DEF Jobs, LedgerInv, CountingInv
<1>2. /\ JobCore(j, b, att[j], report[j], flagged[j], inputs[j]) /\ RunningOf(b, att[j])
      /\ b \in JobRec /\ b.gen \in Nat /\ inputs[j] \in Nat /\ inputs[j] < MaxInputs
      /\ BudgetOf(j, b.gen, att[j], report[j], inputs[j])
  BY <1>1, OfJob DEF Notify, Input
<1>3. inputs[j] + 1 \in 0 .. MaxInputs
  BY <1>2, Bounds
<1>4. job' = [job EXCEPT ![j] = c] /\ inputs' = [inputs EXCEPT ![j] = inputs[j] + 1]
      /\ UNCHANGED <<att, report, flagged, arrived, counting, config>>
  BY <1>1 DEF Notify, Input, LedgerInv, ColumnsOK
<1>5. c \in JobRec /\ c.gen = b.gen + 1 /\ c.current = b.current
      /\ c.state = IF b.state = "running" THEN "running" ELSE "waiting"
  <2>1. CASE b.state = "absent"
    <3>1. c = [b EXCEPT !.gen = 1, !.state = "waiting"]
      BY <1>1, <2>1 DEF Notify, LedgerInv, ColumnsOK
    <3>2. b.gen = 0
      BY <1>2, <2>1 DEF JobCore
    <3> DEFINE e == [b EXCEPT !.gen = 1]
    <3> HIDE DEF b, c
    <3>3. e \in JobRec /\ e.gen = 1 /\ e.current = b.current
      BY <1>2 DEF JobRec
    <3>4. c = [e EXCEPT !.state = "waiting"]
      BY <3>1
    <3> HIDE DEF e
    <3>5. c \in JobRec /\ c.gen = e.gen /\ c.current = e.current /\ c.state = "waiting"
      BY <3>3, <3>4 DEF JobRec, States
    <3>6. b.state # "running" /\ b.gen + 1 = 1
      BY <2>1, <3>2
    <3> QED
      BY <3>3, <3>5, <3>6
  <2>2. CASE b.state # "absent"
    <3> DEFINE x == IF b.state = "running" THEN "running" ELSE "waiting"
    <3>1. c = [b EXCEPT !.gen = @ + 1, !.ready = FALSE, !.state = x]
      BY <1>1, <2>2 DEF Notify, LedgerInv, ColumnsOK
    <3>2. x \in States /\ FALSE \in BOOLEAN
      BY DEF States
    <3> HIDE DEF b, c, x
    <3>3. c = [b EXCEPT !.gen = @ + 1, !.state = x, !.ready = FALSE]
      BY <1>2, <3>1 DEF JobRec
    <3>4. c \in JobRec /\ c.gen = b.gen + 1 /\ c.current = b.current /\ c.state = x
      BY <1>2, <3>2, <3>3, NextRow
    <3> QED
      BY <3>4 DEF x
  <2> QED
    BY <2>1, <2>2
<1> HIDE DEF b, c
<1>6. BudgetOf(j, c.gen, att[j], report[j], inputs[j] + 1)
  BY <1>1, <1>2, <1>5, BudgetInput
<1>7. JobCore(j, c, att[j], report[j], flagged[j], inputs[j] + 1)
  BY <1>1, <1>2, <1>3, <1>5, <1>6, CoreMoves
<1>8. RunningOf(c, att[j])
  BY <1>2, <1>5, Bounds DEF RunningOf, Gens
<1> QED
  BY <1>1, <1>4, <1>7, <1>8, RowStep

\* So does an operator who queues the trace again.
LEMMA RequeueStep == ASSUME LedgerInv, NEW j \in TraceJobs, Requeue(j) PROVE LedgerInv'
<1> DEFINE b == job[j] c == job'[j]
<1>1. j \in Jobs \ counting
  BY JobsAssumption DEF Jobs, LedgerInv, CountingInv
<1>2. /\ JobCore(j, b, att[j], report[j], flagged[j], inputs[j])
      /\ b \in JobRec /\ b.gen \in Nat /\ inputs[j] \in Nat /\ inputs[j] < MaxInputs
      /\ BudgetOf(j, b.gen, att[j], report[j], inputs[j])
  BY <1>1, OfJob DEF Requeue, Input
<1>3. inputs[j] + 1 \in 0 .. MaxInputs
  BY <1>2, Bounds
<1>4. job' = [job EXCEPT ![j] = c] /\ inputs' = [inputs EXCEPT ![j] = inputs[j] + 1]
      /\ UNCHANGED <<att, report, flagged, arrived, counting, config>>
  BY <1>1 DEF Requeue, Input, LedgerInv, ColumnsOK
<1>5. c = [b EXCEPT !.gen = @ + 1, !.state = "waiting", !.ready = TRUE]
  BY <1>1 DEF Requeue, LedgerInv, ColumnsOK
<1>6. "waiting" \in States /\ TRUE \in BOOLEAN
  BY DEF States
<1> HIDE DEF b, c
<1>7. c \in JobRec /\ c.gen = b.gen + 1 /\ c.current = b.current /\ c.state = "waiting"
  BY <1>2, <1>5, <1>6, NextRow
<1>8. BudgetOf(j, c.gen, att[j], report[j], inputs[j] + 1)
  BY <1>1, <1>2, <1>7, BudgetInput
<1>9. JobCore(j, c, att[j], report[j], flagged[j], inputs[j] + 1)
  BY <1>1, <1>2, <1>3, <1>7, <1>8, CoreMoves
<1>10. RunningOf(c, att[j])
  BY <1>7 DEF RunningOf
<1> QED
  BY <1>1, <1>4, <1>9, <1>10, RowStep

\* A step that changes the state or the readiness of a row, and nothing else.
LEMMA RestateStep ==
    ASSUME LedgerInv, NEW j \in Jobs, NEW c \in JobRec, job' = [job EXCEPT ![j] = c],
           c.gen = job[j].gen, c.current = job[j].current, job[j].gen # 0, c.state # "absent",
           c.state = "running" => job[j].state = "running",
           j \in counting => c.state = job[j].state,
           UNCHANGED <<att, report, flagged, arrived, counting, config, inputs>>
    PROVE  LedgerInv'
<1>1. /\ JobCore(j, job[j], att[j], report[j], flagged[j], inputs[j]) /\ RunningOf(job[j], att[j])
      /\ job[j].gen \in Nat /\ inputs[j] \in 0 .. MaxInputs
      /\ BudgetOf(j, job[j].gen, att[j], report[j], inputs[j])
      /\ Cardinality(Reported(report[j])) <= MaxReports
  BY OfJob
<1>2. JobCore(j, c, att[j], report[j], flagged[j], inputs[j])
  BY <1>1, CoreMoves
<1>3. RunningOf(c, att[j])
  BY <1>1 DEF RunningOf
<1>4. Touches(j, c, att[j], report[j], flagged[j], inputs[j])
  BY DEF LedgerInv, ColumnsOK, Touches
<1>5. ColumnsOK' /\ JobsInv' /\ GensBounded'
  BY <1>1, <1>2, <1>3, <1>4, TouchKeeps DEF LedgerInv, ColumnsOK
<1>6. ArrivedInv' /\ ReportsCounted'
  BY BystandersKept
<1>7. CountingInv'
  BY DEF LedgerInv, CountingInv, ColumnsOK
<1> QED
  BY <1>5, <1>6, <1>7 DEF LedgerInv

\* A trace that is sampled out is cancelled before it has an attempt.
LEMMA SampledOutStep == ASSUME LedgerInv, NEW j \in TraceJobs, ClaimSampledOut(j) PROVE LedgerInv'
<1> DEFINE c == [job[j] EXCEPT !.state = "cancelled"]
<1>1. j \in Jobs /\ j \notin counting
  BY JobsAssumption DEF Jobs, LedgerInv, CountingInv
<1>2. job[j] \in JobRec /\ job[j].gen # 0
  BY <1>1, OfJob DEF JobCore, ClaimSampledOut
<1>3. job' = [job EXCEPT ![j] = c]
  BY <1>1 DEF ClaimSampledOut, LedgerInv, ColumnsOK
<1>4. c \in JobRec /\ c.gen = job[j].gen /\ c.current = job[j].current /\ c.state = "cancelled"
  BY <1>2 DEF JobRec, States
<1> HIDE DEF c
<1> QED
  BY <1>1, <1>2, <1>3, <1>4, RestateStep DEF ClaimSampledOut

\* A delay that has passed changes the readiness of the row only.
LEMMA ReadyStep == ASSUME LedgerInv, NEW j \in Jobs, BecomesReady(j) PROVE LedgerInv'
<1> DEFINE c == [job[j] EXCEPT !.ready = TRUE]
<1>1. job[j] \in JobRec /\ job[j].gen # 0 /\ job[j].state # "absent"
  BY OfJob DEF JobCore, BecomesReady
<1>2. job' = [job EXCEPT ![j] = c]
  BY DEF BecomesReady, LedgerInv, ColumnsOK
<1>3. c \in JobRec /\ c.gen = job[j].gen /\ c.current = job[j].current /\ c.state = job[j].state
  BY <1>1 DEF JobRec
<1> HIDE DEF c
<1> QED
  BY <1>1, <1>2, <1>3, RestateStep DEF BecomesReady

\* The second half of a claim, for a job found as claimable.
LEMMA AttemptedStep ==
    ASSUME LedgerInv, NEW j \in Jobs, job[j].state = "waiting", att[j][job[j].gen].status = "none",
           Attempted(j), counting' \subseteq counting \ {j},
           UNCHANGED <<report, flagged, arrived, config, inputs>>
    PROVE  LedgerInv' /\ job'[j].current = job[j].current
<1> DEFINE c == [job[j] EXCEPT !.state = "running"]
           a == [att[j] EXCEPT ![job[j].gen] = [status |-> "claimed", due |-> FALSE]]
<1>1. /\ JobCore(j, job[j], att[j], report[j], flagged[j], inputs[j]) /\ job[j].gen <= MaxGen
      /\ att[j] \in [Gens -> Attempt] /\ Cardinality(Reported(report[j])) <= MaxReports
  BY OfJob
<1>2. /\ JobCore(j, c, a, report[j], flagged[j], inputs[j]) /\ RunningOf(c, a)
      /\ c.current = job[j].current /\ job[j].gen \in Gens
  BY <1>1, ClaimKeeps
<1>3. Touches(j, c, a, report[j], flagged[j], inputs[j])
  BY DEF LedgerInv, ColumnsOK, Touches, Attempted
<1>4. \A g \in Gens : att[j][g].status # "none" => a[g] = att[j][g]
  BY <1>1
<1> HIDE DEF c, a
<1>5. ColumnsOK' /\ JobsInv' /\ GensBounded'
  BY <1>1, <1>2, <1>3, TouchKeeps DEF LedgerInv, ColumnsOK
<1>6. ArrivedInv' /\ ReportsCounted'
  <2>1. \A k \in Jobs : att'[k] = IF k = j THEN a ELSE att[k]
    BY <1>3 DEF Touches, LedgerInv, ColumnsOK
  <2>2. \A k \in Jobs, g \in Gens : att[k][g].status # "none" =>
            att'[k][g].status # "none" /\ (att[k][g].due => att'[k][g].due)
    BY <1>4, <2>1
  <2> QED
    BY <2>2, BystandersKept
<1>7. CountingInv'
  <2>1. \A k \in Jobs : k # j => job'[k] = job[k] /\ att'[k] = att[k]
    BY <1>3 DEF Touches, LedgerInv, ColumnsOK
  <2> QED
    BY <2>1 DEF LedgerInv, CountingInv, Jobs
<1>8. job'[j] = c
  BY <1>3 DEF Touches, LedgerInv, ColumnsOK
<1> QED
  BY <1>2, <1>5, <1>6, <1>7, <1>8 DEF LedgerInv

\* A trace is claimed in one transaction.
LEMMA ClaimTraceStep == ASSUME LedgerInv, NEW j \in TraceJobs, ClaimTrace(j) PROVE LedgerInv'
<1>1. j \in Jobs /\ counting' \subseteq counting \ {j}
  BY JobsAssumption DEF Jobs, LedgerInv, CountingInv, ClaimTrace
<1> QED
  BY <1>1, AttemptedStep DEF ClaimTrace, Claimable

\* A call is claimed in two: the first one only finds it claimable,
LEMMA ClaimCallCountsStep == ASSUME LedgerInv, NEW j \in CallJobs, ClaimCallCounts(j) PROVE LedgerInv'
<1>1. ColumnsOK' /\ JobsInv' /\ GensBounded'
  BY DEF ClaimCallCounts, LedgerInv, ColumnsOK, JobsInv, GensBounded
<1>2. ArrivedInv' /\ ReportsCounted'
  BY BystandersKept DEF ClaimCallCounts
<1>3. CountingInv'
  BY DEF ClaimCallCounts, Claimable, LedgerInv, CountingInv
<1> QED
  BY <1>1, <1>2, <1>3 DEF LedgerInv

\* and the second one opens the attempt of the row it finds then.
LEMMA ClaimCallCommitsStep ==
    ASSUME LedgerInv, NEW j \in CallJobs, ClaimCallCommits(j) PROVE LedgerInv'
<1>1. j \in Jobs /\ job[j].state = "waiting" /\ att[j][job[j].gen].status = "none"
  BY DEF ClaimCallCommits, LedgerInv, CountingInv, Jobs
<1> QED
  BY <1>1, AttemptedStep DEF ClaimCallCommits

\* A change of the configuration does not touch the ledger.
LEMMA ConfigureStep ==
    ASSUME LedgerInv, NEW c \in {"sampled", "sampled_out", "off"}, Configure(c) PROVE LedgerInv'
<1>1. ColumnsOK' /\ JobsInv' /\ GensBounded'
  BY DEF Configure, LedgerInv, ColumnsOK, JobsInv, GensBounded
<1>2. ArrivedInv' /\ ReportsCounted'
  BY BystandersKept DEF Configure
<1>3. CountingInv'
  BY DEF Configure, LedgerInv, CountingInv
<1> QED
  BY <1>1, <1>2, <1>3 DEF LedgerInv

\* The run of a simulation creates the jobs of its calls and re-arms the unread ones.
LEMMA EnsureStep == ASSUME LedgerInv, EnsureSimulation PROVE LedgerInv'
<1> DEFINE touched == {j \in CallJobs : job[j].state = "absent" \/ Unread(job[j], report[j])}
<1>1. /\ UNCHANGED <<att, report, arrived, counting, config>> /\ counting = {}
      /\ touched \subseteq CallJobs
  BY DEF EnsureSimulation
<1>2. ASSUME NEW j \in Jobs \ touched
      PROVE  job'[j] = job[j] /\ flagged'[j] = flagged[j] /\ inputs'[j] = inputs[j]
  BY <1>2 DEF EnsureSimulation
<1>3. ASSUME NEW j \in touched
      PROVE  /\ JobCore(j, job'[j], att[j], report[j], flagged'[j], inputs'[j])
             /\ RunningOf(job'[j], att[j])
  <2> DEFINE b == job[j] c == job'[j]
  <2>1. j \in Jobs /\ inputs[j] < MaxInputs /\ inputs'[j] = inputs[j] + 1
        /\ flagged'[j] = flagged[j] \ {b.current}
        /\ c = IF b.state = "absent"
               THEN [state |-> "waiting", gen |-> 1, ready |-> TRUE, current |-> 0] ELSE Rearm(b)
    BY <1>3 DEF EnsureSimulation, Jobs
  <2>2. /\ JobCore(j, b, att[j], report[j], flagged[j], inputs[j]) /\ b \in JobRec
        /\ b.gen \in Nat /\ inputs[j] \in Nat
        /\ BudgetOf(j, b.gen, att[j], report[j], inputs[j])
    BY <2>1, OfJob
  <2>3. inputs'[j] \in 0 .. MaxInputs
    BY <2>1, <2>2, Bounds
  <2> HIDE DEF b, c
  <2>4. b.state = "absent" => b.gen = 0
    BY <2>2 DEF JobCore
  <2>5. c \in JobRec /\ c.gen = b.gen + 1 /\ c.current = 0 /\ c.state = "waiting"
    <3>1. CASE b.state = "absent"
      <4>1. c = [state |-> "waiting", gen |-> 1, ready |-> TRUE, current |-> 0]
        BY <2>1, <3>1
      <4>2. 0 \in 0 .. MaxGen /\ b.gen + 1 = 1
        BY <2>4, <3>1, Bounds
      <4> QED
        BY <4>1, <4>2 DEF JobRec, States
    <3>2. CASE b.state # "absent"
      BY <2>1, <2>2, <3>2, RearmedRow
    <3> QED
      BY <3>1, <3>2
  <2>6. BudgetOf(j, c.gen, att[j], report[j], inputs'[j])
    BY <2>1, <2>2, <2>5, BudgetInput
  <2>7. flagged'[j] = {}
    BY <2>1, <2>2 DEF JobCore, PointerOf
  <2>8. AttemptsOf(c, att[j], report[j])
    BY <2>2, <2>5, Bounds DEF JobCore, AttemptsOf, Gens
  <2>9. c.gen # 0
    BY <2>2, <2>5
  <2>10. JobCore(j, c, att[j], report[j], flagged'[j], inputs'[j])
    BY <2>2, <2>3, <2>5, <2>6, <2>7, <2>8, <2>9 DEF JobCore, TypesOf, PointerOf
  <2>11. RunningOf(c, att[j])
    BY <2>5 DEF RunningOf
  <2> QED
    BY <2>10, <2>11 DEF c
<1> HIDE DEF touched
<1>4. ASSUME NEW j \in Jobs
      PROVE  /\ JobCore(j, job'[j], att[j], report[j], flagged'[j], inputs'[j])
             /\ RunningOf(job'[j], att[j])
  <2>1. CASE j \in touched
    BY <1>3, <2>1
  <2>2. CASE j \notin touched
    BY <1>2, <2>2, OfJob
  <2> QED
    BY <2>1, <2>2
<1>5. ASSUME NEW j \in Jobs
      PROVE  /\ job'[j] \in JobRec /\ flagged'[j] \in SUBSET Gens /\ inputs'[j] \in 0 .. MaxInputs
             /\ job'[j].gen <= MaxGen
  <2>1. /\ job'[j] \in JobRec /\ inputs'[j] \in 0 .. MaxInputs
        /\ PointerOf(job'[j], att[j], flagged'[j])
    BY <1>4 DEF JobCore, TypesOf
  <2>2. flagged'[j] \in SUBSET Gens
    BY <2>1, Bounds DEF PointerOf, JobRec, Gens
  <2>3. job'[j].gen <= MaxGen
    BY <1>4, OfJob, CoreBounds
  <2> QED
    BY <2>1, <2>2, <2>3
<1>6. ColumnsOK'
  <2>1. /\ job' = [j \in Jobs |-> job'[j]] /\ flagged' = [j \in Jobs |-> flagged'[j]]
        /\ inputs' = [j \in Jobs |-> inputs'[j]]
    BY DEF EnsureSimulation
  <2>2. job' \in [Jobs -> JobRec] /\ flagged' \in [Jobs -> SUBSET Gens]
        /\ inputs' \in [Jobs -> 0 .. MaxInputs]
    BY <1>5, <2>1
  <2> QED
    BY <1>1, <2>2 DEF LedgerInv, ColumnsOK
<1>7. JobsInv' /\ GensBounded'
  BY <1>1, <1>4, <1>5 DEF JobsInv, GensBounded
<1>8. ArrivedInv' /\ ReportsCounted'
  BY <1>1, BystandersKept
<1>9. CountingInv'
  BY <1>1 DEF LedgerInv, CountingInv
<1> QED
  BY <1>6, <1>7, <1>8, <1>9 DEF LedgerInv

\* A step that changes the row and one claimed attempt of a job.
LEMMA AttemptStep ==
    ASSUME LedgerInv, NEW j \in Jobs, NEW g \in Gens, att[j][g].status = "claimed",
           NEW c, NEW x \in Attempt,
           x.status \in {"claimed", "expired", "cancelled"}, att[j][g].due => x.due,
           att' = [att EXCEPT ![j] = [att[j] EXCEPT ![g] = x]], job' = [job EXCEPT ![j] = c],
           JobCore(j, c, [att[j] EXCEPT ![g] = x], report[j], flagged[j], inputs[j]),
           RunningOf(c, [att[j] EXCEPT ![g] = x]),
           j \in counting => c = job[j],
           UNCHANGED <<report, flagged, arrived, counting, config, inputs>>
    PROVE  LedgerInv'
<1> DEFINE a == [att[j] EXCEPT ![g] = x]
<1>1. att[j] \in [Gens -> Attempt] /\ Cardinality(Reported(report[j])) <= MaxReports
      /\ job[j].gen \in Nat
  BY OfJob
<1>2. Touches(j, c, a, report[j], flagged[j], inputs[j])
  BY DEF LedgerInv, ColumnsOK, Touches
<1>3. \A h \in Gens : a[h] = IF h = g THEN x ELSE att[j][h]
  BY <1>1
<1>4. \A k \in Jobs : /\ att'[k] = IF k = j THEN a ELSE att[k]
                      /\ job'[k] = IF k = j THEN c ELSE job[k]
  BY <1>2 DEF Touches, LedgerInv, ColumnsOK
<1>5. JobCore(j, c, a, report[j], flagged[j], inputs[j]) /\ RunningOf(c, a)
  OBVIOUS
<1> HIDE DEF a
<1>6. ColumnsOK' /\ JobsInv' /\ GensBounded'
  BY <1>1, <1>2, <1>5, TouchKeeps DEF LedgerInv, ColumnsOK
<1>7. ArrivedInv' /\ ReportsCounted'
  <2>1. \A k \in Jobs, h \in Gens : att[k][h].status # "none" =>
            att'[k][h].status # "none" /\ (att[k][h].due => att'[k][h].due)
    BY <1>3, <1>4
  <2> QED
    BY <2>1, BystandersKept
<1>8. CountingInv'
  <2>1. ASSUME NEW k \in counting
        PROVE  job'[k].state = "waiting" /\ att'[k][job'[k].gen].status = "none"
    <3>1. k \in Jobs /\ job[k].state = "waiting" /\ att[k][job[k].gen].status = "none"
      BY DEF LedgerInv, CountingInv, Jobs
    <3>2. job'[k] = job[k]
      BY <1>4, <3>1
    <3>3. job[k].gen \in Gens
      BY <3>1, OfJob, Bounds DEF JobCore, Gens
    <3> QED
      BY <1>3, <1>4, <3>1, <3>2, <3>3
  <2> QED
    BY <2>1 DEF LedgerInv, CountingInv
<1> QED
  BY <1>6, <1>7, <1>8 DEF LedgerInv

\* The end of an attempt without a report.
LEMMA EndStep ==
    ASSUME LedgerInv, NEW j \in Jobs, NEW g \in Gens, NEW status \in {"expired", "cancelled"},
           NEW retry \in BOOLEAN, status = "expired" => att[j][g].due, End(j, g, status, retry)
    PROVE  LedgerInv'
<1> DEFINE x == [att[j][g] EXCEPT !.status = status]
           a == [att[j] EXCEPT ![g] = x]
           c == Settle(j, job[j], a, report[j], g, Overdue(j), "cancelled", retry)
<1>1. /\ JobCore(j, job[j], att[j], report[j], flagged[j], inputs[j]) /\ job[j].gen <= MaxGen
      /\ att[j] \in [Gens -> Attempt]
  BY OfJob
<1>2. att[j][g].status = "claimed" /\ j \notin counting
  BY DEF End, Unlocked
<1>3. x \in Attempt /\ x.status = status /\ x.due = att[j][g].due
  BY <1>1 DEF Attempt, Statuses
<1>4. a = [att[j] EXCEPT ![g].status = status] /\ a[g] = x
  BY <1>1
<1>5. att' = [att EXCEPT ![j] = a] /\ job' = [job EXCEPT ![j] = c]
      /\ UNCHANGED <<report, flagged, arrived, counting, config, inputs>>
  BY <1>4 DEF End
<1> HIDE DEF x
<1>6. JobCore(j, job[j], a, report[j], flagged[j], inputs[j])
  BY <1>1, <1>2, <1>3, AttemptKeeps
<1>7. a[g].status # "none" /\ g \notin ReadGens(a, report[j])
  BY <1>3, <1>4 DEF ReadGens
<1> HIDE DEF a
<1>8. JobCore(j, c, a, report[j], flagged[j], inputs[j]) /\ RunningOf(c, a)
  <2>1. "cancelled" \in {"completed", "cancelled"}
    OBVIOUS
  <2> QED
    BY <1>1, <1>6, <1>7, <2>1, SettleKeeps
<1> HIDE DEF c
<1> QED
  BY <1>2, <1>3, <1>5, <1>8, AttemptStep DEF a

\* A lease that runs out marks its attempt.
LEMMA LeaseStep == ASSUME LedgerInv, NEW j \in Jobs, NEW g \in Gens, LeaseRunsOut(j, g) PROVE LedgerInv'
<1> DEFINE x == [att[j][g] EXCEPT !.due = TRUE]
           a == [att[j] EXCEPT ![g] = x]
<1>1. /\ JobCore(j, job[j], att[j], report[j], flagged[j], inputs[j])
      /\ RunningOf(job[j], att[j]) /\ att[j] \in [Gens -> Attempt]
  BY OfJob
<1>2. x \in Attempt /\ x.status = "claimed" /\ x.due /\ att[j][g].status = "claimed"
  BY <1>1 DEF Attempt, LeaseRunsOut
<1>3. a = [att[j] EXCEPT ![g].due = TRUE] /\ \A h \in Gens : a[h] = IF h = g THEN x ELSE att[j][h]
  BY <1>1
<1>4. att' = [att EXCEPT ![j] = a] /\ job' = [job EXCEPT ![j] = job[j]]
      /\ UNCHANGED <<report, flagged, arrived, counting, config, inputs>>
  BY <1>3 DEF LeaseRunsOut, LedgerInv, ColumnsOK
<1> HIDE DEF x
<1>5. JobCore(j, job[j], a, report[j], flagged[j], inputs[j])
  BY <1>1, <1>2, AttemptKeeps
<1> HIDE DEF a
<1>6. RunningOf(job[j], a)
  BY <1>1, <1>2, <1>3 DEF RunningOf
<1> QED
  BY <1>2, <1>4, <1>5, <1>6, AttemptStep DEF a

\* A handler that has read the clock: one publication more, of an attempt without one.
LEMMA ArrivesStep ==
    ASSUME LedgerInv, NEW j \in Jobs, NEW g \in Gens,
           NEW result \in {"completed", "retryable", "final"}, PublishArrives(j, g, result)
    PROVE  LedgerInv'
<1> DEFINE q == [job |-> j, gen |-> g, result |-> result, overdue |-> Overdue(j)]
<1>1. /\ arrived' = arrived \cup {q} /\ att[j][g].status # "none" /\ report[j][g] = "none"
      /\ \A p \in arrived : <<p.job, p.gen>> # <<j, g>>
      /\ UNCHANGED <<job, att, report, flagged, counting, config, inputs>>
      /\ Cardinality(Reported(report[j]) \cup Arriving(j)) < MaxReports
  BY DEF PublishArrives, Reported, Arriving
<1>2. Overdue(j) \subseteq Gens /\ \A h \in Overdue(j) : att[j][h].due
  BY DEF Overdue
<1>3. q \in Publication /\ q.job = j /\ q.gen = g /\ q.overdue = Overdue(j)
  BY <1>2 DEF Publication
<1> HIDE DEF q
<1>4. ColumnsOK' /\ JobsInv' /\ GensBounded' /\ CountingInv'
  BY <1>1 DEF LedgerInv, ColumnsOK, JobsInv, GensBounded, CountingInv
<1>5. ArrivedInv'
  <2>1. arrived' \subseteq Publication
    BY <1>1, <1>3 DEF LedgerInv, ArrivedInv
  <2>2. ASSUME NEW p \in arrived'
        PROVE  /\ report'[p.job][p.gen] = "none" /\ att'[p.job][p.gen].status # "none"
               /\ \A h \in p.overdue : att'[p.job][h].due
    <3>1. CASE p = q
      BY <1>1, <1>2, <1>3, <3>1
    <3>2. CASE p \in arrived
      BY <1>1, <3>2 DEF LedgerInv, ArrivedInv
    <3> QED
      BY <1>1, <3>1, <3>2
  <2>3. \A p, s \in arrived' : p.job = s.job /\ p.gen = s.gen => p = s
    BY <1>1, <1>3 DEF LedgerInv, ArrivedInv
  <2> QED
    BY <2>1, <2>2, <2>3 DEF ArrivedInv
<1>6. ASSUME NEW k \in Jobs
      PROVE  Cardinality(Reported(report[k]) \cup Arriving(k)') <= MaxReports
  <2>1. CASE k # j
    <3>1. Arriving(k)' = Arriving(k)
      BY <1>1, <1>3, <2>1 DEF Arriving
    <3> QED
      BY <3>1 DEF LedgerInv, ReportsCounted
  <2>2. CASE k = j
    <3> DEFINE S == Reported(report[j]) \cup Arriving(j)
    <3>1. Reported(report[j]) \cup Arriving(j)' = S \cup {g}
      BY <1>1, <1>3 DEF Arriving
    <3>2. S \in SUBSET Gens
      BY DEF Reported, Arriving, LedgerInv, ArrivedInv, Publication
    <3>3. g \notin S
      <4>1. g \notin Reported(report[j])
        BY <1>1 DEF Reported
      <4>2. g \notin Arriving(j)
        BY <1>1 DEF Arriving
      <4> QED
        BY <4>1, <4>2
    <3>4. Cardinality(S) < MaxReports
      BY <1>1
    <3> HIDE DEF S
    <3>5. Cardinality(S \cup {g}) = Cardinality(S) + 1 /\ Cardinality(S) \in Nat
      BY <3>2, <3>3, GensAdd, GensFinite
    <3>6. Cardinality(S \cup {g}) <= MaxReports
      BY <3>4, <3>5, Bounds
    <3> QED
      BY <2>2, <3>1, <3>6
  <2> QED
    BY <2>1, <2>2
<1>7. ReportsCounted'
  BY <1>1, <1>6 DEF ReportsCounted
<1> QED
  BY <1>4, <1>5, <1>7 DEF LedgerInv

\* What publish_investigation writes.
LEMMA CommitsEffect ==
    ASSUME LedgerInv, NEW p \in arrived, PublishCommits(p)
    PROVE  /\ Touches(p.job, Committed(p), AttemptsAfter(p), RepAfter(p),
                      FlagsAfter(p, RepAfter(p)), inputs[p.job])
           /\ arrived' = arrived \ {p} /\ UNCHANGED <<counting, config>> /\ p.job \notin counting
  BY Arrived DEF PublishCommits, Unlocked, Touches, Committed, RepAfter, LedgerInv, ColumnsOK

\* A committed publication keeps the ledger in order, whatever happened to its attempt
\* between its arrival and its commit.
LEMMA CommitsStep == ASSUME LedgerInv, NEW p \in arrived, PublishCommits(p) PROVE LedgerInv'
<1> DEFINE j == p.job g == p.gen a2 == AttemptsAfter(p) r2 == RepAfter(p) c == Committed(p)
           f == FlagsAfter(p, RepAfter(p))
<1>1. /\ Touches(j, c, a2, r2, f, inputs[j])
      /\ arrived' = arrived \ {p} /\ UNCHANGED <<counting, config>> /\ j \notin counting
  BY CommitsEffect
<1>2. j \in Jobs /\ g \in Gens
  BY Arrived
<1>3. JobCore(j, c, a2, r2, f, inputs[j]) /\ RunningOf(c, a2)
  BY PublishKeeps
<1>4. /\ \A h \in Gens : h # g => a2[h] = att[j][h] /\ r2[h] = report[j][h]
      /\ \A h \in Gens : a2[h].due = att[j][h].due
      /\ a2[g].status # "none"
      /\ Reported(r2) = Reported(report[j]) \cup {g}
  BY AttemptsAfterFacts, RepAfterFacts
<1>5. Cardinality(Reported(r2)) <= MaxReports
  <2>1. g \in Arriving(j)
    BY DEF Arriving
  <2>2. Reported(r2) \in SUBSET (Reported(report[j]) \cup Arriving(j))
    BY <1>4, <2>1
  <2>3. Reported(report[j]) \cup Arriving(j) \in SUBSET Gens
    BY DEF Reported, Arriving, LedgerInv, ArrivedInv, Publication
  <2>4. /\ Cardinality(Reported(r2)) \in Nat
        /\ Cardinality(Reported(report[j]) \cup Arriving(j)) \in Nat
        /\ Cardinality(Reported(r2)) <= Cardinality(Reported(report[j]) \cup Arriving(j))
    <3>1. Reported(r2) \in SUBSET Gens
      BY <2>2, <2>3
    <3> QED
      BY <2>2, <2>3, <3>1, GensMonotone, GensFinite
  <2>5. Cardinality(Reported(report[j]) \cup Arriving(j)) <= MaxReports
    BY <1>2 DEF LedgerInv, ReportsCounted
  <2> QED
    BY <2>4, <2>5, Bounds
<1> HIDE DEF a2, r2, c, f
<1>6. ColumnsOK' /\ JobsInv' /\ GensBounded'
  BY <1>1, <1>2, <1>3, <1>5, TouchKeeps DEF LedgerInv, ColumnsOK
<1>7. \A k \in Jobs : /\ att'[k] = IF k = j THEN a2 ELSE att[k]
                      /\ report'[k] = IF k = j THEN r2 ELSE report[k]
                      /\ k # j => job'[k] = job[k]
  BY <1>1 DEF Touches, LedgerInv, ColumnsOK
<1>8. ArrivedInv'
  <2>1. arrived \subseteq Publication /\ \A q, s \in arrived : q.job = s.job /\ q.gen = s.gen => q = s
    BY DEF LedgerInv, ArrivedInv
  <2>2. ASSUME NEW q \in arrived'
        PROVE  /\ report'[q.job][q.gen] = "none" /\ att'[q.job][q.gen].status # "none"
               /\ \A h \in q.overdue : att'[q.job][h].due
    <3>1. q \in arrived /\ q # p /\ q.job \in Jobs /\ q.gen \in Gens /\ q.overdue \subseteq Gens
      BY <1>1, <2>1 DEF Publication
    <3>2. /\ report[q.job][q.gen] = "none" /\ att[q.job][q.gen].status # "none"
          /\ \A h \in q.overdue : att[q.job][h].due
      BY <3>1 DEF LedgerInv, ArrivedInv
    <3>3. ~(q.job = j /\ q.gen = g)
      BY <2>1, <3>1
    <3>4. CASE q.job # j
      BY <1>7, <3>1, <3>2, <3>4
    <3>5. CASE q.job = j
      <4>1. q.gen # g /\ att'[q.job] = a2 /\ report'[q.job] = r2
        BY <1>7, <3>1, <3>3, <3>5
      <4> QED
        BY <1>4, <3>1, <3>2, <3>5, <4>1
    <3> QED
      BY <3>4, <3>5
  <2> QED
    BY <1>1, <2>1, <2>2 DEF ArrivedInv
<1>9. ReportsCounted'
  <2>1. ASSUME NEW k \in Jobs
        PROVE  Cardinality(Reported(report'[k]) \cup Arriving(k)') <= MaxReports
    <3> DEFINE S == Reported(report[k]) \cup Arriving(k) T == Reported(report'[k]) \cup Arriving(k)'
    <3>1. S \in SUBSET Gens
      BY DEF Reported, Arriving, LedgerInv, ArrivedInv, Publication
    <3>2. T \in SUBSET S
      <4>1. Arriving(k)' \subseteq Arriving(k)
        BY <1>1 DEF Arriving
      <4>2. CASE k = j
        <5>1. g \in Arriving(j)
          BY DEF Arriving
        <5>2. Reported(report'[k]) = Reported(report[j]) \cup {g}
          BY <1>4, <1>7, <4>2
        <5> QED
          BY <4>1, <4>2, <5>1, <5>2
      <4>3. CASE k # j
        BY <1>7, <4>1, <4>3
      <4> QED
        BY <4>2, <4>3
    <3>3. Cardinality(S) <= MaxReports
      BY DEF LedgerInv, ReportsCounted
    <3> HIDE DEF S, T
    <3>4. Cardinality(T) <= Cardinality(S) /\ Cardinality(S) \in Nat /\ Cardinality(T) \in Nat
      <4>1. T \in SUBSET Gens
        BY <3>1, <3>2
      <4> QED
        BY <3>1, <3>2, <4>1, GensMonotone, GensFinite
    <3>5. Cardinality(T) <= MaxReports
      BY <3>3, <3>4, Bounds
    <3> QED
      BY <3>5 DEF T
  <2> QED
    BY <2>1 DEF ReportsCounted
<1>10. CountingInv'
  BY <1>1, <1>7 DEF LedgerInv, CountingInv, Jobs
<1> QED
  BY <1>6, <1>8, <1>9, <1>10 DEF LedgerInv

-----------------------------------------------------------------------------
(* The ledger                                                              *)

\* An empty ledger is in order.
LEMMA LedgerInit == Init => LedgerInv
<1> SUFFICES ASSUME Init PROVE LedgerInv
  OBVIOUS
<1> DEFINE b == [state |-> "absent", gen |-> 0, ready |-> FALSE, current |-> 0]
           x == [status |-> "none", due |-> FALSE]
<1>1. /\ b \in JobRec /\ b.state = "absent" /\ b.gen = 0 /\ b.current = 0
      /\ x \in Attempt /\ x.status = "none" /\ x.due = FALSE
  BY Bounds DEF JobRec, Attempt, States, Statuses
<1>2. /\ job = [j \in Jobs |-> b] /\ att = [j \in Jobs |-> [g \in Gens |-> x]]
      /\ report = [j \in Jobs |-> [g \in Gens |-> "none"]] /\ flagged = [j \in Jobs |-> {}]
      /\ inputs = [j \in Jobs |-> 0] /\ arrived = {} /\ counting = {} /\ config = "sampled"
  BY DEF Init
<1> HIDE DEF b, x
<1>3. ColumnsOK
  BY <1>1, <1>2, Bounds DEF ColumnsOK, Outcomes
<1>4. Cardinality({}) = 0
  BY FS_EmptySet
<1>5. ASSUME NEW j \in Jobs
      PROVE  /\ JobCore(j, job[j], att[j], report[j], flagged[j], inputs[j])
             /\ RunningOf(job[j], att[j]) /\ job[j].gen <= MaxGen
  <2> DEFINE a == att[j] r == report[j]
  <2>1. /\ job[j] = b /\ a \in [Gens -> Attempt] /\ \A g \in Gens : a[g] = x
        /\ r \in [Gens -> Outcomes] /\ \A g \in Gens : r[g] = "none"
        /\ flagged[j] = {} /\ inputs[j] = 0
    BY <1>1, <1>2 DEF Outcomes
  <2> HIDE DEF a, r
  <2>2. ReadGens(a, r) = {} /\ UnreadBelow(0, a, r) = {}
    BY <1>1, <2>1 DEF ReadGens, UnreadBelow
  <2>3. BudgetOf(j, 0, a, r, 0)
    <3>1. NumDelays * 0 = 0 /\ NumDelays * (1 + 0) \in Nat
      BY Bounds
    <3> QED
      BY <1>4, <2>2, <3>1 DEF BudgetOf
  <2>4. AttemptsOf(b, a, r)
    BY <1>1, <2>1 DEF AttemptsOf
  <2>5. JobCore(j, b, a, r, {}, 0)
    BY <1>1, <2>1, <2>3, <2>4, Bounds DEF JobCore, TypesOf, PointerOf
  <2> QED
    BY <1>1, <2>1, <2>5, Bounds DEF RunningOf, a, r
<1>6. JobsInv /\ GensBounded
  BY <1>5 DEF JobsInv, GensBounded
<1>7. ArrivedInv /\ CountingInv
  BY <1>2 DEF ArrivedInv, CountingInv
<1>8. ReportsCounted
  <2>1. \A j \in Jobs : Reported(report[j]) \cup Arriving(j) = {}
    BY <1>2 DEF Reported, Arriving
  <2> QED
    BY <1>4, <2>1, Bounds DEF ReportsCounted
<1> QED
  BY <1>3, <1>6, <1>7, <1>8 DEF LedgerInv

\* Every step keeps the ledger in order.
LEMMA LedgerStep == ASSUME LedgerInv, [Next]_vars PROVE LedgerInv'
<1>1. CASE UNCHANGED vars
  <2>1. ColumnsOK' /\ JobsInv' /\ GensBounded' /\ CountingInv'
    BY <1>1 DEF vars, LedgerInv, ColumnsOK, JobsInv, GensBounded, CountingInv
  <2>2. ArrivedInv' /\ ReportsCounted'
    BY <1>1, BystandersKept DEF vars
  <2> QED
    BY <2>1, <2>2 DEF LedgerInv
<1>2. ASSUME NEW j \in TraceJobs, Notify(j) PROVE LedgerInv'
  BY <1>2, NotifyStep
<1>3. ASSUME NEW j \in TraceJobs, Requeue(j) PROVE LedgerInv'
  BY <1>3, RequeueStep
<1>4. ASSUME NEW j \in TraceJobs, ClaimTrace(j) PROVE LedgerInv'
  BY <1>4, ClaimTraceStep
<1>5. ASSUME NEW j \in TraceJobs, ClaimSampledOut(j) PROVE LedgerInv'
  BY <1>5, SampledOutStep
<1>6. CASE EnsureSimulation
  BY <1>6, EnsureStep
<1>7. ASSUME NEW c \in {"sampled", "sampled_out", "off"}, Configure(c) PROVE LedgerInv'
  BY <1>7, ConfigureStep
<1>8. ASSUME NEW j \in CallJobs, ClaimCallCounts(j) PROVE LedgerInv'
  BY <1>8, ClaimCallCountsStep
<1>9. ASSUME NEW j \in CallJobs, ClaimCallCommits(j) PROVE LedgerInv'
  BY <1>9, ClaimCallCommitsStep
<1>10. ASSUME NEW j \in Jobs, NEW g \in Gens, Expire(j, g) PROVE LedgerInv'
  BY <1>10, EndStep DEF Expire
<1>11. ASSUME NEW j \in Jobs, NEW g \in Gens, Cancel(j, g) PROVE LedgerInv'
  BY <1>11, EndStep DEF Cancel
<1>12. ASSUME NEW j \in Jobs, NEW g \in Gens, LeaseRunsOut(j, g) PROVE LedgerInv'
  BY <1>12, LeaseStep
<1>13. ASSUME NEW j \in Jobs, NEW g \in Gens, NEW result \in {"completed", "retryable", "final"},
              PublishArrives(j, g, result) PROVE LedgerInv'
  BY <1>13, ArrivesStep
<1>14. ASSUME NEW p \in arrived, PublishCommits(p) PROVE LedgerInv'
  BY <1>14, CommitsStep
<1>15. ASSUME NEW j \in Jobs, BecomesReady(j) PROVE LedgerInv'
  BY <1>15, ReadyStep
<1> QED
  BY <1>1, <1>2, <1>3, <1>4, <1>5, <1>6, <1>7, <1>8, <1>9, <1>10, <1>11, <1>12, <1>13, <1>14,
     <1>15 DEF Next

\* LedgerInv holds in every reachable state: whatever the interleaving of notifications,
\* claims, renewals, expiries and late publications, and for any number of jobs.
THEOREM LedgerInvariant == Safety => []LedgerInv
<1>1. LedgerInv /\ [Next]_vars => LedgerInv'
  BY LedgerStep
<1> QED
  BY LedgerInit, <1>1, PTL DEF Safety

\* Every handler stores values of its columns; a report belongs to an attempt, and an expired
\* attempt to a lease that ran out.
THEOREM LedgerIsWellFormed == Safety => []LedgerTypeOK
<1>1. LedgerInv => LedgerTypeOK
  <2> SUFFICES ASSUME LedgerInv PROVE LedgerTypeOK
    OBVIOUS
  <2>1. \A j \in Jobs : job[j] \in [state : States, gen : 0 .. MaxGen, ready : BOOLEAN,
                                   current : 0 .. MaxGen]
    BY Bounds DEF LedgerInv, ColumnsOK, GensBounded, JobRec
  <2>2. job \in [Jobs -> [state : States, gen : 0 .. MaxGen, ready : BOOLEAN,
                         current : 0 .. MaxGen]]
    BY <2>1 DEF LedgerInv, ColumnsOK
  <2>3. \A j \in Jobs, g \in Gens :
          /\ report[j][g] # "none" => att[j][g].status # "none"
          /\ att[j][g].status = "expired" => att[j][g].due
    BY DEF LedgerInv, JobsInv, JobCore, AttemptsOf
  <2>4. arrived \subseteq Publication
    BY DEF LedgerInv, ArrivedInv
  <2> QED
    BY <2>2, <2>3, <2>4 DEF LedgerInv, ColumnsOK, CountingInv, LedgerTypeOK, Publication, States,
       Attempt, Statuses, Outcomes
<1> QED
  BY LedgerInvariant, <1>1, PTL

\* A job _settle_job left running has a claimed attempt, so that some lease, when it runs
\* out, takes the job out of running again: no job is stuck.
THEOREM RunningHasClaim == Safety => []RunningIsClaimed
<1>1. LedgerInv => RunningIsClaimed
  BY DEF LedgerInv, JobsInv, RunningOf, RunningIsClaimed
<1> QED
  BY LedgerInvariant, <1>1, PTL

\* The job's pointer and the reports flagged as current, which publish_investigation
\* updates in separate statements, name the same report.
THEOREM PointerAgreesWithFlags == Safety => []PointerMatchesFlag
<1>1. LedgerInv => PointerMatchesFlag
  BY DEF LedgerInv, JobsInv, JobCore, PointerOf, PointerMatchesFlag
<1> QED
  BY LedgerInvariant, <1>1, PTL

\* The generations of a job never exceed its inputs by more than the automatic retries
\* granted: NumDelays after each read of a trace, one for a call.
THEOREM AutomaticRetriesAreBounded == Safety => []RetriesAreBounded
<1>1. LedgerInv => RetriesAreBounded
  <2> SUFFICES ASSUME LedgerInv, NEW j \in Jobs
               PROVE  job[j].gen <= inputs[j] + (IF j \in CallJobs THEN 1
                        ELSE NumDelays * (1 + Cardinality(ReadGens(att[j], report[j]))))
    BY DEF RetriesAreBounded, ReadGens
  <2>1. BudgetOf(j, job[j].gen, att[j], report[j], inputs[j])
    BY OfJob
  <2> QED
    BY <2>1 DEF BudgetOf, Jobs
<1> QED
  BY LedgerInvariant, <1>1, PTL

\* A step moves the pointer of a trace to a later report only.
LEMMA ImproveStep ==
    ASSUME LedgerInv, [Next]_vars, NEW j \in TraceJobs, job'[j].current # job[j].current
    PROVE  /\ job'[j].current > job[j].current
           /\ job[j].current # 0 /\ report[j][job[j].current] = "completed" =>
                 report'[j][job'[j].current] = "completed"
<1>a. j \in Jobs /\ j \notin CallJobs
  BY JobsAssumption DEF Jobs
<1>b. job \in [Jobs -> JobRec] /\ job[j] \in JobRec
  BY <1>a DEF LedgerInv, ColumnsOK
<1>1. PICK p \in arrived : PublishCommits(p)
  <2> SUFFICES ASSUME \A p \in arrived : ~PublishCommits(p)
               PROVE  job'[j].current = job[j].current
    OBVIOUS
  <2>1. CASE UNCHANGED vars
    BY <2>1 DEF vars
  <2>2. ASSUME NEW k \in TraceJobs, Notify(k) PROVE job'[j].current = job[j].current
    BY <1>a, <1>b, <2>2 DEF Notify, Jobs, JobRec
  <2>3. ASSUME NEW k \in TraceJobs, Requeue(k) PROVE job'[j].current = job[j].current
    BY <1>a, <1>b, <2>3 DEF Requeue, Jobs, JobRec
  <2>4. ASSUME NEW k \in Jobs, Attempted(k) PROVE job'[j].current = job[j].current
    BY <1>a, <1>b, <2>4 DEF Attempted, JobRec
  <2>5. ASSUME NEW k \in TraceJobs, ClaimSampledOut(k) PROVE job'[j].current = job[j].current
    BY <1>a, <1>b, <2>5 DEF ClaimSampledOut, Jobs, JobRec
  <2>6. CASE EnsureSimulation
    BY <1>a, <2>6 DEF EnsureSimulation
  <2>7. ASSUME NEW k \in Jobs, NEW g \in Gens, NEW status \in {"expired", "cancelled"},
               NEW retry \in BOOLEAN, End(k, g, status, retry)
        PROVE  job'[j].current = job[j].current
    BY <1>a, <1>b, <2>7 DEF End, Settle, JobRec
  <2>8. ASSUME NEW k \in Jobs, BecomesReady(k) PROVE job'[j].current = job[j].current
    BY <1>a, <1>b, <2>8 DEF BecomesReady, JobRec
  <2> QED
    BY <2>1, <2>2, <2>3, <2>4, <2>5, <2>6, <2>7, <2>8 DEF Next, Jobs, Configure, ClaimTrace,
       ClaimCallCounts, ClaimCallCommits, Expire, Cancel, LeaseRunsOut, PublishArrives
<1>2. p.job = j
  <2>1. job' = [job EXCEPT ![p.job] = Committed(p)]
    BY <1>1, CommitsEffect DEF Touches
  <2> QED
    BY <1>a, <1>b, <2>1
<1>3. /\ job'[j] = Committed(p) /\ report'[j] = RepAfter(p)
      /\ Committed(p).current = Pointed(p).current
  BY <1>1, <1>2, <1>a, CommitsEffect, PublishKeeps DEF Touches, LedgerInv, ColumnsOK
<1>4. BecomesCurrent(p) /\ job'[j].current = p.gen
  BY <1>2, <1>3, PointedKeeps
<1>5. /\ JobCore(j, job[j], att[j], report[j], flagged[j], inputs[j]) /\ p.gen \in Gens
      /\ att[j][p.gen].status \in {"claimed", "expired", "cancelled"}
      /\ RepAfter(p)[p.gen] = IF p.result = "completed" THEN "completed" ELSE "failed"
  BY <1>2, Arrived, RepAfterFacts
<1>6. job[j].current # 0 => /\ job[j].current \in Gens
                            /\ att[j][job[j].current].status = "completed"
                            /\ job[j].current <= job[j].gen
  BY <1>5, Bounds DEF JobCore, PointerOf, TypesOf, JobRec, AttemptsOf, Gens
<1>7. job[j].current # 0 => job[j].current < p.gen
  <2> SUFFICES ASSUME job[j].current # 0 PROVE job[j].current < p.gen
    OBVIOUS
  <2>1. job[j].current # p.gen /\ p.gen \in Nat /\ job[j].current \in Nat
    BY <1>5, <1>6, Bounds DEF Gens
  <2>2. CASE OnTime(p)
    BY <1>2, <1>6, <2>1, <2>2 DEF OnTime
  <2>3. CASE Late(p)
    BY <1>2, <1>6, <2>1, <2>3 DEF Late
  <2> QED
    BY <1>4, <2>2, <2>3 DEF BecomesCurrent
<1>8. job'[j].current > job[j].current
  BY <1>4, <1>5, <1>7, Bounds DEF Gens
<1>9. job[j].current # 0 /\ report[j][job[j].current] = "completed" => p.result = "completed"
  BY <1>2, <1>4 DEF BecomesCurrent
<1> QED
  BY <1>3, <1>4, <1>5, <1>8, <1>9

\* A late publication of an older generation never replaces the report of a newer one,
\* and a failed report never replaces one that read the trace.
THEOREM CurrentReportOnlyImproves == Safety => ReportsOnlyImprove
<1>1. LedgerInv /\ [Next]_vars =>
        [\A j \in TraceJobs : job'[j].current # job[j].current =>
          /\ job'[j].current > job[j].current
          /\ job[j].current # 0 /\ report[j][job[j].current] = "completed" =>
                report'[j][job'[j].current] = "completed"]_vars
  BY ImproveStep
<1> QED
  BY LedgerInvariant, <1>1, PTL DEF Safety, ReportsOnlyImprove
=============================================================================
