-------------------------- MODULE OutboxCDCProofs --------------------------
(***************************************************************************)
(* Proofs about the in-app change capture: for every number of keys, every *)
(* batch, page and chunk size and every set of disturbances,               *)
(*   - the variables keep their types;                                     *)
(*   - readers of a landing table never go back (fact 1 of                 *)
(*     tracer/services/clickhouse/oss_outbox_cdc.py);                      *)
(*   - no change is forgotten (facts 2 and 3).                             *)
(*                                                                         *)
(* The last two need that no behaviour has both a lost session and a clock *)
(* step (BothFaults = FALSE): with both, neither the version clock nor the *)
(* wall clock orders the next version, and a run shows the reader go back. *)
(***************************************************************************)
EXTENDS OutboxCDC, FiniteSetTheorems, TLAPS

-----------------------------------------------------------------------------
(* Numbers and pages                                                       *)

\* Max of FiniteSetsExt is the greatest element of a finite set that has one.
LEMMA MaxOf ==
    ASSUME NEW S \in SUBSET Nat, IsFiniteSet(S), S # {}
    PROVE  Max(S) \in S /\ \A y \in S : y <= Max(S)
<1> DEFINE Tops(A) == {x \in A : \A y \in A : x >= y}
           Bad == {A \in SUBSET S : A # {} /\ Tops(A) = {}}
<1>1. Bad = {}
  <2> SUFFICES ASSUME Bad # {} PROVE FALSE
    OBVIOUS
  <2>1. IsWellFoundedOn(StrictSubsetOrdering(S), SUBSET S)
    BY FS_StrictSubsetOrderingWellFounded, FS_FiniteSubsetsOfFinite
  <2>2. Bad \subseteq SUBSET S
    OBVIOUS
  <2>3. \E A \in Bad : \A B \in Bad : ~ (<<B, A>> \in StrictSubsetOrdering(S))
    <3> HIDE DEF Bad
    <3> QED
      BY <2>1, <2>2, WFMin
  <2>4. PICK A \in Bad : \A B \in Bad : ~ (<<B, A>> \in StrictSubsetOrdering(S))
    BY <2>3
  <2>5. PICK x \in A : TRUE
    OBVIOUS
  <2> DEFINE B == A \ {x}
  <2>6. CASE B = {}
    <3>1. A = {x} /\ x \in Nat
      BY <2>5, <2>6
    <3>2. x \in Tops(A)
      BY <3>1
    <3> QED
      BY <3>2
  <2>7. CASE B # {}
    <3>1. <<B, A>> \in StrictSubsetOrdering(S)
      BY <2>5 DEF StrictSubsetOrdering
    <3>2. B \notin Bad
      BY <3>1, <2>4
    <3>3. B \in SUBSET S
      OBVIOUS
    <3>4. Tops(B) # {}
      BY <3>2, <3>3, <2>7
    <3>5. PICK m \in B : \A y \in B : m >= y
      BY <3>4
    <3>6. m \in Nat /\ x \in Nat /\ A \subseteq Nat
      BY <3>5, <2>5
    <3>7. (m \in Tops(A)) \/ (x \in Tops(A))
      BY <3>5, <3>6, <2>5
    <3> QED
      BY <3>7
  <2> QED
    BY <2>6, <2>7
<1>2. PICK x \in S : \A y \in S : x >= y
  BY <1>1
<1> QED
  BY <1>2 DEF Max

\* A set of naturals has a least element.
LEMMA MinOf ==
    ASSUME NEW S \in SUBSET Nat, S # {}
    PROVE  \E m \in S : \A y \in S : m <= y
<1>1. \E m \in S : \A y \in S : ~ (<<y, m>> \in OpToRel(<, Nat))
  BY NatLessThanWellFounded, WFMin
<1>2. PICK m \in S : \A y \in S : ~ (<<y, m>> \in OpToRel(<, Nat))
  BY <1>1
<1>3. \A y \in S : ~ (y < m)
  BY <1>2 DEF OpToRel
<1> QED
  BY <1>3

\* What ORDER BY ... LIMIT m leaves out comes after all it returns, and it leaves
\* something out only when it returns m rows.
LEMMA LimitedPage ==
    ASSUME NEW S \in SUBSET Nat, IsFiniteSet(S), NEW m \in Nat \ {0},
           NEW x \in S, x \notin FirstOf(S, m)
    PROVE  /\ \A y \in FirstOf(S, m) : y < x
           /\ Cardinality(FirstOf(S, m)) = m
           /\ FirstOf(S, m) # {}
<1> DEFINE Below(y) == {z \in S : z < y}
           F == FirstOf(S, m)
<1>1. \A y : y \in F <=> y \in S /\ Cardinality(Below(y)) < m
  BY DEF FirstOf
<1>2. \A y \in Nat : IsFiniteSet(Below(y)) /\ Cardinality(Below(y)) \in Nat
  <2> SUFFICES ASSUME NEW y \in Nat
               PROVE  IsFiniteSet(Below(y)) /\ Cardinality(Below(y)) \in Nat
    OBVIOUS
  <2>1. Below(y) \in SUBSET S
    OBVIOUS
  <2> HIDE DEF Below
  <2> QED
    BY <2>1, FS_Subset, FS_CardinalityType
<1>3. \A y, z \in Nat : y <= z => Cardinality(Below(y)) <= Cardinality(Below(z))
  <2> SUFFICES ASSUME NEW y \in Nat, NEW z \in Nat, y <= z
               PROVE  Cardinality(Below(y)) <= Cardinality(Below(z))
    OBVIOUS
  <2>1. \A w \in S : w < y => w < z
    OBVIOUS
  <2>2. Below(y) \in SUBSET Below(z)
    BY <2>1
  <2> HIDE DEF Below
  <2> QED
    BY <2>2, <1>2, FS_Subset
<1> HIDE DEF Below, F
<1>4. F \subseteq S /\ IsFiniteSet(F)
  BY <1>1, FS_Subset
<1>5. \A y \in F : y < x
  <2> SUFFICES ASSUME NEW y \in F, x <= y PROVE FALSE
    BY <1>4
  <2>1. Cardinality(Below(x)) <= Cardinality(Below(y)) /\ Cardinality(Below(y)) < m
    BY <1>1, <1>3, <1>4
  <2>2. ~ (Cardinality(Below(x)) < m)
    BY <1>1 DEF F
  <2> QED
    BY <2>1, <2>2, <1>2, <1>4
<1>6. Cardinality(F) >= m
  <2>1. S \ F \in SUBSET Nat /\ S \ F # {}
    BY DEF F
  <2>2. PICK w \in S \ F : \A y \in S \ F : w <= y
    BY <2>1, MinOf
  <2>3. Below(w) \subseteq F
    <3> SUFFICES ASSUME NEW y \in S, y < w, y \notin F PROVE FALSE
      BY DEF Below
    <3> QED
      BY <2>2
  <2>4. Cardinality(Below(w)) <= Cardinality(F) /\ Cardinality(F) \in Nat
    BY <2>3, <1>4, FS_Subset, FS_CardinalityType
  <2>5. ~ (Cardinality(Below(w)) < m)
    BY <1>1, <2>2
  <2> QED
    BY <2>4, <2>5, <1>2, <2>2
<1>7. F # {}
  BY <1>6, FS_EmptySet
<1>8. Cardinality(F) <= m
  <2>1. Max(F) \in F /\ \A y \in F : y <= Max(F)
    BY <1>4, <1>7, MaxOf
  <2> DEFINE t == Max(F)
  <2> HIDE DEF t
  <2>2. t \in F /\ (\A y \in F : y <= t)
    BY <2>1 DEF t
  <2>3. F \ {t} \subseteq Below(t)
    BY <2>2, <1>4 DEF Below
  <2>4. Cardinality(F \ {t}) <= Cardinality(Below(t))
    BY <2>3, <2>2, <1>2, <1>4, FS_Subset
  <2>5. Cardinality(F \ {t}) = Cardinality(F) - 1
    BY <2>2, <1>4, FS_RemoveElement
  <2>6. Cardinality(Below(t)) < m /\ Cardinality(Below(t)) \in Nat /\ Cardinality(F) \in Nat
    BY <2>2, <1>1, <1>2, <1>4, FS_CardinalityType
  <2> QED
    BY <2>4, <2>5, <2>6
<1> QED
  BY <1>4, <1>5, <1>6, <1>7, <1>8, FS_CardinalityType DEF F

\* A page is part of what it is taken from.
LEMMA PageWithin == \A S, m : FirstOf(S, m) \subseteq S
BY DEF FirstOf

\* Sets of keys are finite sets of naturals.
LEMMA KeySets ==
    ASSUME NEW S \in SUBSET Keys
    PROVE  S \in SUBSET Nat /\ IsFiniteSet(S) /\ Cardinality(S) \in Nat
<1>1. Keys \subseteq Nat /\ IsFiniteSet(Keys)
  BY SizesAssumption, FS_Interval DEF Keys
<1> QED
  BY <1>1, FS_Subset, FS_CardinalityType

-----------------------------------------------------------------------------
(* Types                                                                   *)

\* Where the activities can be, and what they remember.
DrainPcs == {"idle", "batch", "read", "apply", "settle", "delete", "snap", "page",
             "pageSave", "finish"}

SweepPcs == {"idle", "read", "compare", "repair", "insert", "release", "end"}

OutRow == [seq : Nat, key : 0 .. NumKeys]

DrainRecord ==
    [pc : DrainPcs, hasDead : BOOLEAN, pending : BOOLEAN, parked : Nat,
     rows : SUBSET OutRow, block : SUBSET Row, park : SUBSET Keys,
     failed : BOOLEAN, cursor : 0 .. NumKeys, done : BOOLEAN]

SweepRecord ==
    [pc : SweepPcs, pass : {"A", "B"}, after : 0 .. NumKeys, ids : SUBSET Keys,
     keys : SUBSET Keys, block : SUBSET Row]

\* The types of every variable, the activities' included.
TypeInv == CDCTypeOK /\ d \in DrainRecord /\ r \in SweepRecord

\* An insert block is a set of versioned rows.
LEMMA BlockOfType ==
    ASSUME CDCTypeOK, NEW ks \in SUBSET Keys, NEW v \in Nat
    PROVE  BlockOf(ks, v) \in SUBSET Row
BY DEF BlockOf, Row, CDCTypeOK

\* ClickHouse keeps its type whatever lands.
LEMMA LandedType ==
    ASSUME CDCTypeOK, NEW rows \in SUBSET Row, NEW late \in BOOLEAN
    PROVE  Landed(ch, rows, late) \in [Keys -> [ver : Nat, n : Nat, live : BOOLEAN, late : BOOLEAN]]
<1> SUFFICES ASSUME NEW k \in Keys
             PROVE  Landed(ch, rows, late)[k] \in [ver : Nat, n : Nat, live : BOOLEAN, late : BOOLEAN]
  BY DEF Landed
<1> DEFINE mine == {x \in rows : x.key = k}
           x == CHOOSE x \in mine : TRUE
<1>1. ch[k] \in [ver : Nat, n : Nat, live : BOOLEAN, late : BOOLEAN]
  BY DEF CDCTypeOK
<1>2. mine # {} => x \in Row
  BY DEF Row
<1>3. Landed(ch, rows, late)[k] =
        IF mine = {} THEN ch[k]
        ELSE IF x.ver >= ch[k].ver
             THEN [ver |-> x.ver, n |-> x.n, live |-> x.live, late |-> late] ELSE ch[k]
  BY DEF Landed
<1> HIDE DEF mine, x
<1> QED
  BY <1>1, <1>2, <1>3 DEF Row

\* VersionClock.next exceeds the last version and the wall clock.
LEMMA NextVersionType ==
    ASSUME CDCTypeOK, NEW l \in Nat
    PROVE  NextVersion(l) \in Nat /\ NextVersion(l) > l /\ NextVersion(l) > now
BY DEF CDCTypeOK, NextVersion

\* The first state has the types.
LEMMA TypeInit == Init => TypeInv
<1> SUFFICES ASSUME Init PROVE TypeInv
  OBVIOUS
<1>1. CDCTypeOK
  <2>1. src \in [Keys -> [n : Nat, live : BOOLEAN, bad : BOOLEAN]]
    <3> DEFINE T == [n : Nat, live : BOOLEAN, bad : BOOLEAN]
               a == [n |-> 0, live |-> FALSE, bad |-> FALSE]
               b == [n |-> 1, live |-> TRUE, bad |-> FALSE]
    <3>1. a \in T /\ b \in T
      OBVIOUS
    <3>2. src \in [Keys -> {a, b}]
      BY DEF Init
    <3> HIDE DEF T, a, b
    <3>3. src \in [Keys -> T]
      BY <3>1, <3>2
    <3> QED
      BY <3>3 DEF T
  <2>2. /\ open \in [Keys -> [live : BOOLEAN, bad : BOOLEAN, seq : Nat, busy : BOOLEAN]]
        /\ ch \in [Keys -> [ver : Nat, n : Nat, live : BOOLEAN, late : BOOLEAN]]
    BY DEF Init, NoTx
  <2>3. /\ snap \in [cursor : 0 .. NumKeys, done : BOOLEAN]
        /\ dead \in [Keys -> 0 .. Retries]
    BY SizesAssumption DEF Init
  <2> QED
    BY <2>1, <2>2, <2>3 DEF Init, CDCTypeOK
<1>2. d \in DrainRecord
  BY SizesAssumption DEF Init, DrainRecord, DIdle, DrainPcs
<1>3. r \in SweepRecord
  BY SizesAssumption DEF Init, SweepRecord, RIdle, SweepPcs
<1> QED
  BY <1>1, <1>2, <1>3 DEF TypeInv

\* An activity at rest has its type.
LEMMA IdleTypes == DIdle \in DrainRecord /\ RIdle \in SweepRecord
BY SizesAssumption DEF DIdle, RIdle, DrainPcs, SweepPcs, DrainRecord, SweepRecord

\* The next position of a sweep.
LEMMA AdvanceType ==
    ASSUME r \in SweepRecord, NEW ids \in SUBSET Keys
    PROVE  Advance(ids) \in SweepRecord
<1>1. ASSUME Cardinality(ids) = Chunk PROVE Max(ids) \in 0 .. NumKeys
  <2>1. ids # {}
    BY <1>1, SizesAssumption, FS_EmptySet
  <2>2. Max(ids) \in ids
    BY <2>1, KeySets, MaxOf
  <2>3. Max(ids) \in Keys
    BY <2>2
  <2> QED
    BY <2>3, SizesAssumption DEF Keys
<1>2. CASE Cardinality(ids) = Chunk
  <2>1. Advance(ids) = [RIdle EXCEPT !.pc = "read", !.pass = r.pass, !.after = Max(ids)]
    BY <1>2 DEF Advance
  <2> QED
    BY <2>1, <1>1, <1>2, IdleTypes DEF SweepRecord, SweepPcs
<1>3. CASE Cardinality(ids) # Chunk /\ r.pass = "A"
  <2>1. Advance(ids) = [RIdle EXCEPT !.pc = "read", !.pass = "B"]
    BY <1>3 DEF Advance
  <2> QED
    BY <2>1, IdleTypes DEF SweepRecord, SweepPcs
<1>4. CASE Cardinality(ids) # Chunk /\ r.pass # "A"
  <2>1. Advance(ids) = [RIdle EXCEPT !.pc = "end"]
    BY <1>4 DEF Advance
  <2> QED
    BY <2>1, IdleTypes DEF SweepRecord, SweepPcs
<1> QED
  BY <1>2, <1>3, <1>4

\* install starts its version clock at the highest version in ClickHouse.
LEMMA InstallClock ==
    ASSUME CDCTypeOK, Install
    PROVE  /\ last' \in {floor} \cup {ch[k].ver : k \in Keys}
           /\ last' >= floor
           /\ \A k \in Keys : last' >= ch[k].ver
<1> DEFINE V == {ch[k].ver : k \in Keys}
<1>1. IsFiniteSet(V)
  <2> DEFINE f == [k \in Keys |-> ch[k].ver]
  <2>1. f \in Surjection(Keys, V)
    BY DEF Surjection
  <2>2. IsFiniteSet(Keys)
    BY KeySets
  <2> HIDE DEF f, V
  <2> QED
    BY <2>1, <2>2, FS_Surjection
<1>2. IsFiniteSet({floor} \cup V)
  BY <1>1, FS_AddElement
<1>3. ({floor} \cup V) \in SUBSET Nat
  BY DEF CDCTypeOK
<1> DEFINE W == {floor} \cup V
<1>4. last' = Max(W)
  BY DEF Install
<1>5. Max(W) \in W /\ \A y \in W : y <= Max(W)
  <2> HIDE DEF V
  <2>1. W # {}
    OBVIOUS
  <2> HIDE DEF W
  <2> QED
    BY <1>2, <1>3, <2>1, MaxOf DEF W
<1> QED
  BY <1>3, <1>4, <1>5

\* The keys of outbox rows are keys of the table.
LEMMA KeysOfType == ASSUME NEW rows \in SUBSET OutRow PROVE KeysOf(rows) \in SUBSET Keys
BY SizesAssumption DEF OutRow, KeysOf, Keys

\* Every key of a batch has a first row.
LEMMA FirstSeenType ==
    ASSUME NEW rows \in SUBSET OutRow, NEW k \in KeysOf(rows)
    PROVE  FirstSeen(rows, k) \in Nat
<1> DEFINE mine == {y \in rows : y.key = k}
           S == {x.seq : x \in mine}
<1>1. S # {} /\ S \in SUBSET Nat
  BY DEF KeysOf, OutRow
<1>2. PICK s \in S : \A y \in S : s <= y
  BY <1>1, MinOf
<1>3. \E t \in S : \A x \in mine : t <= x.seq
  BY <1>2
<1>4. FirstSeen(rows, k) = CHOOSE t \in S : \A x \in mine : t <= x.seq
  BY DEF FirstSeen
<1>5. FirstSeen(rows, k) \in S
  BY <1>3, <1>4
<1> QED
  BY <1>1, <1>5

\* What a drain batch does about its keys: park some, reach some, and fail the table
\* unless each key is one or the other.
LEMMA ReadChooses ==
    ASSUME TypeInv, DrainRead
    PROVE  \E park \in SUBSET Keys, reached \in SUBSET Keys, failed \in BOOLEAN :
             /\ d' = [d EXCEPT !.pc = "apply", !.park = park, !.failed = failed,
                                !.block = BlockOf(reached, NextVersion(last))]
             /\ IF reached = {} THEN UNCHANGED <<last, now>> ELSE Allocate(last)
             /\ ~failed => KeysOf(d.rows) \subseteq park \cup reached
<1> DEFINE ks == KeysOf(d.rows)
           At(k) == FirstSeen(d.rows, k)
           Before(k) == {j \in ks : At(j) < At(k)}
           refused == {k \in ks : Refused(k)}
           Earlier(k) == refused \cap Before(k)
           budget == MaxParked - d.parked
           park == {k \in refused : Cardinality(Earlier(k)) < budget}
           stop == {k \in refused \ park : Earlier(k) = park}
           reached == {k \in ks \ refused : \A s \in stop : k \in Before(s)}
<1>1. /\ d' = [d EXCEPT !.pc = "apply", !.park = park, !.failed = stop # {},
                         !.block = BlockOf(reached, NextVersion(last))]
      /\ IF reached = {} THEN UNCHANGED <<last, now>> ELSE Allocate(last)
  BY DEF DrainRead
<1>2. d.rows \in SUBSET OutRow /\ d.parked \in Nat
  BY DEF TypeInv, DrainRecord
<1>3. ks \in SUBSET Keys
  BY <1>2, KeysOfType
<1>4. \A k \in ks : At(k) \in Nat
  BY <1>2, FirstSeenType
<1>5. park \in SUBSET Keys /\ reached \in SUBSET Keys
  BY <1>3
<1>6. stop = {} => ks \subseteq park \cup reached
  <2> SUFFICES ASSUME stop = {} PROVE refused \subseteq park
    OBVIOUS
  <2> SUFFICES ASSUME refused \ park # {} PROVE FALSE
    OBVIOUS
  <2> DEFINE left == refused \ park
             Q == {At(k) : k \in left}
  <2>a. left # {} /\ \A k \in left : At(k) \in Nat
    BY <1>4
  <2>3. PICK k \in left : \A j \in left : At(k) <= At(j)
    <3> HIDE DEF At, left
    <3>1. Q \in SUBSET Nat /\ Q # {}
      BY <2>a
    <3>2. PICK q \in Q : \A y \in Q : q <= y
      <4> HIDE DEF Q
      <4> QED
        BY <3>1, MinOf
    <3> QED
      BY <3>2
  <2> HIDE DEF At, ks
  <2>4. Earlier(k) \subseteq park
    BY <2>3, <1>4
  <2>5. \A j \in refused : Earlier(j) \in SUBSET Keys
    BY <1>3
  <2>6. \A j \in refused : Cardinality(Earlier(j)) \in Nat /\ IsFiniteSet(Earlier(j))
    <3> HIDE DEF Earlier, refused
    <3> QED
      BY <2>5, KeySets
  <2>7. ASSUME NEW j \in park PROVE j \in Earlier(k)
    <3> SUFFICES ASSUME At(k) <= At(j) PROVE FALSE
      BY <1>4, <2>3
    <3>1. Earlier(k) \in SUBSET Earlier(j)
      BY <1>4, <2>3
    <3> HIDE DEF Earlier
    <3>2. Cardinality(Earlier(k)) <= Cardinality(Earlier(j))
      BY <3>1, <2>6, FS_Subset
    <3>3. budget \in Int
      BY <1>2, SizesAssumption
    <3>4. Cardinality(Earlier(j)) < budget /\ ~ (Cardinality(Earlier(k)) < budget)
      BY <2>3
    <3> HIDE DEF budget
    <3> QED
      BY <3>2, <3>3, <3>4, <2>6, <2>3
  <2>8. Earlier(k) = park
    BY <2>4, <2>7
  <2> QED
    BY <2>3, <2>8
<1> HIDE DEF ks, park, reached, stop
<1>7. (stop # {}) \in BOOLEAN
  OBVIOUS
<1> QED
  BY <1>1, <1>5, <1>6, <1>7 DEF ks

\* A disturbance is counted, with its kind.
LEMMA FaultTypes ==
    ASSUME happened \subseteq Faults, faults \in Nat, NEW f, Fault(f)
    PROVE  happened' \subseteq Faults /\ faults' \in Nat /\ writes' = writes
BY DEF Fault

\* Every step keeps the types.
LEMMA TypeStep ==
    ASSUME TypeInv, [Next]_vars PROVE TypeInv'
<1> USE SizesAssumption DEF TypeInv
<1>1. ASSUME NEW k \in Keys, Write(k) PROVE TypeInv'
  BY <1>1 DEF Write, CDCTypeOK, chVars, clockVars, stateVars
<1>2. ASSUME NEW k \in Keys, Commit(k) PROVE TypeInv'
  <2>1. src' \in [Keys -> [n : Nat, live : BOOLEAN, bad : BOOLEAN]]
    <3> DEFINE new == [n |-> src[k].n + 1, live |-> open[k].live, bad |-> open[k].bad]
    <3>1. src' = [src EXCEPT ![k] = new]
      BY <1>2 DEF Commit, CDCTypeOK
    <3>2. new \in [n : Nat, live : BOOLEAN, bad : BOOLEAN]
      BY DEF CDCTypeOK
    <3> HIDE DEF new
    <3> QED
      BY <3>1, <3>2 DEF CDCTypeOK
  <2>2. open' \in [Keys -> [live : BOOLEAN, bad : BOOLEAN, seq : Nat, busy : BOOLEAN]]
    BY <1>2 DEF Commit, NoTx, CDCTypeOK
  <2>3. outbox' \in SUBSET [seq : Nat, key : 0 .. NumKeys]
    <3>1. [seq |-> open[k].seq, key |-> k] \in [seq : Nat, key : 0 .. NumKeys]
      BY DEF CDCTypeOK, Keys
    <3> QED
      BY <1>2, <3>1 DEF Commit, CDCTypeOK
  <2> QED
    BY <1>2, <2>1, <2>2, <2>3 DEF Commit, CDCTypeOK, chVars, clockVars, stateVars
<1>3. ASSUME Truncate PROVE TypeInv'
  <2>1. src' \in [Keys -> [n : Nat, live : BOOLEAN, bad : BOOLEAN]]
    BY <1>3 DEF Truncate, CDCTypeOK
  <2>2. outbox' \in SUBSET [seq : Nat, key : 0 .. NumKeys] /\ nextSeq' \in Nat
    BY <1>3 DEF Truncate, CDCTypeOK
  <2>3. happened' \subseteq Faults /\ faults' \in Nat /\ writes' \in Nat
    BY <1>3, FaultTypes DEF Truncate, CDCTypeOK
  <2> QED
    BY <1>3, <2>1, <2>2, <2>3 DEF Truncate, CDCTypeOK, chVars, clockVars, stateVars
<1>4. ASSUME DisableCapture PROVE TypeInv'
  BY <1>4, FaultTypes DEF DisableCapture, CDCTypeOK, chVars, clockVars, stateVars
<1>5. ASSUME Resync PROVE TypeInv'
  BY <1>5, FaultTypes DEF Resync, CDCTypeOK, srcVars, chVars, clockVars
<1>6. ASSUME DrainStart PROVE TypeInv'
  <2>1. snap' \in [cursor : 0 .. NumKeys, done : BOOLEAN] /\ armed' \in BOOLEAN
    <3>1. [cursor |-> 0, done |-> FALSE] \in [cursor : 0 .. NumKeys, done : BOOLEAN]
      OBVIOUS
    <3> QED
      BY <1>6, <3>1 DEF DrainStart, Rearm, CDCTypeOK
  <2>2. d' \in DrainRecord
    <3> DEFINE pc == IF outbox # {} \/ ~snap'.done THEN "batch" ELSE "finish"
               hasDead == \E k \in Keys : dead[k] > 0
    <3>1. d' = [DIdle EXCEPT !.hasDead = hasDead, !.pending = ~snap'.done, !.pc = pc]
      BY <1>6 DEF DrainStart
    <3>2. pc \in DrainPcs
      BY DEF DrainPcs
    <3>3. hasDead \in BOOLEAN /\ (~snap'.done) \in BOOLEAN
      OBVIOUS
    <3> HIDE DEF pc, hasDead
    <3> QED
      BY <3>1, <3>2, <3>3, IdleTypes DEF DrainRecord
  <2> QED
    BY <1>6, <2>1, <2>2 DEF DrainStart, CDCTypeOK, chVars
<1>7. ASSUME DrainBatch PROVE TypeInv'
  BY <1>7 DEF DrainBatch, Oldest, CDCTypeOK, DrainRecord, srcVars, chVars, clockVars, stateVars, DrainPcs, OutRow
<1>8. ASSUME DrainRead PROVE TypeInv'
  <2>1. PICK park \in SUBSET Keys, reached \in SUBSET Keys, failed \in BOOLEAN :
          /\ d' = [d EXCEPT !.pc = "apply", !.park = park, !.failed = failed,
                             !.block = BlockOf(reached, NextVersion(last))]
          /\ IF reached = {} THEN UNCHANGED <<last, now>> ELSE Allocate(last)
    BY <1>8, ReadChooses
  <2>2. NextVersion(last) \in Nat
    BY NextVersionType DEF CDCTypeOK
  <2>3. BlockOf(reached, NextVersion(last)) \in SUBSET Row
    BY <2>2, BlockOfType
  <2>4. d' \in DrainRecord
    <3> DEFINE block == BlockOf(reached, NextVersion(last))
    <3> HIDE DEF block
    <3> QED
      BY <2>1, <2>3 DEF DrainRecord, DrainPcs, block
  <2>5. last' \in Nat /\ now' \in Nat
    BY <2>1, <2>2 DEF Allocate, CDCTypeOK
  <2> QED
    BY <1>8, <2>4, <2>5 DEF DrainRead, CDCTypeOK, srcVars, chVars, stateVars
<1>9. ASSUME DrainInsert PROVE TypeInv'
  BY <1>9, LandedType DEF DrainInsert, CDCTypeOK, DrainRecord, srcVars, clockVars, stateVars, DrainPcs
<1>10. ASSUME DrainSettle PROVE TypeInv'
  <2>1. dead' \in [Keys -> 0 .. Retries]
    BY <1>10 DEF DrainSettle, CDCTypeOK
  <2>2. Cardinality(d.park) \in Nat
    BY KeySets DEF DrainRecord
  <2>3. d' \in DrainRecord
    <3> DEFINE parked == d.parked + Cardinality(d.park)
    <3>1. d' = [d EXCEPT !.pc = "delete", !.parked = parked]
      BY <1>10 DEF DrainSettle, DrainRecord
    <3>2. parked \in Nat
      BY <2>2 DEF DrainRecord
    <3> HIDE DEF parked
    <3> QED
      BY <3>1, <3>2 DEF DrainRecord, DrainPcs
  <2> QED
    BY <1>10, <2>1, <2>3 DEF DrainSettle, CDCTypeOK, srcVars, chVars, clockVars
<1>11. ASSUME DrainDelete PROVE TypeInv'
  <2>1. PICK pc \in {"finish", "batch", "snap"} :
          d' = [d EXCEPT !.rows = {}, !.block = {}, !.park = {}, !.pc = pc]
    BY <1>11 DEF DrainDelete
  <2>2. d' \in DrainRecord
    BY <2>1 DEF DrainRecord, DrainPcs
  <2> QED
    BY <1>11, <2>2 DEF DrainDelete, CDCTypeOK, chVars, clockVars, stateVars
<1>12. ASSUME SnapshotRead PROVE TypeInv'
  <2> DEFINE page == PageAfter(snap.cursor)
             cursor == IF page = {} THEN snap.cursor ELSE Max(page)
             block == BlockOf(page, NextVersion(last))
             full == Cardinality(page) < Page
  <2>1. page \in SUBSET Keys
    BY PageWithin DEF PageAfter
  <2>2. cursor \in 0 .. NumKeys
    <3>1. page # {} => Max(page) \in Keys
      BY <2>1, KeySets, MaxOf
    <3> HIDE DEF page
    <3> QED
      BY <3>1 DEF CDCTypeOK, Keys
  <2>3. NextVersion(last) \in Nat
    BY NextVersionType DEF CDCTypeOK
  <2>4. block \in SUBSET Row
    BY <2>1, <2>3, BlockOfType
  <2>5. d' = [d EXCEPT !.pc = "page", !.block = block, !.cursor = cursor, !.done = full]
    BY <1>12 DEF SnapshotRead
  <2>6. full \in BOOLEAN
    OBVIOUS
  <2> HIDE DEF page, cursor, block, full
  <2>7. d' \in DrainRecord
    BY <2>2, <2>4, <2>5, <2>6 DEF DrainRecord, DrainPcs
  <2>8. last' \in Nat /\ now' \in Nat
    BY <1>12, <2>3 DEF SnapshotRead, Allocate, CDCTypeOK
  <2> QED
    BY <1>12, <2>7, <2>8 DEF SnapshotRead, CDCTypeOK, srcVars, chVars, stateVars
<1>13. ASSUME SnapshotRefused PROVE TypeInv'
  BY <1>13, IdleTypes DEF SnapshotRefused, StoreFloor, Abandon, CDCTypeOK, DrainRecord, srcVars, stateVars
<1>14. ASSUME SnapshotInsert PROVE TypeInv'
  BY <1>14, LandedType DEF SnapshotInsert, CDCTypeOK, DrainRecord, srcVars, clockVars, stateVars, DrainPcs
<1>15. ASSUME SnapshotSave PROVE TypeInv'
  <2>1. PICK pc \in {"finish", "snap"} : d' = [d EXCEPT !.block = {}, !.pc = pc]
    BY <1>15 DEF SnapshotSave
  <2>2. d' \in DrainRecord
    BY <2>1 DEF DrainRecord, DrainPcs
  <2>3. snap' \in [cursor : 0 .. NumKeys, done : BOOLEAN] /\ request' \in {"none", "seen", "new"}
    BY <1>15 DEF SnapshotSave, DrainRecord, CDCTypeOK
  <2> QED
    BY <1>15, <2>2, <2>3 DEF SnapshotSave, CDCTypeOK, srcVars, chVars, clockVars
<1>16. ASSUME DrainFinish PROVE TypeInv'
  BY <1>16, IdleTypes DEF DrainFinish, StoreFloor, CDCTypeOK, srcVars, chVars, stateVars
<1>17. ASSUME DrainFail PROVE TypeInv'
  BY <1>17, IdleTypes, FaultTypes DEF DrainFail, StoreFloor, Abandon, CDCTypeOK, DrainRecord, srcVars, stateVars
<1>18. ASSUME ReconcileStart PROVE TypeInv'
  <2>1. Due \in SUBSET Keys
    BY DEF Due
  <2>2. \A k \in Due : Cardinality({j \in Due : j < k}) \in Nat
    BY <2>1, KeySets
  <2>3. outbox' \in SUBSET [seq : Nat, key : 0 .. NumKeys]
    <3> DEFINE row(k) == [seq |-> nextSeq + Cardinality({j \in Due : j < k}), key |-> k]
    <3>1. ASSUME NEW k \in Due PROVE row(k) \in [seq : Nat, key : 0 .. NumKeys]
      <4> DEFINE c == Cardinality({j \in Due : j < k})
      <4>1. c \in Nat /\ k \in 0 .. NumKeys
        BY <2>1, <2>2 DEF Keys
      <4> HIDE DEF c
      <4>2. [seq |-> nextSeq + c, key |-> k] \in [seq : Nat, key : 0 .. NumKeys]
        BY <4>1 DEF CDCTypeOK
      <4> QED
        BY <4>2 DEF c
    <3>2. outbox' = outbox \cup {row(k) : k \in Due}
      BY <1>18 DEF ReconcileStart
    <3> HIDE DEF row
    <3> QED
      BY <3>1, <3>2 DEF CDCTypeOK
  <2>4. nextSeq' \in Nat
    BY <1>18, <2>1, KeySets DEF ReconcileStart, CDCTypeOK
  <2>5. r' \in SweepRecord
    BY <1>18, IdleTypes DEF ReconcileStart, SweepRecord, SweepPcs
  <2>6. requeued' \subseteq Keys /\ request' \in {"none", "seen", "new"}
    BY <1>18, <2>1 DEF ReconcileStart, CDCTypeOK
  <2> QED
    BY <1>18, <2>3, <2>4, <2>5, <2>6 DEF ReconcileStart, CDCTypeOK, chVars, clockVars
<1>19. ASSUME SweepRead PROVE TypeInv'
  <2>1. r' \in SweepRecord
    <3> DEFINE side == IF r.pass = "A" THEN {k \in Keys : ch[k].live}
                       ELSE {k \in Keys : src[k].live}
               ids == FirstOf({k \in side : k > r.after}, Chunk)
    <3>1. ids \in SUBSET Keys
      BY PageWithin
    <3>2. r' = IF ids = {} THEN Advance({}) ELSE [r EXCEPT !.pc = "compare", !.ids = ids]
      BY <1>19 DEF SweepRead
    <3> HIDE DEF ids
    <3>3. Advance({}) \in SweepRecord
      BY AdvanceType
    <3> QED
      BY <3>1, <3>2, <3>3 DEF SweepRecord, SweepPcs
  <2> QED
    BY <1>19, <2>1 DEF SweepRead, CDCTypeOK, srcVars, chVars, clockVars, stateVars
<1>20. ASSUME SweepCompare PROVE TypeInv'
  <2>1. r' \in SweepRecord
    <3> DEFINE differ == {k \in r.ids : IF r.pass = "A" THEN ~src[k].live ELSE ~ch[k].live}
    <3>1. differ \in SUBSET Keys
      BY DEF SweepRecord
    <3>2. r' = IF differ = {} THEN Advance(r.ids)
               ELSE [r EXCEPT !.pc = "repair", !.keys = differ]
      BY <1>20 DEF SweepCompare
    <3> HIDE DEF differ
    <3>3. Advance(r.ids) \in SweepRecord
      BY AdvanceType DEF SweepRecord
    <3> QED
      BY <3>1, <3>2, <3>3 DEF SweepRecord, SweepPcs
  <2> QED
    BY <1>20, <2>1 DEF SweepCompare, CDCTypeOK, srcVars, chVars, clockVars, stateVars
<1>21. ASSUME SweepRepair PROVE TypeInv'
  <2>1. NextVersion(floor) \in Nat
    BY NextVersionType DEF CDCTypeOK
  <2>2. BlockOf(r.keys, NextVersion(floor)) \in SUBSET Row
    BY <2>1, BlockOfType DEF SweepRecord
  <2>3. r' \in SweepRecord
    <3> DEFINE block == BlockOf(r.keys, NextVersion(floor))
    <3>1. r' = RIdle \/ r' = [r EXCEPT !.pc = "insert", !.block = block]
      BY <1>21 DEF SweepRepair
    <3> HIDE DEF block
    <3> QED
      BY <3>1, <2>2, IdleTypes DEF SweepRecord, SweepPcs, block
  <2>4. last' \in Nat /\ now' \in Nat /\ lock' \in {"none", "drain", "reconcile"}
    BY <1>21, <2>1 DEF SweepRepair, Allocate, CDCTypeOK
  <2> QED
    BY <1>21, <2>3, <2>4 DEF SweepRepair, CDCTypeOK, srcVars, chVars, stateVars
<1>22. ASSUME SweepInsert PROVE TypeInv'
  <2>1. ch' \in [Keys -> [ver : Nat, n : Nat, live : BOOLEAN, late : BOOLEAN]]
    BY <1>22, LandedType DEF SweepInsert, SweepRecord
  <2> QED
    BY <1>22, <2>1 DEF SweepInsert, CDCTypeOK, SweepRecord, srcVars, clockVars, stateVars, SweepPcs
<1>23. ASSUME SweepRelease PROVE TypeInv'
  <2>1. r' \in SweepRecord
    BY <1>23, AdvanceType DEF SweepRelease, SweepRecord
  <2> QED
    BY <1>23, <2>1 DEF SweepRelease, StoreFloor, CDCTypeOK, srcVars, chVars, stateVars
<1>24. ASSUME ReconcileEnd PROVE TypeInv'
  BY <1>24, IdleTypes DEF ReconcileEnd, CDCTypeOK, srcVars, chVars, clockVars
<1>25. ASSUME ReconcileFail PROVE TypeInv'
  BY <1>25, IdleTypes, FaultTypes DEF ReconcileFail, StoreFloor, CDCTypeOK, SweepRecord, srcVars, stateVars
<1>26. ASSUME Install PROVE TypeInv'
  <2>1. last' \in Nat
    BY <1>26, InstallClock DEF CDCTypeOK
  <2>2. d' \in DrainRecord
    <3>1. PICK pc \in {"finish", "snap"} : d' = [DIdle EXCEPT !.pc = pc]
      BY <1>26 DEF Install
    <3> QED
      BY <3>1, IdleTypes DEF DrainRecord, DrainPcs
  <2>3. snap' \in [cursor : 0 .. NumKeys, done : BOOLEAN]
    <3>1. [cursor |-> 0, done |-> FALSE] \in [cursor : 0 .. NumKeys, done : BOOLEAN]
      OBVIOUS
    <3> QED
      BY <1>26, <3>1 DEF Install, CDCTypeOK
  <2> QED
    BY <1>26, <2>1, <2>2, <2>3, FaultTypes DEF Install, CDCTypeOK, chVars
<1>27. ASSUME DayPasses PROVE TypeInv'
  BY <1>27, FaultTypes DEF DayPasses, CDCTypeOK, srcVars, chVars, clockVars
<1>28. ASSUME HourPasses PROVE TypeInv'
  BY <1>28 DEF HourPasses, CDCTypeOK, srcVars, chVars, clockVars
<1>29. ASSUME LandLate PROVE TypeInv'
  <2>1. PICK x \in flying : ch' = Landed(ch, {x}, TRUE) /\ flying' = flying \ {x}
    BY <1>29 DEF LandLate
  <2>2. {x} \in SUBSET Row
    BY DEF CDCTypeOK
  <2>3. ch' \in [Keys -> [ver : Nat, n : Nat, live : BOOLEAN, late : BOOLEAN]]
    BY <2>1, <2>2, LandedType
  <2> QED
    BY <1>29, <2>1, <2>3 DEF LandLate, CDCTypeOK, srcVars, clockVars, stateVars
<1>30. ASSUME SessionLost PROVE TypeInv'
  BY <1>30, IdleTypes, FaultTypes DEF SessionLost, CDCTypeOK, DrainRecord, SweepRecord, srcVars, stateVars
<1>31. ASSUME ClockStepsBack PROVE TypeInv'
  BY <1>31, FaultTypes DEF ClockStepsBack, CDCTypeOK, srcVars, chVars, stateVars
<1>32. ASSUME UNCHANGED vars PROVE TypeInv'
  BY <1>32 DEF vars, CDCTypeOK, srcVars, chVars, clockVars, stateVars
<1> QED
  BY <1>1, <1>2, <1>3, <1>4, <1>5, <1>6, <1>7, <1>8, <1>9, <1>10, <1>11, <1>12, <1>13,
     <1>14, <1>15, <1>16, <1>17, <1>18, <1>19, <1>20, <1>21, <1>22, <1>23, <1>24, <1>25,
     <1>26, <1>27, <1>28, <1>29, <1>30, <1>31, <1>32 DEF Next, DrainStep, SweepStep

-----------------------------------------------------------------------------
(* The order of the inserts                                                *)

\* The inserts in progress.
Pending ==
    (IF d.pc \in {"apply", "page"} THEN d.block ELSE {})
        \cup (IF r.pc = "insert" THEN r.block ELSE {})

\* The insert a reader sees of key k.
Shown(k) == [key |-> k, ver |-> ch[k].ver, n |-> ch[k].n, live |-> ch[k].live]

\* Every insert a reader sees or may come to see.
Inserts == {Shown(k) : k \in Keys} \cup flying \cup Pending

\* The advisory lock belongs to the activity that is inside writer().
LockIsHeld ==
    /\ d.pc # "idle" <=> lock = "drain"
    /\ r.pc \in {"insert", "release"} <=> lock = "reconcile"

\* Of two inserts of a key, the one with the higher version describes the later state.
Ordered == \A x, y \in Inserts : x.key = y.key /\ x.ver <= y.ver => x.n <= y.n

\* An insert describes the committed state or an earlier one.
FromSource == \A x \in Inserts :
    x.n <= src[x.key].n /\ (x.n = src[x.key].n => x.live = src[x.key].live)

\* What the next version will exceed: the floor, or the clock of the lock's holder.
Top == IF lock = "none" THEN floor ELSE last

\* No insert of S has a version above b.
AllBelow(S, b) == \A x \in S : x.ver <= b

\* Versions in use are below the wall clock until it steps back, and below the version
\* clock until a session is lost.  One of the two orders the next version.
VersionsBelow ==
    /\ ~({"loss", "step"} \subseteq happened)
    /\ lock # "none" => floor <= last
    /\ "step" \notin happened => floor <= now /\ last <= now /\ AllBelow(Inserts, now)
    /\ "loss" \notin happened => AllBelow(Inserts, Top)

\* An insert in progress is the newest of its key, and the only one in progress.
PendingNewest ==
    /\ \A x \in Pending, y \in Inserts : y.key = x.key => y.ver <= x.ver
    /\ \A x, y \in Pending : x.key = y.key => x = y

\* The order of the versions is the order of the states.
OrderInv == TypeInv /\ LockIsHeld /\ Ordered /\ FromSource /\ VersionsBelow /\ PendingNewest

\* Committed states are only added.
SrcGrows == \A k \in Keys :
    /\ src[k].n <= src'[k].n
    /\ src'[k].n = src[k].n => src'[k].live = src[k].live

\* A step that makes no new insert.
Quiet == Inserts' \subseteq Inserts /\ Pending' \subseteq Pending /\ SrcGrows

\* A step that reads the committed rows of ks and begins to insert them.
Allocates == \E ks \in SUBSET Keys :
    /\ Pending = {} /\ Pending' = BlockOf(ks, NextVersion(Top))
    /\ lock' # "none" /\ last' = NextVersion(Top)
    /\ UNCHANGED <<src, ch, flying>>

\* What a step does to the clocks.
ClockEffect ==
    /\ ~({"loss", "step"} \subseteq happened') /\ happened \subseteq happened'
    /\ lock' # "none" => floor' <= last'
    /\ "step" \notin happened' => now <= now' /\ floor' <= now' /\ last' <= now'
    /\ "loss" \notin happened' => Top <= Top'

\* One row per key: what Landed makes of a key.
LEMMA LandedCases ==
    ASSUME NEW rows, NEW late, NEW k \in Keys
    PROVE  \/ Landed(ch, rows, late)[k] = ch[k] /\ \A x \in rows : x.key # k
           \/ \E x \in rows :
                /\ x.key = k
                /\ Landed(ch, rows, late)[k] =
                     IF x.ver >= ch[k].ver
                     THEN [ver |-> x.ver, n |-> x.n, live |-> x.live, late |-> late]
                     ELSE ch[k]
<1> DEFINE mine == {x \in rows : x.key = k}
           x == CHOOSE x \in mine : TRUE
<1>1. mine # {} => x \in rows /\ x.key = k
  OBVIOUS
<1>2. mine = {} => \A y \in rows : y.key # k
  OBVIOUS
<1>3. Landed(ch, rows, late)[k] =
        IF mine = {} THEN ch[k]
        ELSE IF x.ver >= ch[k].ver
             THEN [ver |-> x.ver, n |-> x.n, live |-> x.live, late |-> late] ELSE ch[k]
  BY DEF Landed
<1> HIDE DEF mine, x
<1> QED
  BY <1>1, <1>2, <1>3

\* A key of which nothing lands.
LEMMA LandedAway ==
    ASSUME NEW rows, NEW late, ch' = Landed(ch, rows, late), NEW k \in Keys,
           \A x \in rows : x.key # k
    PROVE  ch'[k] = ch[k]
<1>1. Landed(ch, rows, late)[k] = ch[k]
  <2> DEFINE mine == {x \in rows : x.key = k}
  <2>1. mine = {}
    OBVIOUS
  <2> QED
    BY <2>1 DEF Landed
<1> QED
  BY <1>1

\* One row that lands and is shown.
LEMMA LandedHere ==
    ASSUME NEW x, NEW late, ch' = Landed(ch, {x}, late), NEW k \in Keys, ch'[k] # ch[k]
    PROVE  /\ x.key = k /\ x.ver >= ch[k].ver
           /\ ch'[k] = [ver |-> x.ver, n |-> x.n, live |-> x.live, late |-> late]
<1> DEFINE rows == {x}
<1>0. ch' = Landed(ch, rows, late)
  OBVIOUS
<1> HIDE DEF rows
<1>1. PICK y \in rows : /\ y.key = k /\ y.ver >= ch[k].ver
                       /\ ch'[k] = [ver |-> y.ver, n |-> y.n, live |-> y.live, late |-> late]
  BY <1>0, LandedCases
<1> QED
  BY <1>1 DEF rows

\* Nothing new is inserted by giving up on an insert.
LEMMA KeepsInserts ==
    ASSUME ch' = ch, flying' \subseteq flying \cup Pending, Pending' \subseteq Pending
    PROVE  Inserts' \subseteq Inserts
BY DEF Inserts, Shown

\* Nor by an insert that lands.
LEMMA LandsInserts ==
    ASSUME TypeInv, NEW rows \in SUBSET Row, rows \subseteq Inserts, NEW late,
           ch' = Landed(ch, rows, late), flying' \subseteq flying, Pending' \subseteq Pending
    PROVE  Inserts' \subseteq Inserts
<1>1. ASSUME NEW k \in Keys PROVE Shown(k)' \in Inserts
  <2>1. Shown(k)' = [key |-> k, ver |-> ch'[k].ver, n |-> ch'[k].n, live |-> ch'[k].live]
    BY DEF Shown
  <2>2. CASE ch'[k] = ch[k]
    BY <2>1, <2>2 DEF Inserts, Shown
  <2>3. CASE ch'[k] # ch[k]
    <3>1. PICK x \in rows : x.key = k /\ ch'[k] = [ver |-> x.ver, n |-> x.n, live |-> x.live, late |-> late]
      BY <2>3, LandedCases
    <3>2. x \in Row
      OBVIOUS
    <3>3. Shown(k)' = x
      BY <2>1, <3>1, <3>2 DEF Row
    <3> QED
      BY <3>3
  <2> QED
    BY <2>2, <2>3
<1>2. Inserts' = {Shown(k)' : k \in Keys} \cup flying' \cup Pending'
  BY DEF Inserts
<1> QED
  BY <1>1, <1>2 DEF Inserts

\* Inserts are versioned rows.
LEMMA InsertTypes ==
    ASSUME TypeInv
    PROVE  Inserts \subseteq Row /\ Pending \subseteq Row /\ \A k \in Keys : Shown(k) \in Row
<1>1. \A k \in Keys : Shown(k) \in Row
  BY DEF Shown, Row, TypeInv, CDCTypeOK
<1>2. Pending \subseteq Row
  BY DEF Pending, TypeInv, DrainRecord, SweepRecord
<1> QED
  BY <1>1, <1>2 DEF Inserts, TypeInv, CDCTypeOK

\* One clock that did not go wrong is enough.
LEMMA NewVersion ==
    ASSUME OrderInv
    PROVE  /\ Top \in Nat /\ NextVersion(Top) \in Nat /\ NextVersion(Top) > Top
           /\ \A x \in Inserts : x.ver < NextVersion(Top)
<1>1. Top \in Nat /\ now \in Nat
  BY DEF OrderInv, TypeInv, CDCTypeOK, Top
<1>2. NextVersion(Top) \in Nat /\ NextVersion(Top) > Top /\ NextVersion(Top) > now
  BY <1>1, NextVersionType DEF OrderInv, TypeInv
<1>3. \A x \in Inserts : x.ver \in Nat
  BY InsertTypes DEF OrderInv, Row
<1>4. AllBelow(Inserts, now) \/ AllBelow(Inserts, Top)
  BY DEF OrderInv, VersionsBelow
<1> QED
  BY <1>1, <1>2, <1>3, <1>4 DEF AllBelow

\* A step without a new insert keeps the order.
LEMMA QuietKeeps ==
    ASSUME OrderInv, TypeInv', LockIsHeld', Quiet, ClockEffect
    PROVE  OrderInv'
<1>1. \A x \in Inserts : x \in Row
  BY InsertTypes DEF OrderInv
<1>2. Ordered'
  BY DEF Quiet, Ordered, OrderInv
<1>3. FromSource'
  <2> SUFFICES ASSUME NEW x \in Inserts'
               PROVE  x.n <= src'[x.key].n /\ (x.n = src'[x.key].n => x.live = src'[x.key].live)
    BY DEF FromSource
  <2>1. x \in Inserts /\ x.key \in Keys /\ x.n \in Nat
    BY <1>1 DEF Quiet, Row
  <2>2. x.n <= src[x.key].n /\ (x.n = src[x.key].n => x.live = src[x.key].live)
    BY <2>1 DEF OrderInv, FromSource
  <2>3. src[x.key].n <= src'[x.key].n /\ (src'[x.key].n = src[x.key].n => src'[x.key].live = src[x.key].live)
    BY <2>1 DEF Quiet, SrcGrows
  <2>4. src[x.key].n \in Nat /\ src'[x.key].n \in Nat
    BY <2>1 DEF OrderInv, TypeInv, CDCTypeOK
  <2> QED
    BY <2>1, <2>2, <2>3, <2>4
<1>4. PendingNewest'
  BY DEF Quiet, PendingNewest, OrderInv
<1>5. \A b, c \in Nat : AllBelow(Inserts, b) /\ b <= c => AllBelow(Inserts', c)
  <2>1. \A x \in Inserts : x.ver \in Nat
    BY <1>1 DEF Row
  <2> QED
    BY <2>1 DEF AllBelow, Quiet
<1>6. {now, now', Top, Top'} \subseteq Nat
  BY DEF OrderInv, TypeInv, CDCTypeOK, Top
<1>7. VersionsBelow'
  BY <1>5, <1>6 DEF VersionsBelow, OrderInv, ClockEffect
<1> QED
  BY <1>2, <1>3, <1>4, <1>7 DEF OrderInv

\* A step that draws a version for rows it has just read keeps the order.
LEMMA AllocationKeeps ==
    ASSUME OrderInv, TypeInv', LockIsHeld', Allocates, ClockEffect
    PROVE  OrderInv'
<1> DEFINE v == NextVersion(Top)
<1>1. PICK ks \in SUBSET Keys :
        /\ Pending = {} /\ Pending' = BlockOf(ks, v)
        /\ lock' # "none" /\ last' = v
        /\ UNCHANGED <<src, ch, flying>>
  BY DEF Allocates
<1>2. v \in Nat /\ (\A x \in Inserts : x.ver < v)
  BY NewVersion
<1>3. \A x \in Inserts : x \in Row
  BY InsertTypes DEF OrderInv
<1>4. Inserts' = Inserts \cup BlockOf(ks, v)
  BY <1>1 DEF Inserts, Shown
<1>5. \A k \in Keys : src[k].n \in Nat
  BY DEF OrderInv, TypeInv, CDCTypeOK
<1> HIDE DEF v
<1> DEFINE New(x) == x.key \in Keys /\ x.ver = v /\ x.n = src[x.key].n /\ x.live = src[x.key].live
<1>6. \A x \in BlockOf(ks, v) : New(x)
  BY <1>1 DEF BlockOf
<1>7. \A x, y \in BlockOf(ks, v) : x.key = y.key => x = y
  BY DEF BlockOf
<1> DEFINE B == BlockOf(ks, v)
<1> HIDE DEF B
<1>8. Inserts' = Inserts \cup B /\ Pending' = B /\ (\A x \in B : New(x))
  BY <1>1, <1>4, <1>6 DEF B
<1>9. FromSource'
  BY <1>1, <1>5, <1>8 DEF FromSource, OrderInv
<1>10. Ordered'
  <2> SUFFICES ASSUME NEW x \in Inserts', NEW y \in Inserts', x.key = y.key, x.ver <= y.ver
               PROVE  x.n <= y.n
    BY DEF Ordered
  <2>1. CASE y \in B
    <3>1. y.n = src[x.key].n
      BY <2>1, <1>8
    <3>2. x.n <= src[x.key].n
      BY <1>1, <1>9 DEF FromSource
    <3> QED
      BY <3>1, <3>2
  <2>2. CASE x \in B /\ y \notin B
    BY <2>2, <1>2, <1>3, <1>8 DEF Row
  <2>3. CASE x \notin B /\ y \notin B
    BY <2>3, <1>8 DEF Ordered, OrderInv
  <2> QED
    BY <2>1, <2>2, <2>3
<1>11. PendingNewest'
  <2>1. \A x \in Pending', y \in Inserts' : y.key = x.key => y.ver <= x.ver
    BY <1>2, <1>3, <1>8 DEF Row
  <2>2. \A x, y \in Pending' : x.key = y.key => x = y
    BY <1>7, <1>8 DEF B
  <2> QED
    BY <2>1, <2>2 DEF PendingNewest
<1>12. AllBelow(Inserts', v)
  BY <1>2, <1>3, <1>8 DEF AllBelow, Row
<1>13. Top' = v /\ last' = v
  BY <1>1 DEF Top
<1>14. \A c \in Nat : v <= c => AllBelow(Inserts', c)
  <2>1. \A x \in Inserts' : x.ver \in Nat
    BY <1>2, <1>3, <1>8 DEF Row
  <2> QED
    BY <2>1, <1>2, <1>12 DEF AllBelow
<1>15. now' \in Nat
  BY DEF TypeInv, CDCTypeOK
<1>16. VersionsBelow'
  BY <1>12, <1>13, <1>14, <1>15 DEF VersionsBelow, ClockEffect
<1> QED
  BY <1>9, <1>10, <1>11, <1>16 DEF OrderInv

-----------------------------------------------------------------------------
(* Every step keeps the order                                              *)

\* The disturbances so far do not include both a lost session and a clock step.
Disturbed == happened \subseteq happened' /\ ~({"loss", "step"} \subseteq happened')

\* All that the order needs to know of a step.
Effect == LockIsHeld' /\ (Quiet \/ Allocates) /\ ClockEffect

\* A disturbance adds to those so far, and not the second of the two.
LEMMA FaultDisturbs == ASSUME BothFaults = FALSE, NEW f, Fault(f) PROVE Disturbed
BY DEF Fault, Disturbed

\* Nor does any other step.
LEMMA NoFaultDisturbs == ASSUME OrderInv, happened' = happened PROVE Disturbed
BY DEF Disturbed, OrderInv, VersionsBelow

\* Rows that stay the same do not go back.
LEMMA SameSource == ASSUME src' = src, TypeInv PROVE SrcGrows
<1>1. \A k \in Keys : src[k].n \in Nat
  BY DEF TypeInv, CDCTypeOK
<1> QED
  BY <1>1 DEF SrcGrows

\* A step that leaves ClickHouse, the clocks and the lock alone.
LEMMA Bystander ==
    ASSUME OrderInv, UNCHANGED <<ch, flying, now, floor, last, lock>>, SrcGrows, Disturbed,
           Pending' \subseteq Pending, LockIsHeld'
    PROVE  Effect
<1>1. Quiet
  BY KeepsInserts DEF Quiet
<1>2. ClockEffect
  <2>1. now \in Nat /\ Top \in Nat
    BY DEF OrderInv, TypeInv, CDCTypeOK, Top
  <2>2. Top' = Top
    BY DEF Top
  <2> QED
    BY <2>1, <2>2 DEF ClockEffect, Disturbed, OrderInv, VersionsBelow
<1> QED
  BY <1>1, <1>2 DEF Effect

\* The end of writer(): the floor catches up with the versions used.
LEMMA WriterEnds ==
    ASSUME OrderInv, StoreFloor, lock' = "none", last' = 0, now' = now, Disturbed
    PROVE  ClockEffect
<1>1. {now, floor, last} \subseteq Nat
  BY DEF OrderInv, TypeInv, CDCTypeOK
<1>2. floor' >= floor /\ floor' >= last /\ floor' \in {floor, last}
  BY <1>1 DEF StoreFloor
<1>3. Top' = floor' /\ Top \in {floor, last}
  BY DEF Top
<1> QED
  BY <1>1, <1>2, <1>3 DEF ClockEffect, Disturbed, OrderInv, VersionsBelow

\* One version is drawn.
LEMMA ClockAdvances ==
    ASSUME OrderInv, Allocate(Top), lock' # "none", floor' = floor, Disturbed
    PROVE  ClockEffect
<1>1. {now, floor, last} \subseteq Nat /\ Top \in Nat
  BY DEF OrderInv, TypeInv, CDCTypeOK, Top
<1>2. floor <= Top
  BY <1>1 DEF OrderInv, VersionsBelow, Top
<1>3. Top' = last' /\ last' = (IF now + 1 > Top THEN now + 1 ELSE Top + 1) /\ now' = now + 1
  BY DEF Top, Allocate, NextVersion
<1>4. "step" \notin happened => Top <= now /\ floor <= now
  BY DEF OrderInv, VersionsBelow, Top
<1>5. happened \subseteq happened' /\ ~({"loss", "step"} \subseteq happened')
  BY DEF Disturbed
<1> DEFINE t == Top
           u == last'
<1>6. t \in Nat /\ floor <= t /\ Top' = u /\ last' = u /\ ("step" \notin happened => t <= now)
      /\ u = (IF now + 1 > t THEN now + 1 ELSE t + 1)
  BY <1>1, <1>2, <1>3, <1>4
<1> HIDE DEF t, u
<1>7. floor <= u /\ t <= u /\ (t <= now => u <= now + 1)
  BY <1>1, <1>6
<1>8. "step" \notin happened' => now <= now' /\ floor <= now' /\ u <= now'
  BY <1>1, <1>3, <1>4, <1>5, <1>6, <1>7
<1> QED
  BY <1>5, <1>6, <1>7, <1>8 DEF ClockEffect, t

\* An insert lands while the clocks stand still.
LEMMA LandedEffect ==
    ASSUME OrderInv, UNCHANGED <<now, floor, last, lock>>, SrcGrows, Disturbed,
           Inserts' \subseteq Inserts, Pending' \subseteq Pending, LockIsHeld'
    PROVE  Effect
<1>1. now \in Nat /\ Top \in Nat /\ Top' = Top
  BY DEF OrderInv, TypeInv, CDCTypeOK, Top
<1>2. ClockEffect
  BY <1>1 DEF ClockEffect, Disturbed, OrderInv, VersionsBelow
<1> QED
  BY <1>2 DEF Effect, Quiet

\* A drain that ends by an exception.
LEMMA DrainEnds ==
    ASSUME OrderInv, d.pc # "idle", StoreFloor, Abandon, Disturbed
    PROVE  Effect
<1>1. SrcGrows
  BY SameSource DEF OrderInv, Abandon, srcVars
<1>2. d'.pc = "idle" /\ lock' = "none" /\ last' = 0 /\ UNCHANGED <<ch, now, r>>
  BY DEF Abandon, DIdle
<1>3. Pending' \subseteq Pending /\ LockIsHeld' /\ flying' \subseteq flying \cup Pending
  BY <1>2 DEF Abandon, Pending, LockIsHeld, OrderInv
<1>4. Quiet
  BY <1>1, <1>2, <1>3, KeepsInserts DEF Quiet
<1>5. ClockEffect
  BY <1>2, WriterEnds
<1> QED
  BY <1>3, <1>4, <1>5 DEF Effect

\* Every step of the system is quiet or draws a version, and treats the clocks well.
LEMMA StepEffect ==
    ASSUME OrderInv, BothFaults = FALSE, [Next]_vars PROVE Effect
<1> DEFINE Typed == TypeInv /\ LockIsHeld
<1>0. Typed
  BY DEF OrderInv
<1>a. ASSUME UNCHANGED <<d, r, lock>> PROVE Pending' \subseteq Pending /\ LockIsHeld'
  BY <1>a, <1>0 DEF Pending, LockIsHeld
<1>1. ASSUME NEW k \in Keys, Write(k) PROVE Effect
  <2>1. Disturbed /\ SrcGrows
    BY <1>1, <1>0, NoFaultDisturbs, SameSource DEF Write
  <2> QED
    BY <1>1, <1>a, <2>1, Bystander DEF Write, chVars, clockVars
<1>2. ASSUME NEW k \in Keys, Commit(k) PROVE Effect
  <2>1. Disturbed
    BY <1>2, NoFaultDisturbs DEF Commit
  <2>2. SrcGrows
    <3> SUFFICES ASSUME NEW j \in Keys
                 PROVE  src[j].n <= src'[j].n /\ (src'[j].n = src[j].n => src'[j].live = src[j].live)
      BY DEF SrcGrows
    <3>1. src[j].n \in Nat
      BY <1>0 DEF TypeInv, CDCTypeOK
    <3>2. j # k => src'[j] = src[j]
      BY <1>2, <1>0 DEF Commit, TypeInv, CDCTypeOK
    <3>3. src'[k].n = src[k].n + 1
      BY <1>2, <1>0 DEF Commit, TypeInv, CDCTypeOK
    <3> QED
      BY <3>1, <3>2, <3>3
  <2> QED
    BY <1>2, <1>a, <2>1, <2>2, Bystander DEF Commit, chVars, clockVars
<1>3. ASSUME Truncate PROVE Effect
  <2>1. Disturbed
    BY <1>3, FaultDisturbs DEF Truncate
  <2>2. SrcGrows
    <3> SUFFICES ASSUME NEW j \in Keys
                 PROVE  src[j].n <= src'[j].n /\ (src'[j].n = src[j].n => src'[j].live = src[j].live)
      BY DEF SrcGrows
    <3>1. src[j].n \in Nat
      BY <1>0 DEF TypeInv, CDCTypeOK
    <3>2. src'[j] = src[j] \/ src'[j].n = src[j].n + 1
      BY <1>3 DEF Truncate
    <3> QED
      BY <3>1, <3>2
  <2> QED
    BY <1>3, <1>a, <2>1, <2>2, Bystander DEF Truncate, chVars, clockVars
<1>4. ASSUME DisableCapture PROVE Effect
  <2>1. Disturbed /\ SrcGrows
    BY <1>4, <1>0, FaultDisturbs, SameSource DEF DisableCapture
  <2> QED
    BY <1>4, <1>a, <2>1, Bystander DEF DisableCapture, chVars, clockVars
<1>5. ASSUME Resync PROVE Effect
  <2>1. Disturbed /\ SrcGrows
    BY <1>5, <1>0, FaultDisturbs, SameSource DEF Resync, srcVars
  <2> QED
    BY <1>5, <1>a, <2>1, Bystander DEF Resync, chVars, clockVars
<1>6. ASSUME DrainStart PROVE Effect
  <2>1. Disturbed /\ SrcGrows
    BY <1>6, <1>0, NoFaultDisturbs, SameSource DEF DrainStart
  <2>2. d'.pc \in {"batch", "finish"}
    BY <1>6 DEF DrainStart, DIdle
  <2>3. Pending' \subseteq Pending /\ LockIsHeld'
    BY <1>6, <1>0, <2>2 DEF DrainStart, Pending, LockIsHeld
  <2>4. Quiet
    BY <1>6, <2>1, <2>3, KeepsInserts DEF DrainStart, Quiet, chVars
  <2>5. ClockEffect
    <3>1. {now, floor} \subseteq Nat
      BY <1>0 DEF TypeInv, CDCTypeOK
    <3>2. lock = "none" /\ lock' = "drain" /\ last' = floor /\ UNCHANGED <<now, floor>>
      BY <1>6 DEF DrainStart
    <3>3. Top = floor /\ Top' = floor
      BY <3>2 DEF Top
    <3> QED
      BY <2>1, <3>1, <3>2, <3>3 DEF ClockEffect, Disturbed, OrderInv, VersionsBelow
  <2> QED
    BY <2>3, <2>4, <2>5 DEF Effect
<1>7. ASSUME DrainBatch PROVE Effect
  <2>1. Disturbed /\ SrcGrows
    BY <1>7, <1>0, NoFaultDisturbs, SameSource DEF DrainBatch, srcVars
  <2>2. d.pc = "batch" /\ d'.pc \in {"read", "snap", "finish"}
    BY <1>7, <1>0 DEF DrainBatch, TypeInv, DrainRecord
  <2>3. Pending' \subseteq Pending /\ LockIsHeld'
    BY <1>7, <1>0, <2>2 DEF DrainBatch, Pending, LockIsHeld
  <2> QED
    BY <1>7, <2>1, <2>3, Bystander DEF DrainBatch, chVars, clockVars
<1>8. ASSUME DrainRead PROVE Effect
  <2>1. PICK park \in SUBSET Keys, reached \in SUBSET Keys, failed \in BOOLEAN :
          /\ d' = [d EXCEPT !.pc = "apply", !.park = park, !.failed = failed,
                             !.block = BlockOf(reached, NextVersion(last))]
          /\ IF reached = {} THEN UNCHANGED <<last, now>> ELSE Allocate(last)
    BY <1>8, <1>0, ReadChooses
  <2>2. Disturbed /\ SrcGrows
    BY <1>8, <1>0, NoFaultDisturbs, SameSource DEF DrainRead, srcVars
  <2>3. d.pc = "read" /\ d'.pc = "apply" /\ d'.block = BlockOf(reached, NextVersion(last))
    BY <1>8, <1>0, <2>1 DEF DrainRead, TypeInv, DrainRecord
  <2>4. UNCHANGED <<src, ch, flying, lock, r, floor>> /\ lock = "drain" /\ r.pc # "insert"
    BY <1>8, <1>0, <2>3 DEF DrainRead, LockIsHeld, srcVars, chVars
  <2>5. LockIsHeld'
    BY <1>0, <2>3, <2>4 DEF LockIsHeld
  <2>6. Pending = {} /\ Pending' = BlockOf(reached, NextVersion(last))
    BY <2>3, <2>4 DEF Pending
  <2>7. Top = last
    BY <2>4 DEF Top
  <2>8. CASE reached = {}
    <3>1. Pending' \subseteq Pending
      BY <2>6, <2>8 DEF BlockOf
    <3> QED
      BY <2>1, <2>2, <2>4, <2>5, <2>8, <3>1, Bystander
  <2>9. CASE reached # {}
    <3>1. Allocate(Top) /\ lock' # "none"
      BY <2>1, <2>4, <2>7, <2>9
    <3>2. ClockEffect
      BY <2>2, <2>4, <3>1, ClockAdvances
    <3>3. Allocates
      BY <2>4, <2>6, <2>7, <3>1 DEF Allocates, Allocate
    <3> QED
      BY <2>5, <3>2, <3>3 DEF Effect
  <2> QED
    BY <2>8, <2>9
<1>9. ASSUME DrainInsert PROVE Effect
  <2>1. Disturbed /\ SrcGrows
    BY <1>9, <1>0, NoFaultDisturbs, SameSource DEF DrainInsert, srcVars
  <2>2. d.pc = "apply" /\ d'.pc = "settle" /\ UNCHANGED <<lock, r, flying>>
    BY <1>9, <1>0 DEF DrainInsert, TypeInv, DrainRecord
  <2>3. Pending' \subseteq Pending /\ LockIsHeld' /\ d.block \subseteq Pending
    BY <1>0, <2>2 DEF Pending, LockIsHeld
  <2>4. d.block \in SUBSET Row /\ d.block \subseteq Inserts
    BY <1>0, <2>3 DEF TypeInv, DrainRecord, Inserts
  <2>5. Inserts' \subseteq Inserts
    BY <1>0, <1>9, <2>2, <2>3, <2>4, LandsInserts DEF DrainInsert
  <2> QED
    BY <1>9, <2>1, <2>2, <2>3, <2>5, LandedEffect DEF DrainInsert, clockVars
<1>10. ASSUME DrainSettle PROVE Effect
  <2>1. Disturbed /\ SrcGrows
    BY <1>10, <1>0, NoFaultDisturbs, SameSource DEF DrainSettle, srcVars
  <2>2. d.pc = "settle" /\ d'.pc = "delete"
    BY <1>10, <1>0 DEF DrainSettle, TypeInv, DrainRecord
  <2>3. Pending' \subseteq Pending /\ LockIsHeld'
    BY <1>10, <1>0, <2>2 DEF DrainSettle, Pending, LockIsHeld
  <2> QED
    BY <1>10, <2>1, <2>3, Bystander DEF DrainSettle, chVars, clockVars
<1>11. ASSUME DrainDelete PROVE Effect
  <2>1. Disturbed /\ SrcGrows
    BY <1>11, <1>0, NoFaultDisturbs, SameSource DEF DrainDelete
  <2>2. d.pc = "delete" /\ d'.pc \in {"finish", "batch", "snap"}
    BY <1>11, <1>0 DEF DrainDelete, TypeInv, DrainRecord
  <2>3. Pending' \subseteq Pending /\ LockIsHeld'
    BY <1>11, <1>0, <2>2 DEF DrainDelete, Pending, LockIsHeld
  <2> QED
    BY <1>11, <2>1, <2>3, Bystander DEF DrainDelete, chVars, clockVars
<1>12. ASSUME SnapshotRead PROVE Effect
  <2> DEFINE page == PageAfter(snap.cursor)
  <2>1. page \in SUBSET Keys
    BY PageWithin DEF PageAfter
  <2>2. Disturbed /\ SrcGrows
    BY <1>12, <1>0, NoFaultDisturbs, SameSource DEF SnapshotRead, srcVars
  <2>3. d.pc = "snap" /\ d'.pc = "page" /\ d'.block = BlockOf(page, NextVersion(last))
    BY <1>12, <1>0 DEF SnapshotRead, TypeInv, DrainRecord
  <2>4. UNCHANGED <<src, ch, flying, lock, r, floor>> /\ lock = "drain" /\ r.pc # "insert"
    BY <1>12, <1>0, <2>3 DEF SnapshotRead, LockIsHeld, srcVars, chVars
  <2> HIDE DEF page
  <2>5. LockIsHeld'
    BY <1>0, <2>3, <2>4 DEF LockIsHeld
  <2>6. Pending = {} /\ Pending' = BlockOf(page, NextVersion(last))
    BY <2>3, <2>4 DEF Pending
  <2>7. Top = last
    BY <2>4 DEF Top
  <2>8. Allocate(Top) /\ lock' # "none"
    BY <1>12, <2>4, <2>7 DEF SnapshotRead
  <2>9. ClockEffect
    BY <2>2, <2>4, <2>8, ClockAdvances
  <2>10. Allocates
    BY <2>1, <2>4, <2>6, <2>7, <2>8 DEF Allocates, Allocate
  <2> QED
    BY <2>5, <2>9, <2>10 DEF Effect
<1>13. ASSUME SnapshotRefused PROVE Effect
  <2>1. Disturbed /\ d.pc # "idle"
    BY <1>13, NoFaultDisturbs DEF SnapshotRefused
  <2> QED
    BY <1>13, <2>1, DrainEnds DEF SnapshotRefused
<1>14. ASSUME SnapshotInsert PROVE Effect
  <2>1. Disturbed /\ SrcGrows
    BY <1>14, <1>0, NoFaultDisturbs, SameSource DEF SnapshotInsert, srcVars
  <2>2. d.pc = "page" /\ d'.pc = "pageSave" /\ UNCHANGED <<lock, r, flying>>
    BY <1>14, <1>0 DEF SnapshotInsert, TypeInv, DrainRecord
  <2>3. Pending' \subseteq Pending /\ LockIsHeld' /\ d.block \subseteq Pending
    BY <1>0, <2>2 DEF Pending, LockIsHeld
  <2>4. d.block \in SUBSET Row /\ d.block \subseteq Inserts
    BY <1>0, <2>3 DEF TypeInv, DrainRecord, Inserts
  <2>5. Inserts' \subseteq Inserts
    BY <1>0, <1>14, <2>2, <2>3, <2>4, LandsInserts DEF SnapshotInsert
  <2> QED
    BY <1>14, <2>1, <2>2, <2>3, <2>5, LandedEffect DEF SnapshotInsert, clockVars
<1>15. ASSUME SnapshotSave PROVE Effect
  <2>1. Disturbed /\ SrcGrows
    BY <1>15, <1>0, NoFaultDisturbs, SameSource DEF SnapshotSave, srcVars
  <2>2. d.pc = "pageSave" /\ d'.pc \in {"finish", "snap"}
    BY <1>15, <1>0 DEF SnapshotSave, TypeInv, DrainRecord
  <2>3. Pending' \subseteq Pending /\ LockIsHeld'
    BY <1>15, <1>0, <2>2 DEF SnapshotSave, Pending, LockIsHeld
  <2> QED
    BY <1>15, <2>1, <2>3, Bystander DEF SnapshotSave, chVars, clockVars
<1>16. ASSUME DrainFinish PROVE Effect
  <2>1. Disturbed /\ SrcGrows
    BY <1>16, <1>0, NoFaultDisturbs, SameSource DEF DrainFinish, srcVars
  <2>2. d.pc = "finish" /\ d'.pc = "idle"
    BY <1>16 DEF DrainFinish, DIdle
  <2>3. Pending' \subseteq Pending /\ LockIsHeld'
    BY <1>16, <1>0, <2>2 DEF DrainFinish, Pending, LockIsHeld
  <2>4. Quiet
    BY <1>16, <2>1, <2>3, KeepsInserts DEF DrainFinish, Quiet, chVars
  <2>5. ClockEffect
    BY <1>16, <2>1, WriterEnds DEF DrainFinish
  <2> QED
    BY <2>3, <2>4, <2>5 DEF Effect
<1>17. ASSUME DrainFail PROVE Effect
  <2>1. Disturbed /\ d.pc # "idle"
    BY <1>17, FaultDisturbs DEF DrainFail
  <2> QED
    BY <1>17, <2>1, DrainEnds DEF DrainFail
<1>18. ASSUME ReconcileStart PROVE Effect
  <2>1. Disturbed /\ SrcGrows
    BY <1>18, <1>0, NoFaultDisturbs, SameSource DEF ReconcileStart
  <2>2. r.pc = "idle" /\ r'.pc \in {"idle", "read"}
    BY <1>18 DEF ReconcileStart, RIdle
  <2>3. Pending' \subseteq Pending /\ LockIsHeld'
    BY <1>18, <1>0, <2>2 DEF ReconcileStart, Pending, LockIsHeld
  <2> QED
    BY <1>18, <2>1, <2>3, Bystander DEF ReconcileStart, chVars, clockVars
<1>19. ASSUME SweepRead PROVE Effect
  <2>1. Disturbed /\ SrcGrows
    BY <1>19, <1>0, NoFaultDisturbs, SameSource DEF SweepRead, srcVars
  <2>2. r.pc = "read" /\ r'.pc \in {"read", "end", "compare"}
    BY <1>19, <1>0 DEF SweepRead, Advance, RIdle, TypeInv, SweepRecord
  <2>3. Pending' \subseteq Pending /\ LockIsHeld'
    BY <1>19, <1>0, <2>2 DEF SweepRead, Pending, LockIsHeld
  <2> QED
    BY <1>19, <2>1, <2>3, Bystander DEF SweepRead, chVars, clockVars
<1>20. ASSUME SweepCompare PROVE Effect
  <2>1. Disturbed /\ SrcGrows
    BY <1>20, <1>0, NoFaultDisturbs, SameSource DEF SweepCompare, srcVars
  <2>2. r.pc = "compare" /\ r'.pc \in {"read", "end", "repair"}
    BY <1>20, <1>0 DEF SweepCompare, Advance, RIdle, TypeInv, SweepRecord
  <2>3. Pending' \subseteq Pending /\ LockIsHeld'
    BY <1>20, <1>0, <2>2 DEF SweepCompare, Pending, LockIsHeld
  <2> QED
    BY <1>20, <2>1, <2>3, Bystander DEF SweepCompare, chVars, clockVars
<1>21. ASSUME SweepRepair PROVE Effect
  <2>1. Disturbed /\ SrcGrows
    BY <1>21, <1>0, NoFaultDisturbs, SameSource DEF SweepRepair, srcVars
  <2>2. r.pc = "repair" /\ lock = "none" /\ d.pc = "idle" /\ UNCHANGED <<src, ch, flying, d, floor>>
    BY <1>21, <1>0 DEF SweepRepair, LockIsHeld, srcVars, chVars
  <2>3. CASE r' = RIdle /\ UNCHANGED <<lock, last, now>>
    <3>1. Pending' \subseteq Pending /\ LockIsHeld'
      BY <1>0, <2>2, <2>3 DEF RIdle, Pending, LockIsHeld
    <3> QED
      BY <2>1, <2>2, <2>3, <3>1, Bystander
  <2>4. CASE ~(r' = RIdle /\ UNCHANGED <<lock, last, now>>)
    <3>1. lock' = "reconcile" /\ Allocate(floor)
          /\ r' = [r EXCEPT !.pc = "insert", !.block = BlockOf(r.keys, NextVersion(floor))]
      BY <1>21, <2>4 DEF SweepRepair
    <3>2. r'.pc = "insert" /\ r'.block = BlockOf(r.keys, NextVersion(floor)) /\ r.keys \in SUBSET Keys
      BY <3>1, <1>0 DEF TypeInv, SweepRecord
    <3>3. Top = floor
      BY <2>2 DEF Top
    <3>4. LockIsHeld'
      BY <1>0, <2>2, <3>1, <3>2 DEF LockIsHeld
    <3>5. Pending = {} /\ Pending' = BlockOf(r.keys, NextVersion(Top))
      BY <2>2, <3>2, <3>3 DEF Pending
    <3>6. ClockEffect
      BY <2>1, <2>2, <3>1, <3>3, ClockAdvances
    <3>7. Allocates
      BY <2>2, <3>1, <3>2, <3>3, <3>5 DEF Allocates, Allocate
    <3> QED
      BY <3>4, <3>6, <3>7 DEF Effect
  <2> QED
    BY <2>3, <2>4
<1>22. ASSUME SweepInsert PROVE Effect
  <2>1. Disturbed /\ SrcGrows
    BY <1>22, <1>0, NoFaultDisturbs, SameSource DEF SweepInsert, srcVars
  <2>2. r.pc = "insert" /\ r'.pc = "release" /\ UNCHANGED <<lock, d, flying>>
    BY <1>22, <1>0 DEF SweepInsert, TypeInv, SweepRecord
  <2>3. Pending' \subseteq Pending /\ LockIsHeld' /\ r.block \subseteq Pending
    BY <1>0, <2>2 DEF Pending, LockIsHeld
  <2>4. r.block \in SUBSET Row /\ r.block \subseteq Inserts
    BY <1>0, <2>3 DEF TypeInv, SweepRecord, Inserts
  <2>5. Inserts' \subseteq Inserts
    BY <1>0, <1>22, <2>2, <2>3, <2>4, LandsInserts DEF SweepInsert
  <2> QED
    BY <1>22, <2>1, <2>2, <2>3, <2>5, LandedEffect DEF SweepInsert, clockVars
<1>23. ASSUME SweepRelease PROVE Effect
  <2>1. Disturbed /\ SrcGrows
    BY <1>23, <1>0, NoFaultDisturbs, SameSource DEF SweepRelease, srcVars
  <2>2. r.pc = "release" /\ r'.pc \in {"read", "end"}
    BY <1>23 DEF SweepRelease, Advance, RIdle
  <2>3. Pending' \subseteq Pending /\ LockIsHeld'
    BY <1>23, <1>0, <2>2 DEF SweepRelease, Pending, LockIsHeld
  <2>4. Quiet
    BY <1>23, <2>1, <2>3, KeepsInserts DEF SweepRelease, Quiet, chVars
  <2>5. ClockEffect
    BY <1>23, <2>1, WriterEnds DEF SweepRelease
  <2> QED
    BY <2>3, <2>4, <2>5 DEF Effect
<1>24. ASSUME ReconcileEnd PROVE Effect
  <2>1. Disturbed /\ SrcGrows
    BY <1>24, <1>0, NoFaultDisturbs, SameSource DEF ReconcileEnd, srcVars
  <2>2. r.pc = "end" /\ r'.pc = "idle"
    BY <1>24 DEF ReconcileEnd, RIdle
  <2>3. Pending' \subseteq Pending /\ LockIsHeld'
    BY <1>24, <1>0, <2>2 DEF ReconcileEnd, Pending, LockIsHeld
  <2> QED
    BY <1>24, <2>1, <2>3, Bystander DEF ReconcileEnd, chVars, clockVars
<1>25. ASSUME ReconcileFail PROVE Effect
  <2>1. Disturbed /\ SrcGrows
    BY <1>25, <1>0, FaultDisturbs, SameSource DEF ReconcileFail, srcVars
  <2>2. r.pc # "idle" /\ r'.pc = "idle" /\ UNCHANGED <<d, ch, now>>
    BY <1>25 DEF ReconcileFail, RIdle
  <2>3. CASE r.pc \in {"insert", "release"}
    <3>1. StoreFloor /\ lock' = "none" /\ last' = 0
      BY <1>25, <2>3 DEF ReconcileFail
    <3>2. Pending' \subseteq Pending /\ LockIsHeld' /\ flying' \subseteq flying \cup Pending
      BY <1>25, <1>0, <2>2, <2>3, <3>1 DEF ReconcileFail, Pending, LockIsHeld
    <3>3. Quiet
      BY <2>1, <2>2, <3>2, KeepsInserts DEF Quiet
    <3>4. ClockEffect
      BY <2>1, <2>2, <3>1, WriterEnds
    <3> QED
      BY <3>2, <3>3, <3>4 DEF Effect
  <2>4. CASE r.pc \notin {"insert", "release"}
    <3>1. UNCHANGED <<floor, lock, last, flying>>
      BY <1>25, <2>4 DEF ReconcileFail
    <3>2. Pending' \subseteq Pending /\ LockIsHeld'
      BY <1>0, <2>2, <2>4, <3>1 DEF Pending, LockIsHeld
    <3> QED
      BY <2>1, <2>2, <3>1, <3>2, Bystander
  <2> QED
    BY <2>3, <2>4
<1>26. ASSUME Install PROVE Effect
  <2>1. Disturbed /\ SrcGrows
    BY <1>26, <1>0, FaultDisturbs, SameSource DEF Install
  <2>2. lock = "none" /\ lock' = "drain" /\ UNCHANGED <<r, ch, flying, now, floor>>
    BY <1>26 DEF Install, chVars
  <2>3. d'.pc \in {"finish", "snap"}
    BY <1>26 DEF Install, DIdle
  <2>4. Pending' \subseteq Pending /\ LockIsHeld'
    BY <1>0, <2>2, <2>3 DEF Pending, LockIsHeld
  <2>5. Quiet
    BY <2>1, <2>2, <2>4, KeepsInserts DEF Quiet
  <2>6. last' \in {floor} \cup {ch[k].ver : k \in Keys} /\ last' >= floor
    BY <1>26, <1>0, InstallClock DEF TypeInv
  <2>7. Top = floor /\ Top' = last' /\ {now, floor} \subseteq Nat /\ last' \in Nat
    BY <1>0, <2>2, <2>6 DEF Top, TypeInv, CDCTypeOK
  <2>8. "step" \notin happened => last' <= now
    <3> SUFFICES ASSUME "step" \notin happened PROVE last' <= now
      OBVIOUS
    <3>1. floor <= now /\ AllBelow(Inserts, now)
      BY DEF OrderInv, VersionsBelow
    <3>2. \A k \in Keys : ch[k].ver <= now
      <4> SUFFICES ASSUME NEW k \in Keys PROVE ch[k].ver <= now
        OBVIOUS
      <4>1. Shown(k) \in Inserts /\ Shown(k).ver = ch[k].ver
        BY DEF Inserts, Shown
      <4> QED
        BY <3>1, <4>1 DEF AllBelow
    <3> QED
      BY <2>6, <3>1, <3>2
  <2>9. ClockEffect
    BY <2>1, <2>2, <2>6, <2>7, <2>8 DEF ClockEffect, Disturbed, OrderInv, VersionsBelow
  <2> QED
    BY <2>4, <2>5, <2>9 DEF Effect
<1>27. ASSUME DayPasses PROVE Effect
  <2>1. Disturbed /\ SrcGrows
    BY <1>27, <1>0, FaultDisturbs, SameSource DEF DayPasses, srcVars
  <2> QED
    BY <1>27, <1>a, <2>1, Bystander DEF DayPasses, chVars, clockVars
<1>28. ASSUME HourPasses PROVE Effect
  <2>1. Disturbed /\ SrcGrows
    BY <1>28, <1>0, NoFaultDisturbs, SameSource DEF HourPasses, srcVars
  <2> QED
    BY <1>28, <1>a, <2>1, Bystander DEF HourPasses, chVars, clockVars
<1>29. ASSUME LandLate PROVE Effect
  <2>1. Disturbed /\ SrcGrows
    BY <1>29, <1>0, NoFaultDisturbs, SameSource DEF LandLate, srcVars
  <2>2. PICK x \in flying : ch' = Landed(ch, {x}, TRUE) /\ flying' = flying \ {x}
    BY <1>29 DEF LandLate
  <2>3. UNCHANGED <<d, r, lock, now, floor, last>>
    BY <1>29 DEF LandLate, clockVars
  <2>4. Pending' \subseteq Pending /\ LockIsHeld'
    BY <2>3, <1>a
  <2>5. {x} \in SUBSET Row /\ {x} \subseteq Inserts
    BY <1>0 DEF TypeInv, CDCTypeOK, Inserts
  <2>6. Inserts' \subseteq Inserts
    BY <1>0, <2>2, <2>4, <2>5, LandsInserts
  <2> QED
    BY <2>1, <2>3, <2>4, <2>6, LandedEffect
<1>30. ASSUME SessionLost PROVE Effect
  <2>1. Disturbed /\ SrcGrows
    BY <1>30, <1>0, FaultDisturbs, SameSource DEF SessionLost, srcVars
  <2>2. UNCHANGED <<ch, now, floor>> /\ lock # "none" /\ lock' = "none" /\ last' = 0
        /\ "loss" \in happened'
    BY <1>30 DEF SessionLost, Fault
  <2>3. Pending' \subseteq Pending /\ LockIsHeld' /\ flying' \subseteq flying \cup Pending
    <3>1. CASE lock = "drain"
      BY <1>30, <1>0, <2>2, <3>1 DEF SessionLost, Pending, LockIsHeld, DIdle
    <3>2. CASE lock # "drain"
      BY <1>30, <1>0, <2>2, <3>2 DEF SessionLost, Pending, LockIsHeld, RIdle, TypeInv, CDCTypeOK
    <3> QED
      BY <3>1, <3>2
  <2>4. Quiet
    BY <2>1, <2>2, <2>3, KeepsInserts DEF Quiet
  <2>5. now \in Nat
    BY <1>0 DEF TypeInv, CDCTypeOK
  <2>6. ClockEffect
    BY <2>1, <2>2, <2>5 DEF ClockEffect, Disturbed, OrderInv, VersionsBelow
  <2> QED
    BY <2>3, <2>4, <2>6 DEF Effect
<1>31. ASSUME ClockStepsBack PROVE Effect
  <2>1. Disturbed /\ SrcGrows
    BY <1>31, <1>0, FaultDisturbs, SameSource DEF ClockStepsBack, srcVars
  <2>2. UNCHANGED <<ch, flying, floor, last, lock, d, r>> /\ "step" \in happened'
    BY <1>31 DEF ClockStepsBack, Fault, chVars
  <2>3. Pending' \subseteq Pending /\ LockIsHeld'
    BY <2>2, <1>a
  <2>4. Quiet
    BY <2>1, <2>2, <2>3, KeepsInserts DEF Quiet
  <2>5. Top' = Top /\ Top \in Nat
    BY <1>0, <2>2 DEF Top, TypeInv, CDCTypeOK
  <2>6. ClockEffect
    BY <2>1, <2>2, <2>5 DEF ClockEffect, Disturbed, OrderInv, VersionsBelow
  <2> QED
    BY <2>3, <2>4, <2>6 DEF Effect
<1>32. ASSUME UNCHANGED vars PROVE Effect
  <2>1. Disturbed /\ SrcGrows
    BY <1>32, <1>0, NoFaultDisturbs, SameSource DEF vars, srcVars
  <2> QED
    BY <1>32, <1>a, <2>1, Bystander DEF vars, chVars, clockVars
<1> QED
  BY <1>1, <1>2, <1>3, <1>4, <1>5, <1>6, <1>7, <1>8, <1>9, <1>10, <1>11, <1>12, <1>13,
     <1>14, <1>15, <1>16, <1>17, <1>18, <1>19, <1>20, <1>21, <1>22, <1>23, <1>24, <1>25,
     <1>26, <1>27, <1>28, <1>29, <1>30, <1>31, <1>32 DEF Next, DrainStep, SweepStep

\* The order holds in the first state, where nothing has been inserted.
LEMMA OrderInit == Init => OrderInv
<1> SUFFICES ASSUME Init PROVE OrderInv
  OBVIOUS
<1>1. TypeInv
  BY TypeInit
<1>2. Pending = {} /\ d.pc = "idle" /\ r.pc = "idle" /\ flying = {}
  BY DEF Init, Pending, DIdle, RIdle
<1>3. LockIsHeld
  BY <1>2 DEF Init, LockIsHeld
<1>4. \A x \in Inserts : x.key \in Keys /\ x.ver = 0 /\ x.n = 0 /\ x.live = FALSE
  BY <1>2 DEF Inserts, Shown, Init
<1>5. Ordered /\ PendingNewest
  BY <1>2, <1>4 DEF Ordered, PendingNewest
<1>6. FromSource
  <2>1. \A k \in Keys : src[k].n >= 0 /\ (src[k].n = 0 => src[k].live = FALSE)
    BY DEF Init
  <2> QED
    BY <1>4, <2>1 DEF FromSource
<1>7. VersionsBelow
  BY <1>4 DEF VersionsBelow, AllBelow, Init, Top
<1> QED
  BY <1>1, <1>3, <1>5, <1>6, <1>7 DEF OrderInv

\* Every step keeps the order.
LEMMA OrderStep ==
    ASSUME OrderInv, BothFaults = FALSE, [Next]_vars PROVE OrderInv'
<1>1. TypeInv'
  BY TypeStep DEF OrderInv
<1>2. Effect
  BY StepEffect
<1> QED
  BY <1>1, <1>2, QuietKeeps, AllocationKeeps DEF Effect

\* An insert that lands shows no older state.
LEMMA LandingAdvances ==
    ASSUME OrderInv, NEW rows, rows \subseteq Inserts, NEW late, ch' = Landed(ch, rows, late)
    PROVE  \A k \in Keys : ch'[k].n >= ch[k].n
<1> SUFFICES ASSUME NEW k \in Keys PROVE ch'[k].n >= ch[k].n
  OBVIOUS
<1>1. ch[k].n \in Nat
  BY DEF OrderInv, TypeInv, CDCTypeOK
<1>2. CASE ch'[k] = ch[k]
  BY <1>1, <1>2
<1>3. CASE ch'[k] # ch[k]
  <2>1. PICK x \in rows : /\ x.key = k /\ x.ver >= ch[k].ver
                          /\ ch'[k] = [ver |-> x.ver, n |-> x.n, live |-> x.live, late |-> late]
    BY <1>3, LandedCases
  <2>2. x \in Inserts /\ x \in Row /\ Shown(k) \in Inserts
    BY InsertTypes DEF OrderInv, Inserts
  <2>3. Shown(k).key = x.key /\ Shown(k).ver <= x.ver
    BY <2>1, <2>2, <1>1 DEF Shown, Row, OrderInv, TypeInv, CDCTypeOK
  <2>4. Shown(k).n <= x.n
    BY <2>2, <2>3 DEF OrderInv, Ordered
  <2> QED
    BY <1>1, <2>1, <2>2, <2>4 DEF Shown, Row
<1> QED
  BY <1>2, <1>3

\* The steps at which ClickHouse changes.
LEMMA LandingSteps ==
    ASSUME TypeInv, [Next]_vars
    PROVE  \/ ch' = ch
           \/ \E rows, late : rows \subseteq Inserts /\ ch' = Landed(ch, rows, late)
<1>1. CASE DrainInsert
  BY <1>1 DEF DrainInsert, Inserts, Pending
<1>2. CASE SnapshotInsert
  BY <1>2 DEF SnapshotInsert, Inserts, Pending
<1>3. CASE SweepInsert
  BY <1>3 DEF SweepInsert, Inserts, Pending
<1>4. CASE LandLate
  <2>1. PICK x \in flying : ch' = Landed(ch, {x}, TRUE)
    BY <1>4 DEF LandLate
  <2> QED
    BY <2>1 DEF Inserts
<1>5. CASE ~(DrainInsert \/ SnapshotInsert \/ SweepInsert \/ LandLate)
  <2>1. ASSUME NEW k \in Keys, Write(k) \/ Commit(k) PROVE ch' = ch
    BY <2>1 DEF Write, Commit, chVars
  <2>2. CASE DrainStep
    BY <1>5, <2>2 DEF DrainStep, DrainStart, DrainBatch, DrainRead, DrainSettle, DrainDelete,
       SnapshotRead, SnapshotRefused, Abandon, SnapshotSave, DrainFinish, chVars
  <2>3. CASE SweepStep
    BY <1>5, <2>3 DEF SweepStep, SweepRead, SweepCompare, SweepRepair, SweepRelease,
       ReconcileEnd, chVars
  <2>4. CASE Truncate \/ DisableCapture \/ Resync \/ DrainFail \/ ReconcileStart \/ ReconcileFail
    BY <2>4 DEF Truncate, DisableCapture, Resync, DrainFail, Abandon, ReconcileStart,
       ReconcileFail, chVars
  <2>5. CASE Install \/ DayPasses \/ HourPasses \/ SessionLost \/ ClockStepsBack
    BY <2>5 DEF Install, DayPasses, HourPasses, SessionLost, ClockStepsBack, chVars
  <2>6. CASE UNCHANGED vars
    BY <2>6 DEF vars, chVars
  <2> QED
    BY <1>5, <2>1, <2>2, <2>3, <2>4, <2>5, <2>6 DEF Next
<1> QED
  BY <1>1, <1>2, <1>3, <1>4, <1>5

\* Every variable keeps its type, the cursors stay keys of the table and the attempts
\* within DEADLETTER_RETRIES, whatever fails.
THEOREM CaptureIsWellFormed == Safety => []CDCTypeOK
<1>1. TypeInv => CDCTypeOK
  BY DEF TypeInv
<1> QED
  BY TypeInit, TypeStep, <1>1, PTL DEF Safety

\* The order of the versions is the order of the states, for all inserts at once.
THEOREM VersionsFollowStates ==
    ASSUME BothFaults = FALSE PROVE Safety => []OrderInv
<1>1. OrderInv /\ [Next]_vars => OrderInv'
  BY OrderStep
<1> QED
  BY OrderInit, <1>1, PTL DEF Safety

\* Readers never go back, whoever inserts, whatever lands late, as long as no behaviour
\* has both a lost session and a clock step.
THEOREM NoOlderRow ==
    ASSUME BothFaults = FALSE PROVE Safety => ReadersNeverGoBack
<1>1. OrderInv /\ [Next]_vars => OrderInv'
  BY OrderStep
<1>2. OrderInv /\ [Next]_vars => [\A k \in Keys : ch'[k].n >= ch[k].n]_vars
  <2> SUFFICES ASSUME OrderInv, [Next]_vars PROVE \A k \in Keys : ch'[k].n >= ch[k].n
    OBVIOUS
  <2>1. \A k \in Keys : ch[k].n \in Nat
    BY DEF OrderInv, TypeInv, CDCTypeOK
  <2>2. CASE ch' = ch
    BY <2>1, <2>2
  <2>3. CASE ch' # ch
    <3>1. PICK rows, late : rows \subseteq Inserts /\ ch' = Landed(ch, rows, late)
      BY <2>3, LandingSteps DEF OrderInv
    <3> QED
      BY <3>1, LandingAdvances
  <2> QED
    BY <2>2, <2>3
<1> QED
  BY OrderInit, <1>1, <1>2, PTL DEF Safety, ReadersNeverGoBack

-----------------------------------------------------------------------------
(* What is owed                                                            *)

\* The outbox without the rows that the drain has settled and is about to delete.
Kept == outbox \ (IF d.pc = "delete" THEN DoneRows(d.rows, d.failed) ELSE {})

\* The outbox rows that the batch in progress has not read.
Fresh == outbox \ d.rows

\* Some of the outbox rows will have key k read again: its own, or that of a TRUNCATE which
\* asks for a sweep when the row is gone. (s is the table.)
Named(rows, s, k) == \E x \in rows : x.key = k \/ (x.key = 0 /\ ~s[k].live)

\* The block inserts a row or a tombstone of key k.
InBlock(k, block) == \E x \in block : x.key = k

\* Outbox rows have drawn their sequence values, an open transaction has a value of its
\* own unless capture is off, and a batch is part of the outbox.
SeqInv ==
    /\ nextSeq >= 1
    /\ \A x \in outbox : x.seq < nextSeq
    /\ d.rows \subseteq outbox
    /\ \A k \in Keys : open[k].busy =>
         IF open[k].seq = 0 THEN ~armed
         ELSE open[k].seq < nextSeq /\ [seq |-> open[k].seq, key |-> k] \notin outbox

\* Key k is on a later page of the sweep.
Beyond(k) == Cardinality(r.ids) = Chunk /\ k > Max(r.ids)

\* The first pass of a sweep has still to repair key k, precisely: once the page of k is
\* compared only the keys that differ are left, once they are inserted none.
Ahead(k) ==
    \/ r.pc = "idle"
    \/ /\ r.pass = "A"
       /\ \/ r.pc = "read" /\ k > r.after
          \/ r.pc = "compare" /\ (k \in r.ids \/ Beyond(k))
          \/ r.pc \in {"repair", "insert"} /\ (k \in r.keys \/ Beyond(k))
          \/ r.pc = "release" /\ Beyond(k)

\* A requested sweep will still repair key k.
AskedFor(k) == request = "new" \/ (request = "seen" /\ Ahead(k))

\* A live row that ClickHouse does not show is owed by the outbox, a dead letter, the
\* restart of capture or the rest of the snapshot; no sweep and no late insert is needed.
LiveOwed(k) == src[k].live =>
    \/ Mirrored(k) \/ Named(Kept, src, k) \/ dead[k] > 0 \/ ~armed
    \/ ~snap.done /\ k > snap.cursor

\* A row that ClickHouse still shows is owed by one of the same, or by a sweep.
GoneOwed(k) == ~src[k].live /\ ch[k].live =>
    \/ Named(Kept, src, k) \/ dead[k] > 0 \/ ~armed \/ ~snap.done
    \/ AskedFor(k) \/ ch[k].late

\* An insert in progress carries the committed row unless the row changed since and its
\* change is in the outbox.
BlockFresh == \A x \in Pending : x.n = src[x.key].n \/ Named(Fresh, src, x.key) \/ ~armed

\* Nothing remains to be done for key k but what came after the batch was read.
UpToDate(k) == Mirrored(k) \/ (~src[k].live /\ ch[k].late) \/ Named(Fresh, src, k) \/ ~armed

\* The keys of a batch that did not fail are parked, or in its block, or inserted.
Applied ==
    d.pc \in {"apply", "settle"} /\ ~d.failed => \A k \in KeysOf(d.rows) \ d.park :
        IF d.pc = "apply" THEN InBlock(k, d.block) ELSE UpToDate(k)

\* The snapshot has copied, or is copying, all rows up to its new cursor.
Paged ==
    d.pc \in {"page", "pageSave"} => \A k \in Keys :
        src[k].live /\ (k <= d.cursor \/ d.done) =>
          \/ Mirrored(k) \/ Named(outbox, src, k) \/ dead[k] > 0 \/ ~armed
          \/ d.pc = "page" /\ InBlock(k, d.block)

\* The page of a sweep lies after its cursor; what it repairs is in the block.
Swept ==
    /\ r.pc \in {"compare", "repair", "insert", "release"} => \A i \in r.ids : i > r.after
    /\ r.pc \in {"repair", "insert", "release"} => r.keys \subseteq r.ids
    /\ r.pc = "insert" => \A k \in r.keys : InBlock(k, r.block)

\* Whatever ClickHouse does not show as committed is owed.
AllOwed == \A k \in Keys : LiveOwed(k) /\ GoneOwed(k)

\* No change is forgotten, by the drain, the snapshot and the sweep in progress included.
DebtInv == OrderInv /\ SeqInv /\ AllOwed /\ BlockFresh /\ Applied /\ Paged /\ Swept

-----------------------------------------------------------------------------
(* What a step does to what is owed                                        *)

\* Rows of the outbox are only added, and a key whose row changes gets one that is new,
\* unless capture is off.
Recorded ==
    /\ outbox \subseteq outbox'
    /\ \A k \in Keys : src'[k] = src[k] \/ Named(outbox' \ outbox, src', k) \/ ~armed'

\* Capture is only resumed with a new snapshot.
Resumed ==
    /\ armed' => armed \/ snap' = [cursor |-> 0, done |-> FALSE]
    /\ snap' = snap \/ snap' = [cursor |-> 0, done |-> FALSE]

\* What a sweep was asked for and has not repaired it is still asked for.
StillAsked == \A k \in Keys : AskedFor(k) /\ ~src'[k].live /\ ch'[k].live => AskedFor(k)'

\* More rows name more keys.
LEMMA NamedSub ==
    ASSUME NEW k, NEW s, NEW R, NEW S, R \subseteq S, Named(R, s, k)
    PROVE  Named(S, s, k)
BY DEF Named

\* The rows that a batch has not read outlive it.
LEMMA FreshIsKept == Fresh \subseteq Kept /\ Fresh \subseteq outbox /\ Kept \subseteq outbox
BY DEF Fresh, Kept, DoneRows

\* A step that changes no row of ClickHouse and no dead letter keeps what is owed.
LEMMA OwedKeeps ==
    ASSUME AllOwed, ch' = ch, dead' = dead, Kept \subseteq Kept', Resumed, StillAsked,
           \A k \in Keys : src'[k] = src[k] \/ Named(Kept', src', k) \/ ~armed'
    PROVE  AllOwed'
<1>a. \A k : Named(Kept, src, k)' <=> Named(Kept', src', k)
  BY DEF Named
<1> SUFFICES ASSUME NEW k \in Keys PROVE LiveOwed(k)' /\ GoneOwed(k)'
  BY DEF AllOwed
<1>1. LiveOwed(k) /\ GoneOwed(k)
  BY DEF AllOwed
<1>2. k > 0
  BY SizesAssumption DEF Keys
<1>3. CASE Named(Kept, src, k)' \/ ~armed'
  BY <1>3 DEF LiveOwed, GoneOwed
<1>4. CASE ~Named(Kept, src, k)' /\ armed' /\ ~armed
  BY <1>2, <1>4 DEF LiveOwed, GoneOwed, Resumed
<1>5. CASE ~Named(Kept, src, k)' /\ armed' /\ armed
  <2>1. src'[k] = src[k]
    BY <1>5, <1>a
  <2>2. ~Named(Kept, src, k)
    BY <1>5, <1>a, <2>1 DEF Named
  <2>3. Mirrored(k) => Mirrored(k)'
    BY <2>1 DEF Mirrored
  <2>4. ~snap.done => ~snap'.done /\ (k > snap.cursor => k > snap'.cursor)
    BY <1>2 DEF Resumed
  <2>5. AskedFor(k) /\ ~src[k].live /\ ch[k].live => AskedFor(k)'
    BY <2>1 DEF StillAsked
  <2>6. LiveOwed(k)'
    BY <1>1, <1>5, <2>1, <2>2, <2>3, <2>4 DEF LiveOwed
  <2>7. GoneOwed(k)'
    BY <1>1, <1>5, <2>1, <2>2, <2>4, <2>5 DEF GoneOwed
  <2> QED
    BY <2>6, <2>7
<1> QED
  BY <1>3, <1>4, <1>5

\* The drain is between two pieces of work.
Away == d.pc \notin {"apply", "settle", "delete", "page", "pageSave"} /\ Pending = {}

\* A step that inserts nothing keeps every part of the invariant.
LEMMA DebtKeeps ==
    ASSUME DebtInv, ch' = ch, dead' = dead, Recorded, Resumed, StillAsked, Swept',
           Away' \/ (d' = d /\ (armed' => armed)),
           \A x \in Pending' : x \in Pending \/ x.n = src'[x.key].n
    PROVE  AllOwed' /\ BlockFresh' /\ Applied' /\ Paged'
<1>1. d.rows \subseteq outbox /\ outbox \subseteq outbox'
  BY DEF DebtInv, SeqInv, Recorded
<1>2. Kept \subseteq Kept' /\ outbox' \ outbox \subseteq Kept'
  <2>1. CASE Away'
    BY <1>1, <2>1 DEF Away, Kept
  <2>2. CASE d' = d
    BY <1>1, <2>2 DEF Kept, DoneRows
  <2> QED
    BY <2>1, <2>2
<1>3. ASSUME NEW k \in Keys
      PROVE  src'[k] = src[k] \/ Named(outbox' \ outbox, src', k) \/ ~armed'
  BY DEF Recorded
<1>4. AllOwed'
  <2>1. \A k \in Keys : src'[k] = src[k] \/ Named(Kept', src', k) \/ ~armed'
    BY <1>2, <1>3, NamedSub
  <2> QED
    BY <1>2, <2>1, OwedKeeps DEF DebtInv
<1>5. CASE Away'
  BY <1>4, <1>5 DEF Away, BlockFresh, Applied, Paged
<1>6. CASE d' = d /\ (armed' => armed)
  <2>1. Fresh \subseteq Fresh' /\ outbox' \ outbox \subseteq Fresh'
    BY <1>1, <1>6 DEF Fresh
  <2>a. \A k : /\ Named(Fresh, src, k)' <=> Named(Fresh', src', k)
               /\ Named(outbox, src, k)' <=> Named(outbox', src', k)
    BY DEF Named
  <2>2. ASSUME NEW k \in Keys, Named(outbox' \ outbox, src', k)
        PROVE  Named(Fresh, src, k)' /\ Named(outbox, src, k)'
    BY <2>1, <2>2, <2>a, NamedSub
  <2>3. ASSUME NEW k \in Keys, src'[k] = src[k]
        PROVE  /\ Named(Fresh, src, k) => Named(Fresh, src, k)'
               /\ Named(outbox, src, k) => Named(outbox, src, k)'
               /\ Mirrored(k) => Mirrored(k)'
    BY <1>1, <2>1, <2>3, <2>a DEF Named, Mirrored
  <2>4. BlockFresh'
    <3> SUFFICES ASSUME NEW x \in Pending', x \in Pending
                 PROVE  x.n = src'[x.key].n \/ Named(Fresh, src, x.key)' \/ ~armed'
      BY <2>a DEF BlockFresh
    <3>1. x.key \in Keys
      BY InsertTypes DEF DebtInv, OrderInv, Row
    <3>2. x.n = src[x.key].n \/ Named(Fresh, src, x.key) \/ ~armed
      BY DEF DebtInv, BlockFresh
    <3>3. CASE src'[x.key] = src[x.key]
      BY <1>6, <3>1, <3>2, <3>3, <2>3
    <3>4. CASE src'[x.key] # src[x.key]
      BY <1>3, <2>2, <3>1, <3>4
    <3> QED
      BY <3>3, <3>4
  <2>5. Applied'
    <3> SUFFICES ASSUME d.pc \in {"apply", "settle"}, ~d.failed, NEW k \in KeysOf(d.rows) \ d.park
                 PROVE  IF d.pc = "apply" THEN InBlock(k, d.block) ELSE UpToDate(k)'
      BY <1>6 DEF Applied, InBlock
    <3>1. k \in Keys
      BY KeysOfType DEF DebtInv, OrderInv, TypeInv, DrainRecord
    <3>2. IF d.pc = "apply" THEN InBlock(k, d.block) ELSE UpToDate(k)
      BY DEF DebtInv, Applied
    <3>3. CASE src'[k] = src[k]
      BY <1>6, <3>1, <3>2, <3>3, <2>3 DEF UpToDate
    <3>4. CASE src'[k] # src[k]
      BY <1>3, <2>2, <3>1, <3>2, <3>4 DEF UpToDate
    <3> QED
      BY <3>3, <3>4
  <2>6. Paged'
    <3> SUFFICES ASSUME d.pc \in {"page", "pageSave"}, NEW k \in Keys, src'[k].live,
                        k <= d.cursor \/ d.done
                 PROVE  \/ Mirrored(k)' \/ Named(outbox, src, k)' \/ dead[k] > 0 \/ ~armed'
                        \/ d.pc = "page" /\ InBlock(k, d.block)
      BY <1>6 DEF Paged, InBlock
    <3>1. CASE src'[k] = src[k]
      BY <1>6, <3>1, <2>3 DEF DebtInv, Paged
    <3>2. CASE src'[k] # src[k]
      BY <1>3, <2>2, <3>2
    <3> QED
      BY <3>1, <3>2
  <2> QED
    BY <1>4, <2>4, <2>5, <2>6
<1> QED
  BY <1>5, <1>6

\* What the insert of a block does to a key: nothing, or it shows the committed row
\* unless a newer change is recorded.
LEMMA BlockLands ==
    ASSUME DebtInv, NEW rows, rows \subseteq Pending, NEW late, ch' = Landed(ch, rows, late),
           src' = src, NEW k \in Keys
    PROVE  \/ ch'[k] = ch[k] /\ ~InBlock(k, rows)
           \/ InBlock(k, rows) /\ (Mirrored(k)' \/ Named(Fresh, src, k) \/ ~armed)
<1>1. CASE ~InBlock(k, rows)
  <2>1. \A x \in rows : x.key # k
    BY <1>1 DEF InBlock
  <2>2. ch'[k] = ch[k]
    BY <2>1, LandedAway
  <2> QED
    BY <1>1, <2>2
<1>2. CASE InBlock(k, rows)
  <2>1. PICK x \in rows : /\ x.key = k
                          /\ ch'[k] = IF x.ver >= ch[k].ver
                                      THEN [ver |-> x.ver, n |-> x.n, live |-> x.live, late |-> late]
                                      ELSE ch[k]
    BY <1>2, LandedCases DEF InBlock
  <2>2. x \in Pending /\ x \in Inserts /\ Shown(k) \in Inserts /\ x \in Row /\ Shown(k) \in Row
    BY InsertTypes DEF Inserts, DebtInv, OrderInv
  <2>3. Shown(k).key = k /\ Shown(k).ver = ch[k].ver
    BY DEF Shown
  <2>4. ch[k].ver <= x.ver
    BY <2>1, <2>2, <2>3 DEF DebtInv, OrderInv, PendingNewest
  <2>5. x.ver \in Nat /\ ch[k].ver \in Nat
    BY <2>2, <2>3 DEF Row
  <2>6. ch'[k].n = x.n /\ ch'[k].live = x.live
    <3>1. ch'[k] = [ver |-> x.ver, n |-> x.n, live |-> x.live, late |-> late]
      BY <2>1, <2>4, <2>5
    <3> QED
      BY <3>1
  <2>7. x.n = src[k].n \/ Named(Fresh, src, k) \/ ~armed
    BY <2>1, <2>2 DEF DebtInv, BlockFresh
  <2>8. x.n = src[k].n => x.live = src[k].live
    BY <2>1, <2>2 DEF DebtInv, OrderInv, FromSource
  <2> QED
    BY <1>2, <2>6, <2>7, <2>8 DEF Mirrored
<1> QED
  BY <1>1, <1>2

\* The insert of a block by the drain, the snapshot or the sweep.
LEMMA InsertKeeps ==
    ASSUME DebtInv, NEW rows, rows \subseteq Pending, NEW late, ch' = Landed(ch, rows, late),
           UNCHANGED <<src, outbox, armed, snap, request, dead>>,
           Fresh \subseteq Fresh', Fresh \subseteq Kept', Kept \subseteq Kept', Pending' \subseteq Pending,
           \A k \in Keys : AskedFor(k) /\ ~InBlock(k, rows) => AskedFor(k)'
    PROVE  AllOwed' /\ BlockFresh'
<1>a. \A k : /\ Named(Fresh, src, k)' <=> Named(Fresh', src, k)
             /\ Named(Kept, src, k)' <=> Named(Kept', src, k)
  BY DEF Named
<1>1. AllOwed'
  <2> SUFFICES ASSUME NEW k \in Keys PROVE LiveOwed(k)' /\ GoneOwed(k)'
    BY DEF AllOwed
  <2>1. CASE Named(Kept, src, k)' \/ ~armed'
    BY <2>1 DEF LiveOwed, GoneOwed
  <2>2. CASE ~Named(Kept, src, k)' /\ armed'
    <3>1. ~Named(Kept, src, k) /\ ~Named(Fresh, src, k) /\ armed
      BY <1>a, <2>2, NamedSub
    <3>2. CASE Mirrored(k)'
      BY <3>2 DEF LiveOwed, GoneOwed, Mirrored
    <3>3. CASE ~Mirrored(k)'
      <4>1. ch'[k] = ch[k] /\ ~InBlock(k, rows)
        BY <3>1, <3>3, BlockLands
      <4>2. LiveOwed(k) /\ GoneOwed(k)
        BY DEF DebtInv, AllOwed
      <4>3. Mirrored(k) <=> Mirrored(k)'
        BY <4>1 DEF Mirrored
      <4> QED
        BY <3>1, <4>1, <4>2, <4>3 DEF LiveOwed, GoneOwed
    <3> QED
      BY <3>2, <3>3
  <2> QED
    BY <2>1, <2>2
<1>2. BlockFresh'
  <2> SUFFICES ASSUME NEW x \in Pending' PROVE x.n = src[x.key].n \/ Named(Fresh', src, x.key) \/ ~armed
    BY <1>a DEF BlockFresh
  <2>1. x.n = src[x.key].n \/ Named(Fresh, src, x.key) \/ ~armed
    BY DEF DebtInv, BlockFresh
  <2> QED
    BY <2>1, NamedSub
<1> QED
  BY <1>1, <1>2

\* An insert that lands late shows no row that is not committed in place of one that is.
LEMMA LateLands ==
    ASSUME DebtInv, NEW x \in flying, NEW late, ch' = Landed(ch, {x}, late), src' = src,
           NEW k \in Keys
    PROVE  /\ ch'[k] = ch[k] \/ ch'[k].late = late
           /\ src[k].live /\ Mirrored(k) => Mirrored(k)'
<1>1. CASE ch'[k] = ch[k]
  BY <1>1 DEF Mirrored
<1>2. CASE ch'[k] # ch[k]
  <2>0. /\ x.key = k /\ x.ver >= ch[k].ver
        /\ ch'[k] = [ver |-> x.ver, n |-> x.n, live |-> x.live, late |-> late]
    BY <1>2, LandedHere
  <2>1. x.key = k /\ x.ver >= ch[k].ver /\ ch'[k].n = x.n /\ ch'[k].live = x.live /\ ch'[k].late = late
    BY <2>0
  <2>2. x \in Inserts /\ Shown(k) \in Inserts /\ x \in Row /\ Shown(k) \in Row
    BY InsertTypes DEF Inserts, DebtInv, OrderInv
  <2>3. Shown(k).key = k /\ Shown(k).ver = ch[k].ver /\ Shown(k).n = ch[k].n
    BY DEF Shown
  <2>4. x.ver \in Nat /\ ch[k].ver \in Nat /\ x.n \in Nat /\ ch[k].n \in Nat
    BY <2>2, <2>3 DEF Row
  <2>5. ch[k].n <= x.n
    BY <2>1, <2>2, <2>3, <2>4 DEF DebtInv, OrderInv, Ordered
  <2>6. x.n <= src[k].n /\ (x.n = src[k].n => x.live = src[k].live)
    BY <2>1, <2>2 DEF DebtInv, OrderInv, FromSource
  <2>7. src[k].n \in Nat
    BY DEF DebtInv, OrderInv, TypeInv, CDCTypeOK
  <2>8. src[k].live /\ Mirrored(k) => x.n = src[k].n
    BY <2>4, <2>5, <2>6, <2>7 DEF Mirrored
  <2> QED
    BY <2>1, <2>6, <2>8 DEF Mirrored
<1> QED
  BY <1>1, <1>2

-----------------------------------------------------------------------------
(* The sequence values of the outbox                                       *)

\* A step that opens and commits no transaction.
LEMMA SeqKeeps ==
    ASSUME TypeInv, SeqInv, nextSeq' \in Nat, nextSeq' >= nextSeq, d'.rows \subseteq outbox',
           \A x \in outbox' : x \in outbox \/ (x.seq >= nextSeq /\ x.seq < nextSeq'),
           open' = open, NoOpenTx \/ (armed' => armed)
    PROVE  SeqInv'
<1>1. nextSeq \in Nat /\ (\A x \in outbox : x.seq \in Nat) /\ (\A k \in Keys : open[k].seq \in Nat)
  BY DEF TypeInv, CDCTypeOK
<1>2. nextSeq' >= 1 /\ \A x \in outbox' : x.seq < nextSeq'
  BY <1>1 DEF SeqInv
<1>3. ASSUME NEW k \in Keys, open[k].busy
      PROVE  IF open[k].seq = 0 THEN ~armed'
             ELSE open[k].seq < nextSeq' /\ [seq |-> open[k].seq, key |-> k] \notin outbox'
  <2>1. armed' => armed
    BY <1>3 DEF NoOpenTx
  <2>2. CASE open[k].seq = 0
    BY <1>3, <2>1, <2>2 DEF SeqInv
  <2>3. CASE open[k].seq # 0
    <3> DEFINE x == [seq |-> open[k].seq, key |-> k]
    <3>1. open[k].seq < nextSeq /\ x \notin outbox
      BY <1>3, <2>3 DEF SeqInv
    <3>2. x.seq = open[k].seq
      OBVIOUS
    <3> HIDE DEF x
    <3>3. x \notin outbox'
      BY <1>1, <3>1, <3>2
    <3> QED
      BY <1>1, <2>3, <3>1, <3>3 DEF x
  <2> QED
    BY <2>2, <2>3
<1> QED
  BY <1>2, <1>3 DEF SeqInv

\* The rows of a requeue draw consecutive values.
LEMMA RequeuedRows ==
    ASSUME TypeInv, ReconcileStart
    PROVE  /\ nextSeq' \in Nat /\ nextSeq' >= nextSeq
           /\ \A x \in outbox' : x \in outbox \/ (x.seq >= nextSeq /\ x.seq < nextSeq')
<1>1. Due \in SUBSET Keys /\ nextSeq \in Nat
  BY DEF Due, TypeInv, CDCTypeOK
<1>2. IsFiniteSet(Due) /\ Cardinality(Due) \in Nat
  BY <1>1, KeySets
<1>3. ASSUME NEW k \in Due
      PROVE  Cardinality({j \in Due : j < k}) \in Nat /\ Cardinality({j \in Due : j < k}) < Cardinality(Due)
  <2> DEFINE S == {j \in Due : j < k}
  <2>1. S \subseteq Due /\ k \notin S
    BY <1>1, KeySets
  <2>2. S # Due
    BY <1>3, <2>1
  <2> HIDE DEF S
  <2>3. Cardinality(S) <= Cardinality(Due)
    BY <1>2, <2>1, FS_Subset
  <2>4. Cardinality(S) # Cardinality(Due)
    BY <1>2, <2>1, <2>2, FS_Subset
  <2>5. IsFiniteSet(S)
    BY <1>2, <2>1, FS_Subset
  <2>6. Cardinality(S) \in Nat
    BY <2>5, FS_CardinalityType
  <2>7. Cardinality(S) < Cardinality(Due)
    BY <1>2, <2>3, <2>4, <2>6
  <2> QED
    BY <2>6, <2>7 DEF S
<1>4. nextSeq' = nextSeq + Cardinality(Due)
  BY DEF ReconcileStart
<1> DEFINE Place(k) == nextSeq + Cardinality({j \in Due : j < k})
<1>5. \A k \in Due : Place(k) >= nextSeq /\ Place(k) < nextSeq'
  BY <1>1, <1>2, <1>3, <1>4
<1>6. outbox' = outbox \cup {[seq |-> Place(k), key |-> k] : k \in Due}
  BY DEF ReconcileStart
<1> HIDE DEF Place
<1>7. \A x \in outbox' : x \in outbox \/ (x.seq >= nextSeq /\ x.seq < nextSeq')
  BY <1>5, <1>6
<1> QED
  BY <1>1, <1>2, <1>4, <1>7

\* Every step keeps the sequence values apart.
LEMMA SeqStep ==
    ASSUME TypeInv, SeqInv, [Next]_vars PROVE SeqInv'
<1>t. /\ nextSeq \in Nat /\ d \in DrainRecord /\ open \in [Keys -> [live : BOOLEAN, bad : BOOLEAN, seq : Nat, busy : BOOLEAN]]
      /\ outbox \in SUBSET OutRow /\ (\A k \in Keys : k # 0)
  BY SizesAssumption DEF TypeInv, CDCTypeOK, OutRow, Keys
<1>s. nextSeq >= 1 /\ d.rows \subseteq outbox /\ (\A x \in outbox : x.seq < nextSeq)
  BY DEF SeqInv
<1>k. ASSUME UNCHANGED <<nextSeq, outbox, open, armed>>, d'.rows = d.rows \/ d'.rows = {} PROVE SeqInv'
  BY <1>k, <1>t, <1>s, SeqKeeps
<1>1. ASSUME NEW k \in Keys, Write(k) PROVE SeqInv'
  <2>1. PICK live \in BOOLEAN, bad \in BOOLEAN :
          open' = [open EXCEPT ![k] = [live |-> live, bad |-> bad, busy |-> TRUE,
                                       seq |-> IF armed THEN nextSeq ELSE 0]]
    BY <1>1 DEF Write
  <2>2. /\ nextSeq' = (IF armed THEN nextSeq + 1 ELSE nextSeq) /\ UNCHANGED <<outbox, armed, d>>
    BY <1>1 DEF Write
  <2>3. ASSUME NEW j \in Keys, open'[j].busy
        PROVE  IF open'[j].seq = 0 THEN ~armed
               ELSE open'[j].seq < nextSeq' /\ [seq |-> open'[j].seq, key |-> j] \notin outbox
    <3>1. CASE j # k
      <4>1. open'[j] = open[j]
        BY <2>1, <3>1
      <4>2. IF open[j].seq = 0 THEN ~armed
            ELSE open[j].seq < nextSeq /\ [seq |-> open[j].seq, key |-> j] \notin outbox
        BY <2>3, <4>1 DEF SeqInv
      <4> QED
        BY <1>t, <2>2, <4>1, <4>2
    <3>2. CASE j = k
      <4>1. open'[j].seq = IF armed THEN nextSeq ELSE 0
        BY <1>t, <2>1, <3>2
      <4>2. \A x \in outbox : x.seq # nextSeq
        BY <1>t, <1>s
      <4>3. [seq |-> nextSeq, key |-> j] \notin outbox
        BY <4>2
      <4> QED
        BY <1>t, <1>s, <2>2, <4>1, <4>3
    <3> QED
      BY <3>1, <3>2
  <2>4. nextSeq' >= 1 /\ \A x \in outbox : x.seq < nextSeq'
    BY <1>t, <1>s, <2>2 DEF OutRow
  <2> QED
    BY <1>s, <2>2, <2>3, <2>4 DEF SeqInv
<1>2. ASSUME NEW k \in Keys, Commit(k) PROVE SeqInv'
  <2> DEFINE row == [seq |-> open[k].seq, key |-> k]
  <2>1. /\ open[k].busy /\ open' = [open EXCEPT ![k] = NoTx]
        /\ outbox' = (IF open[k].seq = 0 THEN outbox ELSE outbox \cup {row})
        /\ UNCHANGED <<nextSeq, armed, d>>
    BY <1>2 DEF Commit
  <2>2. open[k].seq # 0 => row.seq < nextSeq
    BY <2>1 DEF SeqInv
  <2>3. row.key = k
    OBVIOUS
  <2> HIDE DEF row
  <2>4. outbox \subseteq outbox' /\ \A x \in outbox' : x.seq < nextSeq
    BY <1>s, <2>1, <2>2
  <2>5. ASSUME NEW j \in Keys, open'[j].busy
        PROVE  IF open'[j].seq = 0 THEN ~armed
               ELSE open'[j].seq < nextSeq /\ [seq |-> open'[j].seq, key |-> j] \notin outbox'
    <3>1. j # k /\ open'[j] = open[j]
      BY <1>t, <2>1, <2>5 DEF NoTx
    <3>2. [seq |-> open[j].seq, key |-> j] # row
      BY <2>3, <3>1
    <3>3. IF open[j].seq = 0 THEN ~armed
          ELSE open[j].seq < nextSeq /\ [seq |-> open[j].seq, key |-> j] \notin outbox
      BY <2>5, <3>1 DEF SeqInv
    <3> QED
      BY <2>1, <3>1, <3>2, <3>3
  <2> QED
    BY <1>s, <2>1, <2>4, <2>5 DEF SeqInv
<1>3. CASE Truncate
  <2>1. /\ NoOpenTx /\ UNCHANGED <<open, armed, d>>
        /\ outbox' = (IF armed THEN outbox \cup {[seq |-> nextSeq, key |-> 0]} ELSE outbox)
        /\ nextSeq' = (IF armed THEN nextSeq + 1 ELSE nextSeq)
    BY <1>3 DEF Truncate
  <2>2. \A x \in outbox' : x \in outbox \/ (x.seq >= nextSeq /\ x.seq < nextSeq')
    BY <1>t, <2>1
  <2>3. nextSeq' \in Nat /\ nextSeq' >= nextSeq
    BY <1>t, <2>1
  <2> QED
    BY <1>s, <2>1, <2>2, <2>3, SeqKeeps
<1>4. CASE DisableCapture \/ Resync
  BY <1>4, <1>t, <1>s, SeqKeeps DEF DisableCapture, Resync, srcVars
<1>5. CASE DrainStart
  <2>1. UNCHANGED <<open, outbox, nextSeq>> /\ (NoOpenTx \/ (armed' => armed))
    BY <1>5 DEF DrainStart, Rearm
  <2>2. d'.rows = {}
    BY <1>5 DEF DrainStart, DIdle
  <2> QED
    BY <1>t, <2>1, <2>2, SeqKeeps
<1>6. CASE DrainBatch
  <2>1. d'.rows = d.rows \/ d'.rows = Oldest(outbox, Batch)
    BY <1>6, <1>t DEF DrainBatch, DrainRecord
  <2>2. Oldest(outbox, Batch) \subseteq outbox
    BY DEF Oldest
  <2> QED
    BY <1>6, <1>t, <1>s, <2>1, <2>2, SeqKeeps DEF DrainBatch, srcVars
<1>7. CASE DrainRead
  <2>1. d'.rows = d.rows
    <3>1. PICK park, reached, failed : d' = [d EXCEPT !.pc = "apply", !.park = park, !.failed = failed,
                                !.block = BlockOf(reached, NextVersion(last))]
      BY <1>7, ReadChooses
    <3> QED
      BY <3>1, <1>t DEF DrainRecord
  <2> QED
    BY <1>7, <1>k, <2>1 DEF DrainRead, srcVars
<1>8. CASE DrainInsert \/ SnapshotInsert
  <2>1. d'.rows = d.rows
    BY <1>8, <1>t DEF DrainInsert, SnapshotInsert, DrainRecord
  <2> QED
    BY <1>8, <1>k, <2>1 DEF DrainInsert, SnapshotInsert, srcVars
<1>9. CASE DrainSettle
  <2>1. d'.rows = d.rows
    BY <1>9, <1>t DEF DrainSettle, DrainRecord
  <2> QED
    BY <1>9, <1>k, <2>1 DEF DrainSettle, srcVars
<1>10. CASE DrainDelete
  <2>1. d'.rows = {}
    BY <1>10, <1>t DEF DrainDelete, DrainRecord
  <2> QED
    BY <1>10, <1>t, <2>1, SeqKeeps DEF DrainDelete
<1>11. CASE SnapshotRead
  <2>1. d'.rows = d.rows
    BY <1>11, <1>t DEF SnapshotRead, DrainRecord
  <2> QED
    BY <1>11, <1>k, <2>1 DEF SnapshotRead, srcVars
<1>12. CASE SnapshotSave
  <2>1. d'.rows = d.rows
    BY <1>12, <1>t DEF SnapshotSave, DrainRecord
  <2> QED
    BY <1>12, <1>k, <2>1 DEF SnapshotSave, srcVars
<1>13. CASE SnapshotRefused \/ DrainFinish \/ DrainFail
  <2>1. d'.rows = {}
    BY <1>13 DEF SnapshotRefused, DrainFinish, DrainFail, Abandon, DIdle
  <2> QED
    BY <1>13, <1>k, <2>1 DEF SnapshotRefused, DrainFinish, DrainFail, Abandon, srcVars
<1>14. CASE ReconcileStart
  <2>1. UNCHANGED <<open, armed, d>> /\ outbox \subseteq outbox'
    BY <1>14 DEF ReconcileStart
  <2> QED
    BY <1>14, <1>s, <2>1, RequeuedRows, SeqKeeps
<1>15. CASE SweepStep \/ ReconcileFail
  BY <1>15, <1>k DEF SweepStep, SweepRead, SweepCompare, SweepRepair, SweepInsert, SweepRelease,
     ReconcileEnd, ReconcileFail, srcVars
<1>16. CASE Install
  <2>1. UNCHANGED <<open, outbox, nextSeq>> /\ (NoOpenTx \/ (armed' => armed))
    BY <1>16 DEF Install
  <2>2. d'.rows = {}
    BY <1>16 DEF Install, DIdle
  <2> QED
    BY <1>t, <2>1, <2>2, SeqKeeps
<1>17. CASE SessionLost
  <2>1. d'.rows = d.rows \/ d'.rows = {}
    BY <1>17 DEF SessionLost, DIdle
  <2> QED
    BY <1>17, <1>k, <2>1 DEF SessionLost, srcVars
<1>18. CASE DayPasses \/ HourPasses \/ LandLate \/ ClockStepsBack \/ UNCHANGED vars
  BY <1>18, <1>k DEF DayPasses, HourPasses, LandLate, ClockStepsBack, vars, srcVars
<1> QED
  BY <1>1, <1>2, <1>3, <1>4, <1>5, <1>6, <1>7, <1>8, <1>9, <1>10, <1>11, <1>12, <1>13, <1>14,
     <1>15, <1>16, <1>17, <1>18 DEF Next, DrainStep
\* The parts of the invariant that a step has to keep once the order is kept.
Accounted == AllOwed /\ BlockFresh /\ Applied /\ Paged /\ Swept

-----------------------------------------------------------------------------
(* Every step keeps what is owed                                           *)

\* A step that leaves the sweep and the requests alone.
LEMMA SameSweep ==
    ASSUME DebtInv, UNCHANGED <<r, request>> PROVE StillAsked /\ Swept'
<1>1. StillAsked
  BY DEF StillAsked, AskedFor, Ahead, Beyond
<1>2. Swept'
  BY DEF DebtInv, Swept, InBlock
<1> QED
  BY <1>1, <1>2

\* A sweep that ends early starts anew.
LEMMA SweepAborts ==
    ASSUME r' = RIdle, request' = request PROVE StillAsked /\ Swept' /\ (Pending' = {} \/ r'.pc # "insert")
<1>1. r'.pc = "idle"
  BY DEF RIdle
<1> QED
  BY <1>1 DEF StillAsked, AskedFor, Ahead, Swept

\* While the drain holds the lock nothing is inserted but its own block.
LEMMA OneWriter ==
    ASSUME LockIsHeld
    PROVE  /\ d.pc # "idle" => r.pc \notin {"insert", "release"}
           /\ r.pc \in {"insert", "release"} => d.pc = "idle"
BY DEF LockIsHeld

\* A drain that is away has no block in progress, nor has a sweep that is not inserting.
LEMMA GoesAway ==
    ASSUME d'.pc \notin {"apply", "settle", "delete", "page", "pageSave"}, r'.pc # "insert"
    PROVE  Away'
BY DEF Away, Pending

\* A step that inserts nothing and leaves ClickHouse, the table and the outbox alone.
LEMMA Uneventful ==
    ASSUME DebtInv, UNCHANGED <<src, outbox, armed, ch, dead, snap>>, StillAsked, Swept',
           Away' \/ d' = d, \A x \in Pending' : x \in Pending \/ x.n = src[x.key].n
    PROVE  Accounted'
<1>1. Recorded /\ Resumed
  BY DEF Recorded, Resumed
<1>2. AllOwed' /\ BlockFresh' /\ Applied' /\ Paged'
  BY <1>1, DebtKeeps
<1> QED
  BY <1>2 DEF Accounted

\* The applications, the operator and the passing of time.
LEMMA AccountedOutside ==
    ASSUME DebtInv,
           \/ \E k \in Keys : Write(k) \/ Commit(k)
           \/ Truncate \/ DisableCapture \/ Resync \/ DayPasses \/ HourPasses
           \/ ClockStepsBack \/ UNCHANGED vars
    PROVE  Accounted'
<1>1. UNCHANGED <<r, request, ch, dead, d>>
  <2>1. ASSUME NEW k \in Keys, Write(k) \/ Commit(k) PROVE UNCHANGED <<r, request, ch, dead, d>>
    BY <2>1 DEF Write, Commit, chVars, stateVars
  <2> QED
    BY <2>1 DEF Truncate, DisableCapture, Resync, DayPasses, HourPasses,
       ClockStepsBack, vars, chVars, stateVars
<1>2. StillAsked /\ Swept'
  BY <1>1, SameSweep
<1>3. Pending' = Pending
  BY <1>1 DEF Pending
<1>4. Resumed
  <2>1. ASSUME NEW k \in Keys, Write(k) \/ Commit(k) PROVE Resumed
    BY <2>1 DEF Write, Commit, stateVars, Resumed
  <2> QED
    BY <2>1 DEF Truncate, DisableCapture, Resync, DayPasses, HourPasses,
       ClockStepsBack, vars, srcVars, stateVars, Resumed
<1>5. Recorded
  <2>1. ASSUME NEW k \in Keys, Commit(k) PROVE Recorded
    <3> DEFINE row == [seq |-> open[k].seq, key |-> k]
    <3>1. /\ open[k].busy /\ armed' = armed
          /\ outbox' = (IF open[k].seq = 0 THEN outbox ELSE outbox \cup {row})
          /\ \A j \in Keys \ {k} : src'[j] = src[j]
      BY <2>1 DEF Commit, DebtInv, OrderInv, TypeInv, CDCTypeOK
    <3>2. IF open[k].seq = 0 THEN ~armed ELSE row \notin outbox
      BY <3>1 DEF DebtInv, SeqInv
    <3>3. row.key = k
      OBVIOUS
    <3> HIDE DEF row
    <3>4. Named(outbox' \ outbox, src', k) \/ ~armed'
      BY <3>1, <3>2, <3>3 DEF Named
    <3> QED
      BY <3>1, <3>4 DEF Recorded
  <2>2. CASE Truncate
    <3> DEFINE row == [seq |-> nextSeq, key |-> 0]
    <3>1. /\ armed' = armed /\ outbox' = (IF armed THEN outbox \cup {row} ELSE outbox)
          /\ \A k \in Keys : src'[k] = src[k] \/ src'[k].live = FALSE
      BY <2>2 DEF Truncate
    <3>2. \A x \in outbox : x.seq \in Nat /\ x.seq < nextSeq
      BY DEF DebtInv, SeqInv, OrderInv, TypeInv, CDCTypeOK
    <3>3. row.key = 0 /\ row.seq = nextSeq /\ nextSeq \in Nat
      BY DEF DebtInv, OrderInv, TypeInv, CDCTypeOK
    <3> HIDE DEF row
    <3>4. row \notin outbox
      BY <3>2, <3>3
    <3> QED
      BY <3>1, <3>3, <3>4 DEF Recorded, Named
  <2>3. ASSUME NEW k \in Keys, Write(k) PROVE Recorded
    BY <2>3 DEF Write, Recorded
  <2>4. CASE DisableCapture \/ Resync \/ DayPasses \/ HourPasses \/ ClockStepsBack
             \/ UNCHANGED vars
    BY <2>4 DEF DisableCapture, Resync, DayPasses, HourPasses, ClockStepsBack, vars,
       srcVars, Recorded
  <2> QED
    BY <2>1, <2>2, <2>3, <2>4
<1>6. d' = d /\ (armed' => armed)
  <2>1. ASSUME NEW k \in Keys, Write(k) \/ Commit(k) PROVE armed' = armed
    BY <2>1 DEF Write, Commit
  <2>2. CASE Truncate \/ DisableCapture \/ Resync \/ DayPasses \/ HourPasses \/ ClockStepsBack
             \/ UNCHANGED vars
    BY <1>1, <2>2 DEF Truncate, DisableCapture, Resync, DayPasses, HourPasses, ClockStepsBack,
       vars, srcVars
  <2> QED
    BY <1>1, <2>1, <2>2
<1>7. AllOwed' /\ BlockFresh' /\ Applied' /\ Paged'
  BY <1>1, <1>2, <1>3, <1>4, <1>5, <1>6, DebtKeeps
<1> QED
  BY <1>2, <1>7 DEF Accounted
\* The drain or an install begins, takes a batch, or ends with or without an error; a
\* session is lost.
LEMMA AccountedAway ==
    ASSUME DebtInv,
           \/ DrainStart \/ Install \/ DrainBatch \/ SnapshotRefused \/ DrainFinish \/ DrainFail
           \/ SessionLost
    PROVE  Accounted'
<1>t. d \in DrainRecord /\ LockIsHeld
  BY DEF DebtInv, OrderInv, TypeInv
<1>1. ASSUME DrainStart \/ Install \/ DrainBatch \/ SnapshotRefused \/ DrainFinish \/ DrainFail
      PROVE  Accounted'
  <2>1. UNCHANGED <<r, request, ch, dead, src, outbox>>
    BY <1>1 DEF DrainStart, Install, DrainBatch, SnapshotRefused, DrainFinish, DrainFail, Abandon,
       srcVars, chVars, stateVars
  <2>2. r.pc # "insert"
    BY <1>t, <1>1, OneWriter DEF DrainStart, Install, DrainBatch, SnapshotRefused, DrainFinish, DrainFail, LockIsHeld
  <2>3. d'.pc \notin {"apply", "settle", "delete", "page", "pageSave"}
    <3>1. CASE DrainStart \/ Install
      BY <3>1 DEF DrainStart, Install, DIdle
    <3>2. CASE DrainBatch
      BY <1>t, <3>2 DEF DrainBatch, DrainRecord
    <3>3. CASE SnapshotRefused \/ DrainFinish \/ DrainFail
      BY <3>3 DEF SnapshotRefused, DrainFinish, DrainFail, Abandon, DIdle
    <3> QED
      BY <1>1, <3>1, <3>2, <3>3
  <2>4. Away'
    BY <2>1, <2>2, <2>3, GoesAway
  <2>5. Recorded
    BY <2>1 DEF Recorded
  <2>6. Resumed
    BY <1>1 DEF DrainStart, Rearm, Install, DrainBatch, SnapshotRefused, DrainFinish, DrainFail, Abandon,
       srcVars, stateVars, Resumed
  <2>7. StillAsked /\ Swept'
    BY <2>1, SameSweep
  <2>8. Pending' = {}
    BY <2>4 DEF Away
  <2>9. AllOwed' /\ BlockFresh' /\ Applied' /\ Paged'
    BY <2>1, <2>4, <2>5, <2>6, <2>7, <2>8, DebtKeeps
  <2> QED
    BY <2>7, <2>9 DEF Accounted
<1>2. CASE SessionLost
  <2>1. UNCHANGED <<request, ch, dead, src, outbox, armed, snap>>
    BY <1>2 DEF SessionLost, srcVars, stateVars
  <2>2. Away' /\ StillAsked /\ Swept'
    <3>1. CASE lock = "drain"
      <4>1. d' = DIdle /\ r' = r /\ r.pc # "insert"
        BY <1>2, <1>t, <3>1 DEF SessionLost, LockIsHeld
      <4>2. Away'
        BY <4>1, GoesAway DEF DIdle
      <4> QED
        BY <2>1, <4>1, <4>2, SameSweep
    <3>2. CASE lock # "drain"
      <4>1. d' = d /\ r' = RIdle /\ d.pc = "idle"
        BY <1>2, <1>t, <3>2 DEF SessionLost, LockIsHeld
      <4>2. Away'
        BY <4>1, GoesAway DEF RIdle
      <4> QED
        BY <2>1, <4>1, <4>2, SweepAborts
    <3> QED
      BY <3>1, <3>2
  <2>3. Pending' = {}
    BY <2>2 DEF Away
  <2> QED
    BY <2>1, <2>2, <2>3, Uneventful
<1> QED
  BY <1>1, <1>2

\* A key on the page of a sweep or behind it: the next position of the sweep is before it.
LEMMA AdvancePasses ==
    ASSUME NEW k, r.pass = "A", Beyond(k)
    PROVE  Advance(r.ids).pc = "read" /\ Advance(r.ids).pass = "A" /\ k > Advance(r.ids).after
BY DEF Advance, Beyond, RIdle

\* A new page of pass A leaves out no key that a request still asks for.
LEMMA PageReads ==
    ASSUME DebtInv, SweepRead, NEW k \in Keys, ch[k].live, r.pass = "A", k > r.after
    PROVE  r'.pc = "compare" /\ r'.pass = "A" /\ (k \in r'.ids \/ Beyond(k)')
<1> DEFINE S == {j \in Keys : ch[j].live /\ j > r.after}
           ids == FirstOf(S, Chunk)
<1>1. S \in SUBSET Nat /\ IsFiniteSet(S) /\ k \in S /\ Chunk \in Nat \ {0}
  BY KeySets, SizesAssumption
<1>2. ids \subseteq S
  BY PageWithin
<1>3. r' = IF ids = {} THEN Advance({}) ELSE [r EXCEPT !.pc = "compare", !.ids = ids]
  <2>1. {j \in {i \in Keys : ch[i].live} : j > r.after} = S
    OBVIOUS
  <2> QED
    BY <2>1 DEF SweepRead
<1> HIDE DEF S
<1>4. k \in ids \/ (Cardinality(ids) = Chunk /\ ids # {} /\ \A y \in ids : y < k)
  BY <1>1, LimitedPage
<1>5. ids # {}
  BY <1>4
<1>6. IsFiniteSet(ids) /\ ids \in SUBSET Nat
  BY <1>1, <1>2, FS_Subset
<1>7. Max(ids) \in ids
  BY <1>5, <1>6, MaxOf
<1> HIDE DEF ids
<1>8. r'.pc = "compare" /\ r'.pass = "A" /\ r'.ids = ids
  BY <1>3, <1>5 DEF DebtInv, OrderInv, TypeInv, SweepRecord
<1>9. k \in ids \/ (Cardinality(ids) = Chunk /\ k > Max(ids))
  BY <1>1, <1>4, <1>6, <1>7
<1> QED
  BY <1>8, <1>9 DEF Beyond

\* A block holds the rows of its keys as they are committed.
LEMMA InBlockOf ==
    ASSUME NEW ks, NEW v, NEW k \in ks
    PROVE  InBlock(k, BlockOf(ks, v)) /\ \A x \in BlockOf(ks, v) : x.n = src[x.key].n
<1> DEFINE x == [key |-> k, ver |-> v, n |-> src[k].n, live |-> src[k].live]
<1>1. x \in BlockOf(ks, v) /\ x.key = k
  BY DEF BlockOf
<1> HIDE DEF x
<1>2. InBlock(k, BlockOf(ks, v))
  BY <1>1 DEF InBlock
<1>3. \A y \in BlockOf(ks, v) : y.n = src[y.key].n
  BY DEF BlockOf
<1> QED
  BY <1>2, <1>3

\* The reconcile activity but for its insert.
LEMMA AccountedSweep ==
    ASSUME DebtInv,
           \/ ReconcileStart \/ SweepRead \/ SweepCompare \/ SweepRepair \/ SweepRelease
           \/ ReconcileEnd \/ ReconcileFail
    PROVE  Accounted'
<1>t. r \in SweepRecord /\ LockIsHeld /\ Swept /\ \A k \in Keys : k > 0
  BY SizesAssumption DEF DebtInv, OrderInv, TypeInv, Keys
<1>p. ASSUME d' = d, r'.pc # "insert" PROVE Pending' \subseteq Pending
  BY <1>p DEF Pending
<1>1. CASE ReconcileStart
  <2>1. UNCHANGED <<src, ch, dead, d, armed, snap>> /\ outbox \subseteq outbox'
    BY <1>1 DEF ReconcileStart, chVars
  <2>2. (r' = r /\ request' = request) \/ (/\ r' = [RIdle EXCEPT !.pc = "read"]
                                          /\ request' = IF request = "new" THEN "seen" ELSE request)
    BY <1>1 DEF ReconcileStart
  <2>3. StillAsked /\ Swept' /\ r'.pc # "insert"
    <3>1. r.pc = "idle"
      BY <1>1 DEF ReconcileStart
    <3>2. CASE r' = r /\ request' = request
      BY <3>1, <3>2, SameSweep
    <3>3. CASE /\ r' = [RIdle EXCEPT !.pc = "read"]
               /\ request' = IF request = "new" THEN "seen" ELSE request
      <4>1. r'.pc = "read" /\ r'.pass = "A" /\ r'.after = 0
        BY <3>3 DEF RIdle
      <4> QED
        BY <1>t, <3>3, <4>1 DEF StillAsked, AskedFor, Ahead, Swept
    <3> QED
      BY <2>2, <3>2, <3>3
  <2>4. Recorded /\ Resumed
    BY <2>1 DEF Recorded, Resumed
  <2>5. Pending' \subseteq Pending
    BY <2>1, <2>3, <1>p
  <2>6. AllOwed' /\ BlockFresh' /\ Applied' /\ Paged'
    BY <2>1, <2>3, <2>4, <2>5, DebtKeeps
  <2> QED
    BY <2>3, <2>6 DEF Accounted
<1>2. CASE SweepRead
  <2>1. UNCHANGED <<src, outbox, armed, ch, dead, snap, request, d>> /\ r.pc = "read"
    BY <1>2 DEF SweepRead, srcVars, chVars, stateVars
  <2>2. PICK side \in SUBSET Keys :
          /\ r.pass = "A" => side = {k \in Keys : ch[k].live}
          /\ r' = IF FirstOf({k \in side : k > r.after}, Chunk) = {} THEN Advance({})
                  ELSE [r EXCEPT !.pc = "compare", !.ids = FirstOf({k \in side : k > r.after}, Chunk)]
    <3> DEFINE side == IF r.pass = "A" THEN {k \in Keys : ch[k].live} ELSE {k \in Keys : src[k].live}
    <3>1. r' = IF FirstOf({k \in side : k > r.after}, Chunk) = {} THEN Advance({})
               ELSE [r EXCEPT !.pc = "compare", !.ids = FirstOf({k \in side : k > r.after}, Chunk)]
      BY <1>2 DEF SweepRead
    <3>2. side \in SUBSET Keys /\ (r.pass = "A" => side = {k \in Keys : ch[k].live})
      OBVIOUS
    <3> QED
      BY <3>1, <3>2
  <2> DEFINE ids == FirstOf({k \in side : k > r.after}, Chunk)
  <2>3. \A i \in ids : i > r.after
    BY PageWithin
  <2>4. r' = IF ids = {} THEN Advance({}) ELSE [r EXCEPT !.pc = "compare", !.ids = ids]
    BY <2>2
  <2> HIDE DEF ids
  <2>5. Swept' /\ r'.pc # "insert"
    <3>1. CASE r' = Advance({})
      <4>1. r'.pc \in {"read", "end"}
        BY <3>1 DEF Advance, RIdle
      <4> QED
        BY <4>1 DEF Swept
    <3>2. CASE r' = [r EXCEPT !.pc = "compare", !.ids = ids]
      <4>1. r'.pc = "compare" /\ r'.ids = ids /\ r'.after = r.after
        BY <1>t, <3>2 DEF SweepRecord
      <4> QED
        BY <2>3, <4>1 DEF Swept
    <3> QED
      BY <2>4, <3>1, <3>2
  <2>6. StillAsked
    <3> SUFFICES ASSUME NEW k \in Keys, AskedFor(k), ch[k].live PROVE AskedFor(k)'
      BY <2>1 DEF StillAsked
    <3>1. CASE request = "new"
      BY <2>1, <3>1 DEF AskedFor
    <3>2. CASE request = "seen" /\ Ahead(k)
      <4>1. r.pass = "A" /\ k > r.after
        BY <2>1, <3>2 DEF Ahead
      <4>2. r'.pc = "compare" /\ r'.pass = "A" /\ (k \in r'.ids \/ Beyond(k)')
        BY <1>2, <4>1, PageReads
      <4> QED
        BY <2>1, <3>2, <4>2 DEF AskedFor, Ahead
    <3> QED
      BY <3>1, <3>2 DEF AskedFor
  <2> QED
    BY <2>1, <2>5, <2>6, <1>p, Uneventful
<1>3. CASE SweepCompare
  <2>1. UNCHANGED <<src, outbox, armed, ch, dead, snap, request, d>> /\ r.pc = "compare"
    BY <1>3 DEF SweepCompare, srcVars, chVars, stateVars
  <2> DEFINE differ == {k \in r.ids : IF r.pass = "A" THEN ~src[k].live ELSE ~ch[k].live}
  <2>2. r' = IF differ = {} THEN Advance(r.ids) ELSE [r EXCEPT !.pc = "repair", !.keys = differ]
    BY <1>3 DEF SweepCompare
  <2>3. differ \subseteq r.ids
    OBVIOUS
  <2>4. \A k \in r.ids : r.pass = "A" /\ ~src[k].live => k \in differ
    OBVIOUS
  <2> HIDE DEF differ
  <2>5. CASE r' = Advance(r.ids) /\ differ = {}
    <3>1. r'.pc \in {"read", "end"}
      BY <2>5 DEF Advance, RIdle
    <3>2. Swept'
      BY <3>1 DEF Swept
    <3>3. StillAsked
      <4> SUFFICES ASSUME NEW k \in Keys, AskedFor(k), ~src[k].live PROVE AskedFor(k)'
        BY <2>1 DEF StillAsked
      <4>1. CASE request = "new"
        BY <2>1, <4>1 DEF AskedFor
      <4>2. CASE request = "seen" /\ Ahead(k)
        <5>1. r.pass = "A" /\ Beyond(k)
          BY <2>1, <2>4, <2>5, <4>2 DEF Ahead
        <5> QED
          BY <2>1, <2>5, <4>2, <5>1, AdvancePasses DEF AskedFor, Ahead
      <4> QED
        BY <4>1, <4>2 DEF AskedFor
    <3> QED
      BY <2>1, <3>1, <3>2, <3>3, <1>p, Uneventful
  <2>6. CASE r' = [r EXCEPT !.pc = "repair", !.keys = differ]
    <3>1. /\ r'.pc = "repair" /\ r'.keys = differ
          /\ r'.ids = r.ids /\ r'.after = r.after /\ r'.pass = r.pass
      BY <1>t, <2>6 DEF SweepRecord
    <3>2. Swept'
      BY <1>t, <2>1, <2>3, <3>1 DEF Swept
    <3>3. StillAsked
      BY <2>1, <2>4, <3>1 DEF StillAsked, AskedFor, Ahead, Beyond
    <3> QED
      BY <2>1, <3>1, <3>2, <3>3, <1>p, Uneventful
  <2> QED
    BY <2>2, <2>5, <2>6
<1>4. CASE SweepRepair
  <2>1. UNCHANGED <<src, outbox, armed, ch, dead, snap, request, d>> /\ r.pc = "repair"
    BY <1>4 DEF SweepRepair, srcVars, chVars, stateVars
  <2>2. CASE r' = RIdle
    <3>1. StillAsked /\ Swept' /\ r'.pc # "insert"
      BY <2>1, <2>2, SweepAborts DEF RIdle
    <3> QED
      BY <2>1, <3>1, <1>p, Uneventful
  <2>3. CASE r' # RIdle
    <3>1. r' = [r EXCEPT !.pc = "insert", !.block = BlockOf(r.keys, NextVersion(floor))] /\ lock = "none"
      BY <1>4, <2>3 DEF SweepRepair
    <3>2. /\ r'.pc = "insert" /\ r'.block = BlockOf(r.keys, NextVersion(floor))
          /\ r'.ids = r.ids /\ r'.after = r.after /\ r'.pass = r.pass /\ r'.keys = r.keys
      BY <1>t, <3>1 DEF SweepRecord
    <3>3. \A k \in r.keys : InBlock(k, BlockOf(r.keys, NextVersion(floor)))
      BY InBlockOf
    <3>4. Swept'
      BY <1>t, <2>1, <3>2, <3>3 DEF Swept, InBlock
    <3>5. StillAsked
      BY <2>1, <3>2 DEF StillAsked, AskedFor, Ahead, Beyond
    <3>6. Pending' = BlockOf(r.keys, NextVersion(floor))
      BY <1>t, <2>1, <3>1, <3>2 DEF Pending, LockIsHeld
    <3>7. \A x \in BlockOf(r.keys, NextVersion(floor)) : x.n = src[x.key].n
      BY DEF BlockOf
    <3> QED
      BY <2>1, <3>4, <3>5, <3>6, <3>7, Uneventful
  <2> QED
    BY <2>2, <2>3
<1>5. CASE SweepRelease
  <2>1. UNCHANGED <<src, outbox, armed, ch, dead, snap, request, d>> /\ r.pc = "release" /\ r' = Advance(r.ids)
    BY <1>5 DEF SweepRelease, srcVars, chVars, stateVars
  <2>2. r'.pc \in {"read", "end"}
    BY <2>1 DEF Advance, RIdle
  <2>3. Swept'
    BY <2>2 DEF Swept
  <2>4. StillAsked
    <3> SUFFICES ASSUME NEW k \in Keys, AskedFor(k) PROVE AskedFor(k)'
      BY DEF StillAsked
    <3>1. CASE request = "new"
      BY <2>1, <3>1 DEF AskedFor
    <3>2. CASE request = "seen" /\ Ahead(k)
      <4>1. r.pass = "A" /\ Beyond(k)
        BY <2>1, <3>2 DEF Ahead
      <4> QED
        BY <2>1, <3>2, <4>1, AdvancePasses DEF AskedFor, Ahead
    <3> QED
      BY <3>1, <3>2 DEF AskedFor
  <2> QED
    BY <2>1, <2>2, <2>3, <2>4, <1>p, Uneventful
<1>6. CASE ReconcileEnd
  <2>1. UNCHANGED <<src, outbox, armed, ch, dead, snap, d>> /\ r.pc = "end" /\ r' = RIdle
        /\ (request = "new" => request' = "new")
    BY <1>6 DEF ReconcileEnd, srcVars, chVars
  <2>2. r'.pc = "idle"
    BY <2>1 DEF RIdle
  <2>3. StillAsked /\ Swept'
    BY <2>1, <2>2 DEF StillAsked, AskedFor, Ahead, Swept
  <2> QED
    BY <2>1, <2>2, <2>3, <1>p, Uneventful
<1>7. CASE ReconcileFail
  <2>1. UNCHANGED <<src, outbox, armed, ch, dead, snap, request, d>> /\ r' = RIdle
    BY <1>7 DEF ReconcileFail, srcVars, stateVars
  <2>2. StillAsked /\ Swept' /\ r'.pc # "insert"
    BY <2>1, SweepAborts DEF RIdle
  <2> QED
    BY <2>1, <2>2, <1>p, Uneventful
<1> QED
  BY <1>1, <1>2, <1>3, <1>4, <1>5, <1>6, <1>7
\* The inserts.
LEMMA AccountedInserts ==
    ASSUME DebtInv, DrainInsert \/ SnapshotInsert \/ SweepInsert
    PROVE  Accounted'
<1>t. d \in DrainRecord /\ r \in SweepRecord /\ LockIsHeld /\ Swept
  BY DEF DebtInv, OrderInv, TypeInv
<1>1. CASE DrainInsert
  <2>1. PICK late : ch' = Landed(ch, d.block, late)
    BY <1>1 DEF DrainInsert
  <2>2. /\ UNCHANGED <<src, outbox, armed, snap, request, dead, r>>
        /\ d.pc = "apply" /\ d'.pc = "settle" /\ r.pc # "insert"
        /\ d'.rows = d.rows /\ d'.park = d.park /\ d'.failed = d.failed
    BY <1>1, <1>t, OneWriter DEF DrainInsert, srcVars, stateVars, DrainRecord
  <2>3. Pending = d.block /\ Pending' = {} /\ Fresh' = Fresh /\ Kept' = Kept
    BY <2>2 DEF Pending, Fresh, Kept
  <2>4. StillAsked /\ Swept'
    BY <2>2, SameSweep
  <2>5. \A k \in Keys : AskedFor(k) => AskedFor(k)'
    BY <2>2 DEF AskedFor, Ahead, Beyond
  <2>6. AllOwed' /\ BlockFresh'
    BY <2>1, <2>2, <2>3, <2>5, InsertKeeps, FreshIsKept
  <2>7. Applied'
    <3> SUFFICES ASSUME ~d.failed, NEW k \in KeysOf(d.rows) \ d.park PROVE UpToDate(k)'
      BY <2>2 DEF Applied
    <3>1. k \in Keys
      BY <1>t, KeysOfType DEF DrainRecord
    <3>2. InBlock(k, d.block)
      BY <2>2 DEF DebtInv, Applied
    <3>3. Mirrored(k)' \/ Named(Fresh, src, k) \/ ~armed
      BY <2>1, <2>2, <2>3, <3>1, <3>2, BlockLands
    <3>4. Named(Fresh, src, k)' <=> Named(Fresh, src, k)
      BY <2>2, <2>3 DEF Named
    <3> QED
      BY <2>2, <3>3, <3>4 DEF UpToDate
  <2> QED
    BY <2>2, <2>4, <2>6, <2>7 DEF Accounted, Paged
<1>2. CASE SnapshotInsert
  <2>1. PICK late : ch' = Landed(ch, d.block, late)
    BY <1>2 DEF SnapshotInsert
  <2>2. /\ UNCHANGED <<src, outbox, armed, snap, request, dead, r>>
        /\ d.pc = "page" /\ d'.pc = "pageSave" /\ r.pc # "insert"
        /\ d'.rows = d.rows /\ d'.cursor = d.cursor /\ d'.done = d.done
    BY <1>2, <1>t, OneWriter DEF SnapshotInsert, srcVars, stateVars, DrainRecord
  <2>3. Pending = d.block /\ Pending' = {} /\ Fresh' = Fresh /\ Kept' = Kept
    BY <2>2 DEF Pending, Fresh, Kept
  <2>4. StillAsked /\ Swept'
    BY <2>2, SameSweep
  <2>5. \A k \in Keys : AskedFor(k) => AskedFor(k)'
    BY <2>2 DEF AskedFor, Ahead, Beyond
  <2>6. AllOwed' /\ BlockFresh'
    BY <2>1, <2>2, <2>3, <2>5, InsertKeeps, FreshIsKept
  <2>7. Paged'
    <3> SUFFICES ASSUME NEW k \in Keys, src[k].live, k <= d.cursor \/ d.done
                 PROVE  Mirrored(k)' \/ Named(outbox, src, k)' \/ dead[k] > 0 \/ ~armed
      BY <2>2 DEF Paged
    <3>1. \/ Mirrored(k) \/ Named(outbox, src, k) \/ dead[k] > 0 \/ ~armed
          \/ InBlock(k, d.block)
      BY <2>2 DEF DebtInv, Paged
    <3>2. Named(outbox, src, k)' <=> Named(outbox, src, k)
      BY <2>2 DEF Named
    <3>3. CASE InBlock(k, d.block)
      <4>1. Mirrored(k)' \/ Named(Fresh, src, k) \/ ~armed
        BY <2>1, <2>2, <2>3, <3>3, BlockLands
      <4> QED
        BY <3>2, <4>1, FreshIsKept, NamedSub
    <3>4. CASE ~InBlock(k, d.block)
      <4>1. ch'[k] = ch[k]
        BY <2>1, <2>2, <2>3, <3>4, BlockLands
      <4> QED
        BY <2>2, <3>1, <3>2, <3>4, <4>1 DEF Mirrored
    <3> QED
      BY <3>3, <3>4
  <2> QED
    BY <2>2, <2>4, <2>6, <2>7 DEF Accounted, Applied
<1>3. CASE SweepInsert
  <2>1. PICK late : ch' = Landed(ch, r.block, late)
    BY <1>3 DEF SweepInsert
  <2>2. /\ UNCHANGED <<src, outbox, armed, snap, request, dead, d>>
        /\ r.pc = "insert" /\ r'.pc = "release" /\ d.pc = "idle"
        /\ r'.ids = r.ids /\ r'.keys = r.keys /\ r'.after = r.after /\ r'.pass = r.pass
    BY <1>3, <1>t, OneWriter DEF SweepInsert, srcVars, stateVars, SweepRecord
  <2>3. Pending = r.block /\ Pending' = {} /\ Fresh' = Fresh /\ Kept' = Kept
    BY <2>2 DEF Pending, Fresh, Kept
  <2>4. \A k \in Keys : AskedFor(k) /\ ~InBlock(k, r.block) => AskedFor(k)'
    BY <1>t, <2>2 DEF AskedFor, Ahead, Beyond, Swept
  <2>5. AllOwed' /\ BlockFresh'
    BY <2>1, <2>2, <2>3, <2>4, InsertKeeps, FreshIsKept
  <2>6. Swept'
    BY <1>t, <2>2 DEF Swept
  <2> QED
    BY <2>2, <2>5, <2>6 DEF Accounted, Applied, Paged
<1> QED
  BY <1>1, <1>2, <1>3

\* An insert that lands after its writer gave up on it.
LEMMA AccountedLate ==
    ASSUME DebtInv, LandLate PROVE Accounted'
<1>1. PICK x \in flying : ch' = Landed(ch, {x}, TRUE)
  BY DEF LandLate
<1>2. PICK late : late = TRUE
  OBVIOUS
<1>3. ch' = Landed(ch, {x}, late)
  BY <1>1, <1>2
<1>4. UNCHANGED <<src, outbox, armed, snap, request, dead, d, r>>
  BY DEF LandLate, srcVars, stateVars
<1>5. ASSUME NEW k \in Keys
      PROVE  /\ ch'[k] = ch[k] \/ ch'[k].late
             /\ src[k].live /\ Mirrored(k) => Mirrored(k)'
  BY <1>2, <1>3, <1>4, LateLands
<1>6. StillAsked /\ Swept'
  BY <1>4, SameSweep
<1>7. ASSUME NEW k
      PROVE  /\ Named(Kept, src, k)' <=> Named(Kept, src, k)
             /\ Named(Fresh, src, k)' <=> Named(Fresh, src, k)
             /\ Named(outbox, src, k)' <=> Named(outbox, src, k)
             /\ AskedFor(k)' <=> AskedFor(k)
             /\ ch'[k] = ch[k] => (Mirrored(k)' <=> Mirrored(k))
  <2>1. Kept' = Kept /\ Fresh' = Fresh
    BY <1>4 DEF Kept, Fresh, DoneRows
  <2> QED
    BY <1>4, <2>1 DEF Named, AskedFor, Ahead, Beyond, Mirrored
<1>8. AllOwed'
  <2> SUFFICES ASSUME NEW k \in Keys PROVE LiveOwed(k)' /\ GoneOwed(k)'
    BY DEF AllOwed
  <2>1. LiveOwed(k) /\ GoneOwed(k)
    BY DEF DebtInv, AllOwed
  <2>2. LiveOwed(k)'
    BY <1>4, <1>5, <1>7, <2>1 DEF LiveOwed
  <2>3. GoneOwed(k)'
    BY <1>4, <1>5, <1>7, <2>1 DEF GoneOwed
  <2> QED
    BY <2>2, <2>3
<1>9. BlockFresh'
  <2>1. Pending' = Pending
    BY <1>4 DEF Pending
  <2> QED
    BY <1>4, <1>7, <2>1 DEF DebtInv, BlockFresh
<1>10. Applied'
  <2> SUFFICES ASSUME d.pc \in {"apply", "settle"}, ~d.failed, NEW k \in KeysOf(d.rows) \ d.park
               PROVE  IF d.pc = "apply" THEN InBlock(k, d.block) ELSE UpToDate(k)'
    BY <1>4 DEF Applied, InBlock
  <2>1. k \in Keys
    BY KeysOfType DEF DebtInv, OrderInv, TypeInv, DrainRecord
  <2>2. IF d.pc = "apply" THEN InBlock(k, d.block) ELSE UpToDate(k)
    BY DEF DebtInv, Applied
  <2>3. CASE ch'[k] = ch[k]
    BY <1>4, <1>7, <2>2, <2>3 DEF UpToDate
  <2>4. CASE ch'[k].late /\ ch'[k] # ch[k]
    BY <1>4, <1>5, <1>7, <2>1, <2>2, <2>4 DEF UpToDate
  <2> QED
    BY <1>5, <2>1, <2>3, <2>4
<1>11. Paged'
  <2> SUFFICES ASSUME d.pc \in {"page", "pageSave"}, NEW k \in Keys, src[k].live,
                      k <= d.cursor \/ d.done
               PROVE  \/ Mirrored(k)' \/ Named(outbox, src, k)' \/ dead[k] > 0 \/ ~armed
                      \/ d.pc = "page" /\ InBlock(k, d.block)
    BY <1>4 DEF Paged, InBlock
  <2> QED
    BY <1>5, <1>7 DEF DebtInv, Paged
<1> QED
  BY <1>6, <1>8, <1>9, <1>10, <1>11 DEF Accounted
\* The drain reads the rows of its batch.
LEMMA AccountedRead ==
    ASSUME DebtInv, DrainRead PROVE Accounted'
<1>t. d \in DrainRecord /\ LockIsHeld /\ TypeInv
  BY DEF DebtInv, OrderInv, TypeInv
<1>1. PICK park \in SUBSET Keys, reached \in SUBSET Keys, failed \in BOOLEAN :
        /\ d' = [d EXCEPT !.pc = "apply", !.park = park, !.failed = failed,
                          !.block = BlockOf(reached, NextVersion(last))]
        /\ ~failed => KeysOf(d.rows) \subseteq park \cup reached
  BY <1>t, ReadChooses
<1>2. /\ UNCHANGED <<src, outbox, armed, ch, dead, snap, request, r>>
      /\ d.pc = "read" /\ r.pc # "insert"
  BY <1>t, OneWriter DEF DrainRead, srcVars, chVars, stateVars
<1>3. /\ d'.pc = "apply" /\ d'.rows = d.rows /\ d'.park = park /\ d'.failed = failed
      /\ d'.block = BlockOf(reached, NextVersion(last))
  BY <1>t, <1>1 DEF DrainRecord
<1>4. Pending' = BlockOf(reached, NextVersion(last)) /\ Kept' = Kept
  BY <1>2, <1>3 DEF Pending, Kept
<1>5. StillAsked /\ Swept'
  BY <1>2, SameSweep
<1>6. Resumed /\ Kept \subseteq Kept'
  BY <1>2, <1>4 DEF Resumed
<1>7. AllOwed'
  BY <1>2, <1>5, <1>6, OwedKeeps DEF DebtInv
<1>8. BlockFresh'
  <2>1. \A x \in BlockOf(reached, NextVersion(last)) : x.n = src[x.key].n
    BY DEF BlockOf
  <2> QED
    BY <1>2, <1>4, <2>1 DEF BlockFresh
<1>9. Applied'
  <2> SUFFICES ASSUME ~failed, NEW k \in KeysOf(d.rows) \ park
               PROVE  InBlock(k, BlockOf(reached, NextVersion(last)))
    BY <1>3 DEF Applied, InBlock
  <2> QED
    BY <1>1, InBlockOf
<1> QED
  BY <1>3, <1>5, <1>7, <1>8, <1>9 DEF Accounted, Paged

\* Parked keys, cleared dead letters and the request of a TRUNCATE take over what the outbox
\* rows that are about to go owed.
LEMMA AccountedSettle ==
    ASSUME DebtInv, DrainSettle PROVE Accounted'
<1>t. /\ d \in DrainRecord /\ LockIsHeld /\ SeqInv /\ dead \in [Keys -> 0 .. Retries]
      /\ Retries \in Nat \ {0}
  BY SizesAssumption DEF DebtInv, OrderInv, TypeInv, CDCTypeOK
<1>1. /\ UNCHANGED <<src, outbox, armed, ch, snap, r>>
      /\ d.pc = "settle" /\ d'.pc = "delete" /\ r.pc # "insert"
      /\ d'.rows = d.rows /\ d'.failed = d.failed
      /\ request' = IF \E x \in d.rows : x.key = 0 THEN "new" ELSE request
  BY <1>t, OneWriter DEF DrainSettle, srcVars, chVars, DrainRecord
<1>2. Pending' = {}
  BY <1>1 DEF Pending
<1>3. Kept' = outbox \ DoneRows(d.rows, d.failed) /\ Kept = outbox /\ Fresh \subseteq Kept'
  BY <1>1 DEF Kept, Fresh, DoneRows
<1>4. ASSUME NEW k \in Keys, dead[k] > 0, ~(dead'[k] > 0)
      PROVE  ~d.failed /\ k \in KeysOf(d.rows) \ d.park
  BY <1>4, <1>t DEF DrainSettle
<1>5. ASSUME NEW k \in Keys, k \in d.park PROVE dead'[k] > 0
  BY <1>5, <1>t DEF DrainSettle
<1>6. ASSUME NEW k \in Keys, ~d.failed, k \in KeysOf(d.rows) \ d.park PROVE UpToDate(k)
  BY <1>1, <1>6 DEF DebtInv, Applied
<1>7. \A k \in Keys : AskedFor(k) => AskedFor(k)'
  BY <1>1 DEF AskedFor, Ahead, Beyond
<1>8. ASSUME NEW k \in Keys, Named(outbox, src, k)
      PROVE  \/ Named(Kept', src, k) \/ dead'[k] > 0 \/ UpToDate(k)
             \/ ~src[k].live /\ request' = "new"
  <2>1. PICK x \in outbox : x.key = k \/ (x.key = 0 /\ ~src[k].live)
    BY <1>8 DEF Named
  <2>2. CASE x \in Kept'
    BY <2>1, <2>2 DEF Named
  <2>3. CASE x \notin Kept' /\ x.key = k
    <3>1. x \in d.rows /\ ~d.failed
      BY <1>3, <2>3, SizesAssumption DEF DoneRows, Keys
    <3>2. k \in KeysOf(d.rows)
      BY <2>3, <3>1, SizesAssumption DEF KeysOf, Keys
    <3> QED
      BY <1>5, <1>6, <3>1, <3>2
  <2>4. CASE x \notin Kept' /\ x.key = 0 /\ ~src[k].live
    <3>1. x \in d.rows
      BY <1>3, <2>4 DEF DoneRows
    <3> QED
      BY <1>1, <2>4, <3>1
  <2> QED
    BY <2>1, <2>2, <2>3, <2>4
<1>9. AllOwed'
  <2> SUFFICES ASSUME NEW k \in Keys PROVE LiveOwed(k)' /\ GoneOwed(k)'
    BY DEF AllOwed
  <2>1. LiveOwed(k) /\ GoneOwed(k)
    BY DEF DebtInv, AllOwed
  <2>2. Named(Kept, src, k)' <=> Named(Kept', src, k)
    BY <1>1 DEF Named
  <2>3. Mirrored(k)' <=> Mirrored(k)
    BY <1>1 DEF Mirrored
  <2>4. CASE UpToDate(k)
    <3>1. \/ Mirrored(k) \/ (~src[k].live /\ ch[k].late) \/ Named(Kept, src, k)' \/ ~armed
      BY <1>3, <2>2, <2>4, NamedSub DEF UpToDate
    <3>2. LiveOwed(k)'
      BY <1>1, <2>3, <3>1 DEF LiveOwed
    <3>3. GoneOwed(k)'
      BY <1>1, <3>1 DEF GoneOwed, Mirrored
    <3> QED
      BY <3>2, <3>3
  <2>5. CASE ~UpToDate(k)
    <3>1. dead[k] > 0 => dead'[k] > 0
      BY <1>4, <1>6, <2>5
    <3>2. Named(Kept, src, k) => \/ Named(Kept, src, k)' \/ dead'[k] > 0
                                 \/ ~src[k].live /\ AskedFor(k)'
      BY <1>3, <1>8, <2>2, <2>5 DEF AskedFor
    <3>3. LiveOwed(k)'
      BY <1>1, <2>1, <2>3, <3>1, <3>2 DEF LiveOwed
    <3>4. GoneOwed(k)'
      BY <1>1, <1>7, <2>1, <3>1, <3>2 DEF GoneOwed
    <3> QED
      BY <3>3, <3>4
  <2> QED
    BY <2>4, <2>5
<1>10. Swept'
  BY <1>1 DEF DebtInv, Swept, InBlock
<1> QED
  BY <1>1, <1>2, <1>9, <1>10 DEF Accounted, BlockFresh, Applied, Paged

\* The outbox rows go when nothing depends on them any more.
LEMMA AccountedDelete ==
    ASSUME DebtInv, DrainDelete PROVE Accounted'
<1>t. d \in DrainRecord /\ LockIsHeld
  BY DEF DebtInv, OrderInv, TypeInv
<1>1. /\ UNCHANGED <<src, armed, ch, dead, snap, request, r>>
      /\ d.pc = "delete" /\ r.pc # "insert" /\ outbox' = outbox \ DoneRows(d.rows, d.failed)
  BY <1>t, OneWriter DEF DrainDelete, chVars, stateVars
<1>2. d'.pc \notin {"apply", "settle", "delete", "page", "pageSave"}
  BY <1>t DEF DrainDelete, DrainRecord
<1>3. Pending' = {}
  BY <1>1, <1>2 DEF Pending
<1>4. Kept' = Kept
  BY <1>1, <1>2 DEF Kept
<1>5. StillAsked /\ Swept'
  BY <1>1, SameSweep
<1>6. Resumed /\ Kept \subseteq Kept'
  BY <1>1, <1>4 DEF Resumed
<1>7. AllOwed'
  BY <1>1, <1>5, <1>6, OwedKeeps DEF DebtInv
<1> QED
  BY <1>2, <1>3, <1>5, <1>7 DEF Accounted, BlockFresh, Applied, Paged

\* A page of the snapshot leaves out no live row up to its last one.
LEMMA AccountedPage ==
    ASSUME DebtInv, SnapshotRead PROVE Accounted'
<1>t. d \in DrainRecord /\ LockIsHeld /\ TypeInv /\ snap.cursor \in 0 .. NumKeys
  BY DEF DebtInv, OrderInv, TypeInv, CDCTypeOK
<1> DEFINE S == {k \in Keys : src[k].live /\ k > snap.cursor}
           page == PageAfter(snap.cursor)
           block == BlockOf(page, NextVersion(last))
           cursor == IF page = {} THEN snap.cursor ELSE Max(page)
           done == Cardinality(page) < Page
<1>1. d' = [d EXCEPT !.pc = "page", !.block = block, !.cursor = cursor, !.done = done]
  BY DEF SnapshotRead
<1>2. /\ UNCHANGED <<src, outbox, armed, ch, dead, snap, request, r>>
      /\ d.pc = "snap" /\ r.pc # "insert"
  BY <1>t, OneWriter DEF SnapshotRead, srcVars, chVars, stateVars
<1>3. page = FirstOf(S, Page)
  BY DEF PageAfter
<1>4. S \in SUBSET Nat /\ IsFiniteSet(S) /\ Page \in Nat \ {0}
  BY KeySets, SizesAssumption
<1>5. page \subseteq S
  BY <1>3, PageWithin
<1>6. IsFiniteSet(page) /\ page \in SUBSET Nat
  BY <1>4, <1>5, FS_Subset
<1>m. page # {} => Max(page) \in page
  BY <1>6, MaxOf
<1>b. block = BlockOf(page, NextVersion(last))
  OBVIOUS
<1>c. /\ cursor = (IF page = {} THEN snap.cursor ELSE Max(page))
      /\ done <=> Cardinality(page) < Page
  OBVIOUS
<1>7. ASSUME NEW k \in Keys, src[k].live, k <= cursor \/ done, k > snap.cursor
      PROVE  k \in page
  <2>1. k \in S
    BY <1>7
  <2> HIDE DEF S, page, cursor, done
  <2>2. SUFFICES ASSUME k \notin page PROVE FALSE
    OBVIOUS
  <2>3. (\A y \in page : y < k) /\ Cardinality(page) = Page /\ page # {}
    BY <1>3, <1>4, <2>1, <2>2, LimitedPage
  <2>4. cursor = Max(page) /\ Max(page) < k /\ ~done
    BY <1>4, <1>m, <1>c, <2>3
  <2>5. Max(page) \in Nat /\ k \in Nat
    BY <1>4, <1>6, <1>m, <2>1, <2>3
  <2> QED
    BY <1>7, <2>4, <2>5
<1> HIDE DEF S, page, block, cursor, done
<1>8. d'.pc = "page" /\ d'.rows = d.rows /\ d'.block = block /\ d'.cursor = cursor /\ d'.done = done
  BY <1>t, <1>1 DEF DrainRecord
<1>9. Pending' = block /\ Kept' = Kept
  BY <1>2, <1>8 DEF Pending, Kept
<1>10. StillAsked /\ Swept'
  BY <1>2, SameSweep
<1>11. Resumed /\ Kept \subseteq Kept'
  BY <1>2, <1>9 DEF Resumed
<1>12. AllOwed'
  BY <1>2, <1>10, <1>11, OwedKeeps DEF DebtInv
<1>13. BlockFresh'
  <2>1. \A x \in block : x.n = src[x.key].n
    BY <1>b DEF BlockOf
  <2> QED
    BY <1>2, <1>9, <2>1 DEF BlockFresh
<1>14. Paged'
  <2> SUFFICES ASSUME NEW k \in Keys, src[k].live, k <= cursor \/ done
               PROVE  \/ Mirrored(k) \/ Named(outbox, src, k) \/ dead[k] > 0 \/ ~armed
                      \/ InBlock(k, block)
    BY <1>2, <1>8 DEF Paged, Mirrored, Named, InBlock
  <2>1. CASE k > snap.cursor
    BY <2>1, <1>7, <1>b, InBlockOf
  <2>2. CASE ~(k > snap.cursor)
    <3>1. LiveOwed(k)
      BY DEF DebtInv, AllOwed
    <3>2. Named(Kept, src, k) => Named(outbox, src, k)
      BY FreshIsKept, NamedSub
    <3> QED
      BY <2>2, <3>1, <3>2 DEF LiveOwed
  <2> QED
    BY <2>1, <2>2
<1> QED
  BY <1>8, <1>10, <1>12, <1>13, <1>14 DEF Accounted, Applied

\* The cursor moves when the page has been copied; at the end of the table a sweep is
\* requested for the rows that were deleted meanwhile.
LEMMA AccountedSave ==
    ASSUME DebtInv, SnapshotSave PROVE Accounted'
<1>t. d \in DrainRecord /\ LockIsHeld
  BY DEF DebtInv, OrderInv, TypeInv
<1>1. /\ UNCHANGED <<src, outbox, armed, ch, dead, r>>
      /\ d.pc = "pageSave" /\ r.pc # "insert"
      /\ snap' = [cursor |-> d.cursor, done |-> d.done]
      /\ request' = IF d.done THEN "new" ELSE request
  BY <1>t, OneWriter DEF SnapshotSave, srcVars, chVars
<1>2. d'.pc \in {"finish", "snap"}
  BY <1>t DEF SnapshotSave, DrainRecord
<1>3. Pending' = {} /\ Kept' = outbox /\ Kept = outbox
  BY <1>1, <1>2 DEF Pending, Kept
<1>4. snap'.cursor = d.cursor /\ snap'.done = d.done
  BY <1>1
<1>5. AllOwed'
  <2> SUFFICES ASSUME NEW k \in Keys PROVE LiveOwed(k)' /\ GoneOwed(k)'
    BY DEF AllOwed
  <2>1. LiveOwed(k) /\ GoneOwed(k)
    BY DEF DebtInv, AllOwed
  <2>2. Named(Kept, src, k)' <=> Named(outbox, src, k)
    BY <1>1, <1>3 DEF Named
  <2>3. LiveOwed(k)'
    <3>1. CASE src[k].live /\ (k <= d.cursor \/ d.done)
      <4>1. Mirrored(k) \/ Named(outbox, src, k) \/ dead[k] > 0 \/ ~armed
        BY <1>1, <3>1 DEF DebtInv, Paged
      <4> QED
        BY <1>1, <2>2, <4>1 DEF LiveOwed, Mirrored
    <3>2. CASE ~(k <= d.cursor) /\ ~d.done
      <4>1. k \in Nat /\ d.cursor \in Nat
        BY <1>t, SizesAssumption DEF DrainRecord, Keys
      <4> QED
        BY <1>4, <3>2, <4>1 DEF LiveOwed
    <3>3. CASE ~src[k].live
      BY <1>1, <3>3 DEF LiveOwed
    <3> QED
      BY <3>1, <3>2, <3>3
  <2>4. GoneOwed(k)'
    <3>1. CASE d.done
      BY <1>1, <3>1 DEF GoneOwed, AskedFor
    <3>2. CASE ~d.done
      BY <1>4, <3>2 DEF GoneOwed
    <3> QED
      BY <3>1, <3>2
  <2> QED
    BY <2>3, <2>4
<1>6. Swept'
  BY <1>1 DEF DebtInv, Swept, InBlock
<1> QED
  BY <1>2, <1>3, <1>5, <1>6 DEF Accounted, BlockFresh, Applied, Paged

\* Every step keeps what is owed recorded.
LEMMA DebtStep ==
    ASSUME DebtInv, BothFaults = FALSE, [Next]_vars PROVE DebtInv'
<1>1. OrderInv'
  BY OrderStep DEF DebtInv
<1>2. SeqInv'
  BY SeqStep DEF DebtInv, OrderInv
<1>3. Accounted'
  BY AccountedOutside, AccountedAway, AccountedSweep, AccountedInserts, AccountedLate,
     AccountedRead, AccountedSettle, AccountedDelete, AccountedPage, AccountedSave
     DEF Next, DrainStep, SweepStep
<1> QED
  BY <1>1, <1>2, <1>3 DEF DebtInv, Accounted

\* At first the snapshot owes every row.
LEMMA DebtInit == Init => DebtInv
<1> SUFFICES ASSUME Init PROVE DebtInv
  OBVIOUS
<1>1. OrderInv
  BY OrderInit
<1>2. d.pc = "idle" /\ d.rows = {} /\ r.pc = "idle" /\ Pending = {}
  BY DEF Init, DIdle, RIdle, Pending
<1>3. SeqInv
  BY <1>2 DEF Init, SeqInv, NoTx
<1>4. AllOwed
  <2> SUFFICES ASSUME NEW k \in Keys PROVE LiveOwed(k) /\ GoneOwed(k)
    BY DEF AllOwed
  <2>1. ~snap.done /\ k > snap.cursor
    BY SizesAssumption DEF Init, Keys
  <2> QED
    BY <2>1 DEF LiveOwed, GoneOwed
<1>5. BlockFresh /\ Applied /\ Paged /\ Swept
  BY <1>2 DEF BlockFresh, Applied, Paged, Swept
<1> QED
  BY <1>1, <1>3, <1>4, <1>5 DEF DebtInv

\* What the precise record owes, the properties' one owes too.
LEMMA DebtIsOwed ==
    ASSUME DebtInv PROVE NothingForgotten
<1> SUFFICES ASSUME NEW k \in Keys, ~Mirrored(k) PROVE Owed(k)
  BY DEF NothingForgotten
<1>1. LiveOwed(k) /\ GoneOwed(k) /\ r \in SweepRecord
  BY DEF DebtInv, AllOwed, OrderInv, TypeInv
<1>2. Named(Kept, src, k) => \E x \in outbox : x.key = k \/ (x.key = 0 /\ ~src[k].live)
  BY FreshIsKept DEF Named
<1>3. CASE src[k].live
  BY <1>1, <1>2, <1>3 DEF LiveOwed, Owed
<1>4. CASE ~src[k].live
  <2>1. ch[k].live /\ SwappedLiveness(k)
    <3>1. ch[k].live \in BOOLEAN /\ src[k].live \in BOOLEAN
      BY DEF DebtInv, OrderInv, TypeInv, CDCTypeOK
    <3> QED
      BY <1>4, <3>1 DEF Mirrored, SwappedLiveness
  <2>2. Ahead(k) => StillToSweep(k)
    <3>1. ASSUME Beyond(k), r.pc \in {"compare", "repair", "insert", "release"} PROVE k > r.after
      <4>1. r.ids # {} /\ Cardinality(r.ids) = Chunk
        BY <3>1, SizesAssumption, FS_EmptySet DEF Beyond
      <4>2. r.ids \in SUBSET Nat /\ IsFiniteSet(r.ids)
        BY <1>1, KeySets DEF SweepRecord
      <4>3. Max(r.ids) \in r.ids
        BY <4>1, <4>2, MaxOf
      <4>4. Max(r.ids) > r.after
        BY <3>1, <4>3 DEF DebtInv, Swept
      <4>5. Max(r.ids) \in Nat /\ r.after \in Nat /\ k \in Nat
        BY <1>1, <4>2, <4>3, SizesAssumption DEF SweepRecord, Keys
      <4>6. k > Max(r.ids)
        BY <3>1 DEF Beyond
      <4> QED
        BY <4>4, <4>5, <4>6
    <3>2. r.pc \in {"repair", "insert"} /\ k \in r.keys => k \in r.ids
      BY DEF DebtInv, Swept
    <3> QED
      BY <2>1, <3>1, <3>2 DEF Ahead, StillToSweep
  <2> QED
    BY <1>1, <1>2, <1>4, <2>1, <2>2 DEF GoneOwed, AskedFor, Owed
<1> QED
  BY <1>3, <1>4

\* Every key that ClickHouse does not show as committed is owed, precisely: by the outbox
\* but for the settled rows, a dead letter, an unfinished snapshot or what is left of a sweep.
THEOREM DebtsAreRecorded ==
    ASSUME BothFaults = FALSE PROVE Safety => []DebtInv
<1>1. DebtInv /\ [Next]_vars => DebtInv'
  BY DebtStep
<1> QED
  BY DebtInit, <1>1, PTL DEF Safety

\* No change is forgotten, for any number of keys and any sizes of batch, page and chunk.
THEOREM NoChangeForgotten ==
    ASSUME BothFaults = FALSE PROVE Safety => []NothingForgotten
<1>1. DebtInv /\ [Next]_vars => DebtInv'
  BY DebtStep
<1>2. DebtInv => NothingForgotten
  BY DebtIsOwed
<1> QED
  BY DebtInit, <1>1, <1>2, PTL DEF Safety

=============================================================================
