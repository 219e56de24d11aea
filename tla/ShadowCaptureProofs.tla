------------------------- MODULE ShadowCaptureProofs -------------------------
(***************************************************************************)
(* The ring buffer implements the drop-oldest queue, and shadow capture    *)
(* around it moves every stored result to one place, for every capacity    *)
(* and every number of requests, drains and failed sends.                  *)
(*                                                                         *)
(* The capture's invariant counts the places a result is in.  Its steps    *)
(* see the buffer only as the queue the first part proves it to be         *)
(* (AddIsQueueAdd, DrainEmpties), so the ring's arithmetic is done once.   *)
(***************************************************************************)
EXTENDS ShadowCapture, FiniteSetTheorems, FunctionTheorems, SequenceTheorems, TLAPS

\* HeadFollowsCount is what makes the two branches of DrainAll agree with the
\* order of insertion; NoZeroResult gives the type of what is handed over.
StoreInv == StoreTypeOK /\ HeadFollowsCount /\ NoZeroResult

USE CapAssumption, ZeroAssumption

\* Where the i-th oldest entry of a full buffer is.
LEMMA RingIndex ==
    ASSUME NEW h \in 0..(Cap - 1), NEW i \in 1..Cap
    PROVE  (h + i - 1) % Cap = IF h + i - 1 < Cap THEN h + i - 1 ELSE h + i - 1 - Cap
  <1>1. ASSUME NEW x \in 0..(Cap - 1) PROVE x % Cap = x
    OBVIOUS
  <1>2. ASSUME NEW x \in Cap..(2 * Cap - 1) PROVE x % Cap = x - Cap
    OBVIOUS
  <1>3. CASE h + i - 1 < Cap
    BY <1>1, <1>3
  <1>4. CASE ~(h + i - 1 < Cap)
    BY <1>2, <1>4
  <1> QED
    BY <1>3, <1>4

\* Where Add moves the write position.
LEMMA NextHead ==
    ASSUME NEW h \in 0..(Cap - 1)
    PROVE  (h + 1) % Cap = IF h = Cap - 1 THEN 0 ELSE h + 1
  <1>1. CASE h = Cap - 1
    <2>1. Cap % Cap = 0
      OBVIOUS
    <2> QED
      BY <1>1, <2>1
  <1>2. CASE h # Cap - 1
    <2>1. ASSUME NEW x \in 0..(Cap - 1) PROVE x % Cap = x
      OBVIOUS
    <2> QED
      BY <1>2, <2>1
  <1> QED
    BY <1>1, <1>2

\* What DrainAll would copy out is a sequence of results that were added.
LEMMA ContentsType ==
    ASSUME StoreInv
    PROVE  /\ Contents \in Seq(Results)
           /\ Len(Contents) = count
           /\ \A i \in 1..count : Contents[i] =
                 IF count = Cap THEN buf[(head + i - 1) % Cap] ELSE buf[i - 1]
  <1>1. count \in Nat /\ count <= Cap
    BY DEF StoreInv, StoreTypeOK
  <1>2. ASSUME NEW i \in 1..count
        PROVE  Contents[i] \in Results
    <2>1. CASE count = Cap
      <3>1. head \in 0..(Cap - 1) /\ i \in 1..Cap
        BY <2>1 DEF StoreInv, StoreTypeOK
      <3>2. (head + i - 1) % Cap \in 0..(Cap - 1)
        BY <3>1, RingIndex
      <3>3. Contents[i] = buf[(head + i - 1) % Cap]
        BY <1>2, <2>1 DEF Contents
      <3> QED
        BY <2>1, <3>2, <3>3 DEF StoreInv, StoreTypeOK, NoZeroResult
    <2>2. CASE count # Cap
      <3>1. i - 1 \in 0..(count - 1) /\ i - 1 \in 0..(Cap - 1)
        BY <1>1
      <3>2. Contents[i] = buf[i - 1]
        BY <1>2, <2>2 DEF Contents
      <3> QED
        BY <3>1, <3>2 DEF StoreInv, StoreTypeOK, NoZeroResult
    <2> QED
      BY <2>1, <2>2
  <1>3. Contents \in [1..count -> Results]
    BY <1>2 DEF Contents
  <1>4. Contents \in Seq(Results) /\ Len(Contents) = count
    BY <1>1, <1>3
  <1> QED
    BY <1>4 DEF Contents

\* Add preserves the invariant.
LEMMA AddInv ==
    ASSUME StoreInv, NEW r \in Results, Add(r)
    PROVE  StoreInv'
  <1>1. /\ head \in 0..(Cap - 1) /\ count \in 0..Cap
        /\ buf \in [0..(Cap - 1) -> Results \union {Zero}]
        /\ flushed \in Nat /\ added \in Nat /\ out \in Seq(Results)
    BY DEF StoreInv, StoreTypeOK
  <1>2. /\ buf' = [buf EXCEPT ![head] = r]
        /\ head' = IF head = Cap - 1 THEN 0 ELSE head + 1
        /\ count' = IF count < Cap THEN count + 1 ELSE count
        /\ added' = added + 1 /\ flushed' = flushed /\ out' = out
    BY <1>1, NextHead DEF Add
  <1>3. StoreTypeOK'
    BY <1>1, <1>2 DEF StoreTypeOK
  <1>4. HeadFollowsCount'
    BY <1>1, <1>2 DEF StoreInv, HeadFollowsCount
  <1>5. NoZeroResult'
    BY <1>1, <1>2 DEF StoreInv, HeadFollowsCount, NoZeroResult
  <1> QED
    BY <1>3, <1>4, <1>5 DEF StoreInv

\* DrainAll preserves the invariant.
LEMMA DrainInv ==
    ASSUME StoreInv, DrainAll
    PROVE  StoreInv'
  <1>1. Contents \in Seq(Results) /\ <<>> \in Seq(Results)
    BY ContentsType, EmptySeq
  <1>2. StoreTypeOK'
    <2>1. 0 \in 0..(Cap - 1) /\ 0 \in 0..Cap
      OBVIOUS
    <2>2. CASE count = 0
      BY <1>1, <2>1, <2>2 DEF StoreInv, StoreTypeOK, DrainAll
    <2>3. CASE count # 0
      <3>1. /\ out' = Contents /\ flushed' = flushed + count /\ count' = 0 /\ head' = 0
            /\ buf' = buf /\ added' = added
        BY <2>3 DEF DrainAll
      <3>2. flushed + count \in Nat
        BY DEF StoreInv, StoreTypeOK
      <3> QED
        BY <1>1, <2>1, <3>1, <3>2 DEF StoreInv, StoreTypeOK
    <2> QED
      BY <2>2, <2>3
  <1>3. HeadFollowsCount' /\ NoZeroResult'
    BY DEF StoreInv, StoreTypeOK, DrainAll, HeadFollowsCount, NoZeroResult
  <1> QED
    BY <1>2, <1>3 DEF StoreInv

\* The ring buffer's invariant.
THEOREM RingInvariant == StoreSpec => []StoreInv
  <1>1. StoreInit => StoreInv
    <2> SUFFICES ASSUME StoreInit PROVE StoreInv
      OBVIOUS
    <2>1. <<>> \in Seq(Results) /\ 0 \in 0..(Cap - 1)
      BY EmptySeq
    <2> QED
      BY <2>1 DEF StoreInit, StoreInv, StoreTypeOK, HeadFollowsCount, NoZeroResult
  <1>2. StoreInv /\ [StoreNext]_storeVars => StoreInv'
    <2> SUFFICES ASSUME StoreInv, [StoreNext]_storeVars PROVE StoreInv'
      OBVIOUS
    <2>1. CASE UNCHANGED storeVars
      BY <2>1 DEF storeVars, StoreInv, StoreTypeOK, HeadFollowsCount, NoZeroResult
    <2> QED
      BY <2>1, AddInv, DrainInv DEF StoreNext
  <1> QED
    BY <1>1, <1>2, PTL DEF StoreSpec

-----------------------------------------------------------------------------
(* Refinement *)

\* Adding to the ring adds to the queue, dropping the oldest when full.
LEMMA AddIsQueueAdd ==
    ASSUME StoreInv, NEW r \in Results, Add(r)
    PROVE  Contents' = IF Len(Contents) < Cap THEN Append(Contents, r)
                                              ELSE Append(Tail(Contents), r)
  <1>1. /\ head \in 0..(Cap - 1) /\ count \in 0..Cap
        /\ buf \in [0..(Cap - 1) -> Results \union {Zero}]
        /\ count < Cap => head = count
    BY DEF StoreInv, StoreTypeOK, HeadFollowsCount
  <1>2. /\ buf' = [buf EXCEPT ![head] = r]
        /\ head' = IF head = Cap - 1 THEN 0 ELSE head + 1
        /\ count' = IF count < Cap THEN count + 1 ELSE count
    BY <1>1, NextHead DEF Add
  <1>3. /\ Contents \in Seq(Results) /\ Len(Contents) = count
        /\ \A i \in 1..count : Contents[i] =
              IF count = Cap THEN buf[(head + i - 1) % Cap] ELSE buf[i - 1]
    BY ContentsType
  <1>4. StoreInv'
    BY AddInv
  <1>5. /\ Contents' \in Seq(Results) /\ Len(Contents') = count'
        /\ \A i \in 1..count' : Contents'[i] =
              IF count' = Cap THEN buf'[(head' + i - 1) % Cap] ELSE buf'[i - 1]
    <2>1. StoreInv' => (/\ Contents \in Seq(Results) /\ Len(Contents) = count
                        /\ \A i \in 1..count : Contents[i] =
                             IF count = Cap THEN buf[(head + i - 1) % Cap] ELSE buf[i - 1])'
      BY ContentsType, PTL
    <2> QED
      BY <1>4, <2>1
  <1>6. CASE count < Cap
    <2> DEFINE t == Append(Contents, r)
    <2>1. /\ t \in Seq(Results) /\ Len(t) = count + 1
          /\ \A i \in 1..(count + 1) : t[i] = IF i <= count THEN Contents[i] ELSE r
      BY <1>1, <1>3
    <2>2. ASSUME NEW i \in 1..(count + 1)
          PROVE  Contents'[i] = t[i]
      <3>1. i - 1 \in 0..(Cap - 1) /\ i \in 1..Cap
        BY <1>1, <1>6
      <3>2. Contents'[i] = buf'[i - 1]
        <4>1. CASE count + 1 = Cap
          <5>1. head' = 0 /\ count' = Cap
            BY <1>1, <1>2, <1>6, <4>1
          <5>2. (0 + i - 1) % Cap = i - 1
            BY <3>1, RingIndex
          <5> QED
            BY <1>5, <3>1, <5>1, <5>2
        <4>2. CASE count + 1 # Cap
          BY <1>2, <1>5, <1>6, <4>2
        <4> QED
          BY <4>1, <4>2
      <3>3. CASE i = count + 1
        BY <1>1, <1>2, <1>6, <2>1, <3>2, <3>3
      <3>4. CASE i # count + 1
        BY <1>1, <1>2, <1>3, <1>6, <2>1, <3>1, <3>2, <3>4
      <3> QED
        BY <3>3, <3>4
    <2>3. Len(Contents') = count + 1
      BY <1>2, <1>5, <1>6
    <2> HIDE DEF t
    <2>4. Contents' = t
      BY <1>5, <2>1, <2>2, <2>3, SeqEqual
    <2> QED
      BY <1>3, <1>6, <2>4 DEF t
  <1>7. CASE ~(count < Cap)
    <2> DEFINE u == Tail(Contents)
               t == Append(u, r)
    <2>1. count = Cap /\ count' = Cap
      BY <1>1, <1>2, <1>7
    <2>2. Contents # <<>>
      BY <1>3, <2>1
    <2>3. /\ u \in Seq(Results) /\ Len(u) = Cap - 1
          /\ \A i \in 1..(Cap - 1) : u[i] = Contents[i + 1]
      BY <1>3, <2>1, <2>2, HeadTailProperties
    <2> HIDE DEF u
    <2>4. /\ t \in Seq(Results) /\ Len(t) = Cap
          /\ \A i \in 1..Cap : t[i] = IF i <= Cap - 1 THEN u[i] ELSE r
      BY <2>3
    <2> HIDE DEF t
    <2>5. ASSUME NEW i \in 1..Cap
          PROVE  Contents'[i] = t[i]
      <3>1. Contents'[i] = buf'[(head' + i - 1) % Cap]
        BY <1>5, <2>1
      <3>2. head' \in 0..(Cap - 1)
        BY <1>1, <1>2
      <3>3. (head' + i - 1) % Cap = IF head' + i - 1 < Cap THEN head' + i - 1 ELSE head' + i - 1 - Cap
        BY <3>2, RingIndex
      <3>4. CASE i = Cap
        <4>1. (head' + i - 1) % Cap = head
          BY <1>1, <1>2, <3>3, <3>4
        <4> QED
          BY <1>1, <1>2, <2>4, <3>1, <3>4, <4>1
      <3>5. CASE i # Cap
        <4>1. i + 1 \in 1..Cap /\ i \in 1..(Cap - 1)
          BY <3>5
        <4>2. (head + (i + 1) - 1) % Cap = IF head + (i + 1) - 1 < Cap THEN head + (i + 1) - 1
                                                                      ELSE head + (i + 1) - 1 - Cap
          BY <1>1, <4>1, RingIndex
        <4>3. (head' + i - 1) % Cap = (head + (i + 1) - 1) % Cap /\ (head' + i - 1) % Cap # head
              /\ (head' + i - 1) % Cap \in 0..(Cap - 1)
          BY <1>1, <1>2, <3>2, <3>3, <4>1, <4>2
        <4>4. Contents'[i] = buf[(head + (i + 1) - 1) % Cap]
          BY <1>1, <1>2, <3>1, <4>3
        <4>5. Contents[i + 1] = buf[(head + (i + 1) - 1) % Cap]
          BY <1>3, <2>1, <4>1
        <4> QED
          BY <2>3, <2>4, <4>1, <4>4, <4>5
      <3> QED
        BY <3>4, <3>5
    <2>6. Len(Contents') = Cap
      BY <1>5, <2>1
    <2>7. Contents' = t
      BY <1>5, <2>4, <2>5, <2>6, SeqEqual
    <2> QED
      BY <1>3, <2>1, <2>7 DEF t, u
  <1> QED
    BY <1>6, <1>7

\* DrainAll hands over the queue and leaves it empty.
LEMMA DrainEmpties ==
    ASSUME StoreInv, DrainAll
    PROVE  /\ out' = Contents /\ Contents' = <<>> /\ Contents \in Seq(Results)
           /\ TotalAdded' = TotalAdded /\ added' = added
  <1>1. count' = 0 /\ added' = added
    BY DEF DrainAll
  <1>2. Contents' = <<>>
    BY <1>1 DEF Contents
  <1>3. count = 0 => Contents = <<>>
    BY DEF Contents
  <1>4. out' = Contents
    BY <1>3 DEF DrainAll
  <1>5. TotalAdded' = TotalAdded
    BY DEF DrainAll, TotalAdded, StoreInv, StoreTypeOK
  <1> QED
    BY <1>1, <1>2, <1>4, <1>5, ContentsType

\* Every behaviour of the ring buffer is a behaviour of the queue.
THEOREM RingImplementsQueue == StoreSpec => ImplementsQueue
  <1>1. StoreInit => Queue!QInit
    BY DEF StoreInit, Queue!QInit, Contents
  <1>2. StoreInv /\ [StoreNext]_storeVars => [Queue!QNext]_<<Contents, out>>
    <2> SUFFICES ASSUME StoreInv, [StoreNext]_storeVars
                 PROVE  [Queue!QNext]_<<Contents, out>>
      OBVIOUS
    <2>1. ASSUME NEW r \in Results, Add(r)
          PROVE  Queue!QAdd(r)
      BY <2>1, AddIsQueueAdd DEF Add, Queue!QAdd
    <2>2. CASE DrainAll
      BY <2>2, DrainEmpties DEF Queue!QNext, Queue!QDrain
    <2>3. CASE UNCHANGED storeVars
      BY <2>3 DEF storeVars, Contents
    <2> QED
      BY <2>1, <2>2, <2>3 DEF StoreNext, Queue!QNext
  <1> QED
    BY <1>1, <1>2, RingInvariant, PTL DEF StoreSpec, ImplementsQueue, Queue!QSpec

-----------------------------------------------------------------------------
(* How often a result occurs in a sequence *)

Positions(r, s) == {i \in DOMAIN s : s[i] = r}

\* Occurrences counts the positions of a finite sequence.
LEMMA OccurrencesType ==
    ASSUME NEW s \in Seq(Results), NEW r
    PROVE  /\ Positions(r, s) \in SUBSET (1..Len(s)) /\ IsFiniteSet(Positions(r, s))
           /\ Occurrences(r, s) = Cardinality(Positions(r, s))
           /\ Occurrences(r, s) \in Nat
           /\ Occurrences(r, s) = 0 <=> \A i \in DOMAIN s : s[i] # r
  <1>1. Positions(r, s) \in SUBSET (1..Len(s)) /\ Len(s) \in Nat
    BY LenProperties DEF Positions
  <1>2. IsFiniteSet(Positions(r, s))
    <2>1. IsFiniteSet(1..Len(s))
      BY <1>1, FS_Interval
    <2> QED
      BY <1>1, <2>1, FS_Subset
  <1>3. Occurrences(r, s) = Cardinality(Positions(r, s))
    BY DEF Occurrences, Positions
  <1>4. Positions(r, s) = {} <=> \A i \in DOMAIN s : s[i] # r
    BY DEF Positions
  <1> QED
    BY <1>1, <1>2, <1>3, <1>4, FS_CardinalityType, FS_EmptySet

\* Nothing occurs in the empty sequence.
LEMMA OccurrencesEmpty == \A r : Occurrences(r, <<>>) = 0
  <1> DEFINE e == <<>>
  <1>1. e \in Seq(Results) /\ DOMAIN e = {}
    OBVIOUS
  <1>2. \A r : Occurrences(r, e) = 0
    BY <1>1, OccurrencesType
  <1> QED
    BY <1>2

\* Moving positions along does not change how many there are.
LEMMA ShiftedPositions ==
    ASSUME NEW A \in SUBSET Nat, IsFiniteSet(A), NEW n \in Nat
    PROVE  /\ IsFiniteSet({i + n : i \in A})
           /\ Cardinality({i + n : i \in A}) = Cardinality(A)
  <1> DEFINE B == {i + n : i \in A}
             f == [i \in A |-> i + n]
  <1>1. f \in [A -> B]
    OBVIOUS
  <1>2. \A i, j \in A : f[i] = f[j] => i = j
    OBVIOUS
  <1>3. \A k \in B : \E i \in A : f[i] = k
    OBVIOUS
  <1> HIDE DEF f, B
  <1>4. f \in Bijection(A, B)
    BY <1>1, <1>2, <1>3, Fun_IsBij
  <1>5. ExistsBijection(A, B)
    BY <1>4, Fun_ExistsBij
  <1>6. IsFiniteSet(B) /\ Cardinality(B) = Cardinality(A)
    BY <1>5, FS_Bijection
  <1> QED
    BY <1>6 DEF B

\* Sets of positions without a common member.
LEMMA DisjointPositions ==
    ASSUME NEW A, NEW B, IsFiniteSet(A), IsFiniteSet(B), A \cap B = {}
    PROVE  Cardinality(A \cup B) = Cardinality(A) + Cardinality(B)
  <1>1. Cardinality(A \cup B) = Cardinality(A) + Cardinality(B) - Cardinality(A \cap B)
    BY FS_Union
  <1>2. Cardinality(A \cap B) = 0 /\ Cardinality(A) \in Nat /\ Cardinality(B) \in Nat
    BY FS_EmptySet, FS_CardinalityType
  <1> QED
    BY <1>1, <1>2

\* What a batch adds to the delivered results.
LEMMA OccurrencesConcat ==
    ASSUME NEW s \in Seq(Results), NEW t \in Seq(Results), NEW r
    PROVE  Occurrences(r, s \o t) = Occurrences(r, s) + Occurrences(r, t)
  <1> DEFINE A == Positions(r, s)
             B == Positions(r, t)
             C == {i + Len(s) : i \in B}
  <1>1. /\ Len(s) \in Nat /\ Len(t) \in Nat /\ s \o t \in Seq(Results)
        /\ DOMAIN s = 1..Len(s) /\ DOMAIN t = 1..Len(t) /\ DOMAIN (s \o t) = 1..(Len(s) + Len(t))
        /\ \A i \in 1..(Len(s) + Len(t)) : (s \o t)[i] = IF i <= Len(s) THEN s[i] ELSE t[i - Len(s)]
    BY LenProperties, ConcatProperties
  <1>2. A \in SUBSET (1..Len(s)) /\ IsFiniteSet(A) /\ B \in SUBSET (1..Len(t)) /\ IsFiniteSet(B)
    BY OccurrencesType
  <1>3. Positions(r, s \o t) = A \cup C
    <2>1. ASSUME NEW i \in 1..(Len(s) + Len(t))
          PROVE  (s \o t)[i] = r <=> i \in A \/ i \in C
      <3>1. CASE i <= Len(s)
        <4>1. i \in A <=> s[i] = r
          BY <1>1, <3>1 DEF Positions
        <4>2. i \notin C
          BY <1>1, <1>2, <3>1
        <4> QED
          BY <1>1, <3>1, <4>1, <4>2
      <3>2. CASE i > Len(s)
        <4>1. i - Len(s) \in 1..Len(t) /\ i = (i - Len(s)) + Len(s)
          BY <1>1, <3>2
        <4>2. i - Len(s) \in B <=> t[i - Len(s)] = r
          BY <1>1, <4>1 DEF Positions
        <4>3. i \in C <=> i - Len(s) \in B
          <5>1. ASSUME NEW k \in B, i = k + Len(s) PROVE k = i - Len(s)
            BY <1>1, <1>2, <5>1
          <5> HIDE DEF B
          <5> QED
            BY <4>1, <5>1
        <4>4. i \notin A
          BY <1>1, <1>2, <3>2
        <4>5. (s \o t)[i] = t[i - Len(s)]
          BY <1>1, <3>2
        <4> QED
          BY <4>2, <4>3, <4>4, <4>5
      <3> QED
        BY <1>1, <3>1, <3>2
    <2>2. A \cup C \subseteq 1..(Len(s) + Len(t))
      BY <1>1, <1>2
    <2> QED
      BY <1>1, <2>1, <2>2 DEF Positions
  <1>4. A \cap C = {}
    BY <1>1, <1>2
  <1>5. IsFiniteSet(C) /\ Cardinality(C) = Cardinality(B)
    <2>1. B \in SUBSET Nat /\ IsFiniteSet(B)
      BY <1>1, <1>2
    <2> HIDE DEF B
    <2> QED
      BY <1>1, <2>1, ShiftedPositions
  <1> HIDE DEF A, B, C
  <1>6. Cardinality(A \cup C) = Cardinality(A) + Cardinality(C)
    BY <1>2, <1>4, <1>5, DisjointPositions
  <1> QED
    BY <1>1, <1>3, <1>5, <1>6, OccurrencesType DEF A, B

\* Once in a sequence of one.
LEMMA OccurrencesOne ==
    ASSUME NEW x \in Results, NEW r
    PROVE  <<x>> \in Seq(Results) /\ Occurrences(r, <<x>>) = IF x = r THEN 1 ELSE 0
  <1> DEFINE s == <<x>>
  <1>1. s \in Seq(Results) /\ DOMAIN s = {1} /\ s[1] = x
    OBVIOUS
  <1> HIDE DEF s
  <1>2. Positions(r, s) = IF x = r THEN {1} ELSE {}
    BY <1>1 DEF Positions
  <1>3. Cardinality({1}) = 1 /\ Cardinality({}) = 0
    BY FS_Singleton, FS_EmptySet
  <1>4. Occurrences(r, s) = IF x = r THEN 1 ELSE 0
    BY <1>1, <1>2, <1>3, OccurrencesType
  <1> QED
    BY <1>1, <1>4 DEF s

\* What adding a result to the queue adds.
LEMMA OccurrencesAppend ==
    ASSUME NEW s \in Seq(Results), NEW x \in Results, NEW r
    PROVE  Occurrences(r, Append(s, x)) = Occurrences(r, s) + IF x = r THEN 1 ELSE 0
  <1>1. Append(s, x) = s \o <<x>>
    BY AppendIsConcat
  <1>2. Occurrences(r, s \o <<x>>) = Occurrences(r, s) + Occurrences(r, <<x>>)
    BY OccurrencesOne, OccurrencesConcat
  <1>3. Occurrences(r, <<x>>) = IF x = r THEN 1 ELSE 0
    BY OccurrencesOne
  <1> QED
    BY <1>1, <1>2, <1>3

\* What dropping the oldest result takes away.
LEMMA OccurrencesTail ==
    ASSUME NEW s \in Seq(Results), s # <<>>, NEW r
    PROVE  Occurrences(r, s) = Occurrences(r, Tail(s)) + IF s[1] = r THEN 1 ELSE 0
  <1>1. s[1] \in Results /\ Tail(s) \in Seq(Results) /\ Len(s) \in Nat \ {0}
    BY EmptySeq, ElementOfSeq, HeadTailProperties
  <1>2. s = <<s[1]>> \o Tail(s)
    <2>1. SubSeq(s, 1, Len(s)) = <<s[1]>> \o SubSeq(s, 2, Len(s))
      BY <1>1, SubSeqRecursiveFirst
    <2> QED
      <3>1. SubSeq(s, 1, Len(s)) = s
        BY SubSeqFull
      <3>2. SubSeq(s, 2, Len(s)) = Tail(s)
        BY TailIsSubSeq
      <3> QED
        BY <2>1, <3>1, <3>2
  <1>3. Occurrences(r, <<s[1]>> \o Tail(s)) = Occurrences(r, <<s[1]>>) + Occurrences(r, Tail(s))
    <2>1. <<s[1]>> \in Seq(Results)
      BY <1>1, OccurrencesOne
    <2> QED
      BY <1>1, <2>1, OccurrencesConcat
  <1>4. Occurrences(r, Tail(s)) \in Nat
    BY <1>1, OccurrencesType
  <1>5. Occurrences(r, <<s[1]>>) = IF s[1] = r THEN 1 ELSE 0
    BY <1>1, OccurrencesOne
  <1> QED
    <2> DEFINE one == <<s[1]>>
               all == one \o Tail(s)
               n == IF s[1] = r THEN 1 ELSE 0
    <2>1. s = all /\ Occurrences(r, all) = Occurrences(r, one) + Occurrences(r, Tail(s))
          /\ Occurrences(r, one) = n /\ n \in Nat
      BY <1>2, <1>3, <1>5
    <2> HIDE DEF one, all, n
    <2>2. Occurrences(r, s) = Occurrences(r, Tail(s)) + n
      BY <1>4, <2>1
    <2> QED
      BY <2>2 DEF n

-----------------------------------------------------------------------------
(* Capture *)

\* The number of places a result is in.
Places(r) ==
    Occurrences(r, Contents) + Occurrences(r, runner.batch)
      + Occurrences(r, closer.batch) + Occurrences(r, delivered)
      + Cardinality({r} \intersect lost) + Cardinality({r} \intersect overwritten)

\* A flush that is not sending holds no batch, so a new one never forgets results.
FlushersInv ==
    /\ runner \in [pc : {"idle", "sending", "stopped"}, batch : Seq(Results)]
    /\ closer \in [pc : {"idle", "draining", "sending", "closed", "exited"}, batch : Seq(Results)]
    /\ runner.pc # "sending" => runner.batch = <<>>
    /\ closer.pc # "sending" => closer.batch = <<>>

CaptureTypes ==
    /\ mirror \in [Results -> {"new", "unmirrored", "calling", "uncaptured", "stored"}]
    /\ delivered \in Seq(Results) /\ lost \subseteq Results
    /\ overwritten \subseteq Results /\ IsFiniteSet(overwritten)

\* The inductive invariant.  A result not stored yet is nowhere: without that, adding it
\* could put it in a second place.
CaptureInv ==
    /\ StoreInv /\ FlushersInv /\ CaptureTypes
    /\ \A r \in Results : Places(r) = IF mirror[r] = "stored" THEN 1 ELSE 0
    /\ StatsMissOnlyOverwritten

\* A result is in a set or it is not.
LEMMA OneIn == \A r, S : Cardinality({r} \intersect S) = IF r \in S THEN 1 ELSE 0
  <1>1. ASSUME NEW r, NEW S
        PROVE  Cardinality({r} \intersect S) = IF r \in S THEN 1 ELSE 0
    <2>1. {r} \intersect S = IF r \in S THEN {r} ELSE {}
      OBVIOUS
    <2> QED
      BY <2>1, FS_Singleton, FS_EmptySet
  <1> QED
    BY <1>1

\* The places counted one by one.
LEMMA PlacesOf ==
    ASSUME CaptureInv, NEW r \in Results
    PROVE  /\ Occurrences(r, Contents) \in Nat /\ Occurrences(r, runner.batch) \in Nat
           /\ Occurrences(r, closer.batch) \in Nat /\ Occurrences(r, delivered) \in Nat
           /\ Cardinality({r} \intersect lost) \in {0, 1}
           /\ Cardinality({r} \intersect overwritten) \in {0, 1}
           /\ Places(r) \in {0, 1}
  <1>1. Contents \in Seq(Results)
    BY ContentsType DEF CaptureInv
  <1>2. runner.batch \in Seq(Results) /\ closer.batch \in Seq(Results) /\ delivered \in Seq(Results)
    BY DEF CaptureInv, FlushersInv, CaptureTypes
  <1> QED
    BY <1>1, <1>2, OccurrencesType, OneIn DEF CaptureInv

\* A batch that could not be sent.
LEMMA LostBatch ==
    ASSUME NEW b \in Seq(Results), NEW L, NEW r,
           Occurrences(r, b) + Cardinality({r} \intersect L) <= 1
    PROVE  Cardinality({r} \intersect (L \union {b[i] : i \in DOMAIN b}))
             = Cardinality({r} \intersect L) + Occurrences(r, b)
  <1> DEFINE M == L \union {b[i] : i \in DOMAIN b}
  <1>1. Occurrences(r, b) \in Nat /\ (Occurrences(r, b) = 0 <=> \A i \in DOMAIN b : b[i] # r)
    BY OccurrencesType
  <1>2. r \in M <=> r \in L \/ Occurrences(r, b) # 0
    BY <1>1
  <1>3. /\ Cardinality({r} \intersect L) = IF r \in L THEN 1 ELSE 0
        /\ Cardinality({r} \intersect M) = IF r \in M THEN 1 ELSE 0
    BY OneIn
  <1> HIDE DEF M
  <1>4. Cardinality({r} \intersect M) = Cardinality({r} \intersect L) + Occurrences(r, b)
    BY <1>1, <1>2, <1>3
  <1> QED
    BY <1>4 DEF M

\* Capture starts with nothing stored.
LEMMA CaptureInit == Init => CaptureInv
  <1> SUFFICES ASSUME Init PROVE CaptureInv
    OBVIOUS
  <1>1. StoreInv
    <2>1. <<>> \in Seq(Results) /\ 0 \in 0..(Cap - 1)
      BY EmptySeq
    <2> QED
      BY <2>1 DEF Init, StoreInit, StoreInv, StoreTypeOK, HeadFollowsCount, NoZeroResult
  <1>2. FlushersInv
    BY EmptySeq DEF Init, Idle, FlushersInv
  <1>3. CaptureTypes
    BY EmptySeq, FS_EmptySet DEF Init, CaptureTypes
  <1>4. Contents = <<>> /\ runner.batch = <<>> /\ closer.batch = <<>> /\ delivered = <<>>
        /\ lost = {} /\ overwritten = {}
    BY DEF Init, StoreInit, Contents, Idle
  <1>5. ASSUME NEW r \in Results PROVE Places(r) = IF mirror[r] = "stored" THEN 1 ELSE 0
    <2>1. Places(r) = 0
      BY <1>4, OccurrencesEmpty, OneIn DEF Places
    <2> QED
      BY <2>1 DEF Init
  <1>6. StatsMissOnlyOverwritten
    BY FS_EmptySet DEF Init, StoreInit, StatsMissOnlyOverwritten, TotalAdded
  <1> QED
    BY <1>1, <1>2, <1>3, <1>5, <1>6 DEF CaptureInv

\* The store and its contents are left alone.
LEMMA StoreAlone ==
    ASSUME CaptureInv, UNCHANGED storeVars
    PROVE  StoreInv' /\ Contents' = Contents /\ TotalAdded' = TotalAdded /\ added' = added
  BY DEF CaptureInv, storeVars, StoreInv, StoreTypeOK, HeadFollowsCount, NoZeroResult, Contents,
         TotalAdded

\* A step that moves no result.
LEMMA NothingMoves ==
    ASSUME CaptureInv, UNCHANGED <<storeVars, delivered, lost, overwritten>>, FlushersInv',
           runner'.batch = runner.batch, closer'.batch = closer.batch,
           mirror' \in [Results -> {"new", "unmirrored", "calling", "uncaptured", "stored"}],
           \A r \in Results : mirror'[r] = "stored" <=> mirror[r] = "stored"
    PROVE  CaptureInv'
  <1>1. StoreInv' /\ Contents' = Contents /\ TotalAdded' = TotalAdded /\ added' = added
    BY StoreAlone
  <1>2. CaptureTypes'
    BY DEF CaptureInv, CaptureTypes
  <1>3. \A r \in Results : Places(r)' = Places(r)
    BY <1>1 DEF Places
  <1>4. \A r \in Results : Places(r)' = IF mirror'[r] = "stored" THEN 1 ELSE 0
    BY <1>3 DEF CaptureInv
  <1>5. StatsMissOnlyOverwritten'
    BY <1>1 DEF CaptureInv, StatsMissOnlyOverwritten
  <1> QED
    BY <1>1, <1>2, <1>4, <1>5 DEF CaptureInv

\* A flush moves the whole buffer into a batch that was empty.
LEMMA FlushMoves ==
    ASSUME CaptureInv, DrainAll, FlushersInv',
           UNCHANGED <<mirror, delivered, lost, overwritten>>,
           \/ runner.batch = <<>> /\ runner'.batch = out' /\ closer' = closer
           \/ closer.batch = <<>> /\ closer'.batch = out' /\ runner' = runner
    PROVE  CaptureInv'
  <1>1. /\ out' = Contents /\ Contents' = <<>> /\ TotalAdded' = TotalAdded /\ added' = added
        /\ StoreInv'
    BY DrainEmpties, DrainInv DEF CaptureInv
  <1>2. CaptureTypes'
    BY DEF CaptureInv, CaptureTypes
  <1>3. ASSUME NEW r \in Results PROVE Places(r)' = Places(r)
    <2>1. Occurrences(r, Contents') = 0 /\ Occurrences(r, <<>>) = 0
      BY <1>1, OccurrencesEmpty
    <2> QED
      BY <1>1, <2>1, PlacesOf DEF Places
  <1>4. \A r \in Results : Places(r)' = IF mirror'[r] = "stored" THEN 1 ELSE 0
    BY <1>3 DEF CaptureInv
  <1>5. StatsMissOnlyOverwritten'
    BY <1>1 DEF CaptureInv, StatsMissOnlyOverwritten
  <1> QED
    BY <1>1, <1>2, <1>4, <1>5 DEF CaptureInv

\* The batch b leaves the flushers.
BatchLeaves(b) ==
    \A r \in Results :
        Occurrences(r, runner.batch) + Occurrences(r, closer.batch)
          = Occurrences(r, b) + (Occurrences(r, runner'.batch) + Occurrences(r, closer'.batch))

\* A finished send moves its batch to the delivered or to the lost results.
LEMMA SendMoves ==
    ASSUME CaptureInv, FlushersInv', NEW b \in Seq(Results), NEW ok \in BOOLEAN, Sent(b, ok),
           UNCHANGED <<storeVars, mirror, overwritten>>,
           BatchLeaves(b)
    PROVE  CaptureInv'
  <1>1. StoreInv' /\ Contents' = Contents /\ TotalAdded' = TotalAdded /\ added' = added
    BY StoreAlone
  <1>2. CaptureTypes'
    <2>1. delivered' \in Seq(Results)
      BY ConcatProperties DEF Sent, CaptureInv, CaptureTypes
    <2>2. lost' \subseteq Results
      BY LenProperties, ElementOfSeq DEF Sent, CaptureInv, CaptureTypes
    <2> QED
      BY <2>1, <2>2 DEF CaptureInv, CaptureTypes
  <1>3. ASSUME NEW r \in Results PROVE Places(r)' = Places(r)
    <2>a. /\ Occurrences(r, Contents) \in Nat /\ Occurrences(r, runner.batch) \in Nat
          /\ Occurrences(r, closer.batch) \in Nat /\ Occurrences(r, delivered) \in Nat
          /\ Cardinality({r} \intersect lost) \in {0, 1}
          /\ Cardinality({r} \intersect overwritten) \in {0, 1}
          /\ Places(r) \in {0, 1}
      BY PlacesOf
    <2>b. runner'.batch \in Seq(Results) /\ closer'.batch \in Seq(Results)
      BY DEF FlushersInv
    <2>c. /\ Occurrences(r, b) \in Nat /\ Occurrences(r, runner'.batch) \in Nat
          /\ Occurrences(r, closer'.batch) \in Nat
      BY <2>b, OccurrencesType
    <2>d. /\ Occurrences(r, delivered') \in Nat /\ Cardinality({r} \intersect lost') \in Nat
          /\ overwritten' = overwritten
      BY <1>2, OccurrencesType, OneIn DEF CaptureTypes
    <2> DEFINE c == Occurrences(r, Contents)
               n == Occurrences(r, b)
               d == Occurrences(r, delivered)
               l == Cardinality({r} \intersect lost)
               o == Cardinality({r} \intersect overwritten)
               other == Occurrences(r, runner'.batch) + Occurrences(r, closer'.batch)
    <2>1. c \in Nat /\ n \in Nat /\ d \in Nat /\ l \in Nat /\ o \in Nat /\ other \in Nat
      BY <2>a, <2>c
    <2>2. Places(r) <= 1 /\ Places(r) \in Nat
      BY <2>a
    <2>3. Places(r) = c + n + other + d + l + o
      <3> DEFINE x == Occurrences(r, runner.batch)
                 y == Occurrences(r, closer.batch)
      <3>1. x \in Nat /\ y \in Nat
        BY <2>a
      <3>2. x + y = n + other
        BY DEF BatchLeaves
      <3>3. Places(r) = c + x + y + d + l + o
        BY DEF Places
      <3> HIDE DEF x, y, c, n, d, l, o, other
      <3> QED
        BY <2>1, <3>1, <3>2, <3>3
    <2> HIDE DEF c, n, d, l, o, other
    <2>4. Occurrences(r, delivered') + Cardinality({r} \intersect lost') = d + l + n
      <3>1. CASE ok
        <4>1. Occurrences(r, delivered \o b) = d + n
          BY OccurrencesConcat DEF CaptureInv, CaptureTypes, d, n
        <4>2. delivered' = delivered \o b /\ lost' = lost
          BY <3>1 DEF Sent
        <4>3. Occurrences(r, delivered') = d + n /\ Cardinality({r} \intersect lost') = l
          BY <4>1, <4>2 DEF l
        <4> QED
          BY <2>1, <4>3
      <3>2. CASE ~ok
        <4>1. n + l <= 1
          BY <2>1, <2>2, <2>3
        <4>2. Cardinality({r} \intersect (lost \union {b[i] : i \in DOMAIN b})) = l + n
          BY <4>1, LostBatch DEF n, l
        <4>3. delivered' = delivered /\ lost' = lost \union {b[i] : i \in DOMAIN b}
          BY <3>2 DEF Sent
        <4>4. Occurrences(r, delivered') = d /\ Cardinality({r} \intersect lost') = l + n
          BY <4>2, <4>3 DEF d
        <4> QED
          BY <2>1, <4>4
      <3> QED
        BY <3>1, <3>2
    <2>5. Places(r)' = c + other + d + l + n + o
      <3> DEFINE x == Occurrences(r, runner'.batch)
                 y == Occurrences(r, closer'.batch)
                 e == Occurrences(r, delivered')
                 m == Cardinality({r} \intersect lost')
      <3>1. x \in Nat /\ y \in Nat /\ e \in Nat /\ m \in Nat /\ other = x + y /\ e + m = d + l + n
        BY <2>c, <2>d, <2>4 DEF other
      <3>2. Places(r)' = c + x + y + e + m + o
        BY <1>1, <2>d DEF Places, c, o
      <3> HIDE DEF x, y, e, m
      <3> QED
        BY <2>1, <3>1, <3>2
    <2> QED
      BY <2>1, <2>3, <2>5
  <1>4. \A r \in Results : Places(r)' = IF mirror'[r] = "stored" THEN 1 ELSE 0
    BY <1>3 DEF CaptureInv
  <1>5. StatsMissOnlyOverwritten'
    BY <1>1 DEF CaptureInv, StatsMissOnlyOverwritten
  <1> QED
    BY <1>1, <1>2, <1>4, <1>5 DEF CaptureInv

\* A stored result enters the buffer; the one it overwrites, if the buffer is full, was
\* in no other place.
LEMMA MirrorStores ==
    ASSUME CaptureInv, NEW r \in Results, MirrorReturns(r)
    PROVE  CaptureInv'
  <1> DEFINE h == Contents[1]
  <1>1. /\ Contents \in Seq(Results) /\ Len(Contents) = count /\ count \in 0..Cap
        /\ Add(r) /\ StoreInv /\ StoreInv'
    BY ContentsType, AddInv DEF MirrorReturns, CaptureInv, StoreInv, StoreTypeOK
  <1>2. /\ delivered' = delivered /\ lost' = lost /\ runner' = runner /\ closer' = closer
        /\ mirror[r] = "calling" /\ mirror' = [mirror EXCEPT ![r] = "stored"]
        /\ overwritten' = overwritten \union (IF count = Cap THEN {h} ELSE {})
    BY DEF MirrorReturns, flushVars
  <1>3. count < Cap => Contents' = Append(Contents, r) /\ overwritten' = overwritten
    BY <1>1, <1>2, AddIsQueueAdd
  <1>4. count = Cap => /\ Contents' = Append(Tail(Contents), r) /\ Contents # <<>> /\ h \in Results
                       /\ Tail(Contents) \in Seq(Results)
                       /\ overwritten' = overwritten \union {h}
    <2> SUFFICES ASSUME count = Cap
                 PROVE  /\ Contents' = Append(Tail(Contents), r) /\ Contents # <<>> /\ h \in Results
                        /\ Tail(Contents) \in Seq(Results)
                        /\ overwritten' = overwritten \union {h}
      OBVIOUS
    <2>1. Contents' = Append(Tail(Contents), r) /\ Len(Contents) >= 1
      BY <1>1, AddIsQueueAdd
    <2>2. Contents # <<>> /\ h \in Results
      BY <1>1, <2>1, EmptySeq, ElementOfSeq
    <2>3. Tail(Contents) \in Seq(Results)
      BY <1>1, <2>2, HeadTailProperties
    <2> QED
      BY <1>2, <2>1, <2>2, <2>3
  <1>5. count = Cap => h \notin overwritten
    <2> SUFFICES ASSUME count = Cap PROVE h \notin overwritten
      OBVIOUS
    <2>1. Occurrences(h, Contents) # 0
      <3>1. 1 \in DOMAIN Contents
        BY <1>1, LenProperties
      <3> QED
        BY <1>1, <3>1, OccurrencesType
    <2>2. /\ Occurrences(h, Contents) \in Nat /\ Occurrences(h, runner.batch) \in Nat
          /\ Occurrences(h, closer.batch) \in Nat /\ Occurrences(h, delivered) \in Nat
          /\ Cardinality({h} \intersect lost) \in {0, 1}
          /\ Cardinality({h} \intersect overwritten) \in {0, 1}
          /\ Places(h) \in {0, 1}
      BY <1>4, PlacesOf
    <2>3. Cardinality({h} \intersect overwritten) = 0
      <3> DEFINE c == Occurrences(h, Contents)
                 rest == Occurrences(h, runner.batch) + Occurrences(h, closer.batch)
                           + Occurrences(h, delivered) + Cardinality({h} \intersect lost)
                 o == Cardinality({h} \intersect overwritten)
      <3>1. Places(h) = c + rest + o /\ rest \in Nat
        BY <2>2 DEF Places
      <3> HIDE DEF c, rest, o
      <3>2. c \in Nat /\ c # 0 /\ o \in {0, 1} /\ c + rest + o <= 1
        BY <2>1, <2>2, <3>1 DEF c, o
      <3>3. o = 0
        BY <3>1, <3>2
      <3> QED
        BY <3>3 DEF o
    <2> QED
      BY <2>3, OneIn
  <1>6. CaptureTypes' /\ FlushersInv'
    <2>1. IsFiniteSet(overwritten') /\ overwritten' \subseteq Results
      <3>1. IsFiniteSet(overwritten) /\ overwritten \subseteq Results
        BY DEF CaptureInv, CaptureTypes
      <3>2. CASE count < Cap
        BY <1>3, <3>1, <3>2
      <3>3. CASE count = Cap
        <4>1. overwritten' = overwritten \union {h} /\ h \in Results
          BY <1>4, <3>3
        <4> HIDE DEF h
        <4> QED
          BY <3>1, <4>1, FS_AddElement
      <3> QED
        BY <1>1, <3>2, <3>3
    <2> QED
      BY <1>2, <2>1 DEF CaptureInv, CaptureTypes, FlushersInv
  <1>7. ASSUME NEW x \in Results
        PROVE  Places(x)' = Places(x) + IF x = r THEN 1 ELSE 0
    <2> DEFINE c == Occurrences(x, Contents)
               o == Cardinality({x} \intersect overwritten)
               k == IF x = r THEN 1 ELSE 0
               rest == Occurrences(x, runner.batch) + Occurrences(x, closer.batch)
                         + Occurrences(x, delivered) + Cardinality({x} \intersect lost)
    <2>1. /\ c \in Nat /\ Occurrences(x, runner.batch) \in Nat
          /\ Occurrences(x, closer.batch) \in Nat /\ Occurrences(x, delivered) \in Nat
          /\ Cardinality({x} \intersect lost) \in {0, 1} /\ o \in {0, 1}
      BY PlacesOf
    <2>2. Places(x) = c + rest + o /\ rest \in Nat /\ k \in Nat
      BY <2>1 DEF Places
    <2>3. Occurrences(x, Contents') \in Nat /\ Cardinality({x} \intersect overwritten') \in Nat
      <3>1. Contents' \in Seq(Results)
        BY <1>1, <1>3, <1>4, AppendProperties
      <3> QED
        BY <3>1, OccurrencesType, OneIn
    <2>4. Places(x)' = Occurrences(x, Contents') + rest + Cardinality({x} \intersect overwritten')
      BY <1>2, <2>1, <2>3 DEF Places
    <2>5. Occurrences(x, Contents') + Cardinality({x} \intersect overwritten') = c + o + k
      <3>1. CASE count < Cap
        <4>1. Occurrences(x, Append(Contents, r)) = c + k
          BY <1>1, OccurrencesAppend
        <4>2. Occurrences(x, Contents') = c + k /\ Cardinality({x} \intersect overwritten') = o
          BY <1>3, <3>1, <4>1
        <4> HIDE DEF c, o, k
        <4> QED
          BY <2>1, <2>2, <4>2
      <3>2. CASE count = Cap
        <4> DEFINE t == Occurrences(x, Tail(Contents))
                   e == IF h = x THEN 1 ELSE 0
        <4>1. c = t + e
          BY <1>1, <1>4, <3>2, OccurrencesTail
        <4>2. Occurrences(x, Append(Tail(Contents), r)) = t + k /\ t \in Nat
          BY <1>4, <3>2, OccurrencesAppend, OccurrencesType
        <4>3. Occurrences(x, Contents') = t + k
          BY <1>4, <3>2, <4>2
        <4>4. Cardinality({x} \intersect overwritten') = o + e
          <5>1. Cardinality({x} \intersect overwritten') = IF x \in overwritten' THEN 1 ELSE 0
            BY OneIn
          <5>2. o = IF x \in overwritten THEN 1 ELSE 0
            BY OneIn
          <5>3. (x \in overwritten' <=> x \in overwritten \/ h = x) /\ h \notin overwritten
            BY <1>4, <1>5, <3>2
          <5> HIDE DEF o
          <5> QED
            BY <5>1, <5>2, <5>3
        <4>5. e \in Nat
          OBVIOUS
        <4> HIDE DEF c, o, k, t, e
        <4> QED
          BY <2>1, <2>2, <4>1, <4>2, <4>3, <4>4, <4>5
      <3> QED
        BY <1>1, <3>1, <3>2
    <2> HIDE DEF c, o, rest
    <2> QED
      BY <2>1, <2>2, <2>3, <2>4, <2>5
  <1>8. ASSUME NEW x \in Results
        PROVE  Places(x)' = IF mirror'[x] = "stored" THEN 1 ELSE 0
    <2>1. CASE x = r
      <3>1. Places(x) = 0
        BY <1>2, <2>1 DEF CaptureInv
      <3>2. mirror'[x] = "stored"
        BY <1>2, <2>1 DEF CaptureInv, CaptureTypes
      <3> QED
        BY <1>7, <2>1, <3>1, <3>2
    <2>2. CASE x # r
      <3>1. mirror'[x] = mirror[x] /\ Places(x) \in {0, 1}
        BY <1>2, <2>2, PlacesOf DEF CaptureInv, CaptureTypes
      <3>2. Places(x)' = Places(x)
        BY <1>7, <2>2, <3>1
      <3> QED
        BY <3>1, <3>2 DEF CaptureInv
    <2> QED
      BY <2>1, <2>2
  <1>9. StatsMissOnlyOverwritten'
    <2>1. /\ flushed \in Nat /\ added \in Nat /\ Cardinality(overwritten) \in Nat
          /\ flushed' = flushed /\ added' = added + 1
          /\ count' = IF count < Cap THEN count + 1 ELSE count
      BY <1>1, FS_CardinalityType DEF StoreInv, StoreTypeOK, Add, CaptureInv, CaptureTypes
    <2>2. Cardinality(overwritten') = Cardinality(overwritten) + IF count = Cap THEN 1 ELSE 0
      <3>1. CASE count < Cap
        BY <1>1, <1>3, <2>1, <3>1
      <3>2. CASE count = Cap
        BY <1>4, <1>5, <3>2, FS_AddElement DEF CaptureInv, CaptureTypes
      <3> QED
        BY <1>1, <3>1, <3>2
    <2>3. flushed + count = added - Cardinality(overwritten)
      BY DEF CaptureInv, StatsMissOnlyOverwritten, TotalAdded
    <2>4. flushed' + count' = added' - Cardinality(overwritten')
      BY <1>1, <2>1, <2>2, <2>3
    <2> QED
      BY <2>4 DEF StatsMissOnlyOverwritten, TotalAdded
  <1> QED
    BY <1>1, <1>6, <1>8, <1>9 DEF CaptureInv

\* What StartFlush makes of a drain.
LEMMA FlushStarted ==
    ASSUME CaptureInv, DrainAll, NEW next
    PROVE  /\ StartFlush(next) = [pc |-> IF out' = <<>> THEN next ELSE "sending", batch |-> out']
           /\ StartFlush(next).batch = out' /\ out' \in Seq(Results)
           /\ StartFlush(next).pc = next \/ StartFlush(next).pc = "sending"
           /\ StartFlush(next).pc # "sending" => out' = <<>>
  <1>1. out' \in Seq(Results)
    BY DrainEmpties DEF CaptureInv
  <1> QED
    BY <1>1 DEF StartFlush

\* Every step of mirrors, flushers, reload and shutdown keeps the invariant.
LEMMA CaptureStep == ASSUME CaptureInv, [Next]_vars PROVE CaptureInv'
  <1>t. /\ runner \in [pc : {"idle", "sending", "stopped"}, batch : Seq(Results)]
        /\ closer \in [pc : {"idle", "draining", "sending", "closed", "exited"}, batch : Seq(Results)]
        /\ mirror \in [Results -> {"new", "unmirrored", "calling", "uncaptured", "stored"}]
        /\ runner.pc # "sending" => runner.batch = <<>>
        /\ closer.pc # "sending" => closer.batch = <<>>
        /\ <<>> \in Seq(Results)
    BY EmptySeq DEF CaptureInv, FlushersInv, CaptureTypes
  <1>1. ASSUME NEW r \in Results, ExecuteAsync(r) \/ MirrorPanics(r) PROVE CaptureInv'
    <2>1. PICK m \in {"unmirrored", "calling", "uncaptured"} : mirror' = [mirror EXCEPT ![r] = m]
      BY <1>1 DEF ExecuteAsync, MirrorPanics
    <2>2. mirror[r] \in {"new", "calling"}
      BY <1>1 DEF ExecuteAsync, MirrorPanics
    <2>3. mirror' \in [Results -> {"new", "unmirrored", "calling", "uncaptured", "stored"}]
      BY <1>t, <2>1
    <2>4. \A x \in Results : mirror'[x] = "stored" <=> mirror[x] = "stored"
      BY <1>t, <2>1, <2>2
    <2>5. UNCHANGED <<storeVars, delivered, lost, overwritten>> /\ runner' = runner
          /\ closer' = closer
      BY <1>1 DEF ExecuteAsync, MirrorPanics, flushVars
    <2>6. FlushersInv'
      BY <2>5 DEF CaptureInv, FlushersInv
    <2> QED
      BY <2>3, <2>4, <2>5, <2>6, NothingMoves
  <1>2. ASSUME NEW r \in Results, MirrorReturns(r) PROVE CaptureInv'
    BY <1>2, MirrorStores
  <1>3. ASSUME NEW cfg, Reload(cfg) PROVE CaptureInv'
    <2>1. UNCHANGED <<storeVars, mirror, delivered, lost, overwritten>> /\ runner' = runner
          /\ closer' = closer
      BY <1>3 DEF Reload, flushVars
    <2>2. FlushersInv'
      BY <2>1 DEF CaptureInv, FlushersInv
    <2> QED
      BY <1>t, <2>1, <2>2, NothingMoves
  <1>4. CASE RunFlush
    <2>1. /\ DrainAll /\ runner' = StartFlush("idle") /\ runner.pc = "idle" /\ closer' = closer
          /\ UNCHANGED <<mirror, delivered, lost, overwritten>>
      BY <1>4 DEF RunFlush
    <2>2. FlushersInv'
      BY <1>t, <2>1, FlushStarted DEF FlushersInv
    <2>3. runner'.batch = out' /\ runner.batch = <<>>
      BY <1>t, <2>1, FlushStarted
    <2> QED
      BY <2>1, <2>2, <2>3, FlushMoves
  <1>5. CASE CloseFlush
    <2>1. /\ DrainAll /\ closer' = StartFlush("closed") /\ closer.pc = "draining" /\ runner' = runner
          /\ UNCHANGED <<mirror, delivered, lost, overwritten>>
      BY <1>5 DEF CloseFlush
    <2>2. FlushersInv'
      BY <1>t, <2>1, FlushStarted DEF FlushersInv
    <2>3. closer'.batch = out' /\ closer.batch = <<>>
      BY <1>t, <2>1, FlushStarted
    <2> QED
      BY <2>1, <2>2, <2>3, FlushMoves
  <1>6. ASSUME NEW ok \in BOOLEAN, RunSent(ok) PROVE CaptureInv'
    <2>1. /\ Sent(runner.batch, ok) /\ closer' = closer /\ runner'.batch = <<>>
          /\ UNCHANGED <<storeVars, mirror, overwritten>> /\ runner.batch \in Seq(Results)
      BY <1>t, <1>6 DEF RunSent, Idle
    <2>2. FlushersInv'
      BY <1>t, <1>6 DEF RunSent, Idle, FlushersInv
    <2>3. BatchLeaves(runner.batch)
      <3>1. ASSUME NEW r \in Results
            PROVE  /\ Occurrences(r, runner.batch) \in Nat /\ Occurrences(r, closer.batch) \in Nat
                   /\ Occurrences(r, runner'.batch) = 0
        BY <2>1, OccurrencesEmpty, PlacesOf
      <3> QED
        BY <2>1, <3>1 DEF BatchLeaves
    <2> QED
      BY <2>1, <2>2, <2>3, SendMoves
  <1>7. ASSUME NEW ok \in BOOLEAN, CloseSent(ok) PROVE CaptureInv'
    <2>1. /\ Sent(closer.batch, ok) /\ runner' = runner /\ closer'.batch = <<>>
          /\ UNCHANGED <<storeVars, mirror, overwritten>> /\ closer.batch \in Seq(Results)
      BY <1>t, <1>7 DEF CloseSent, Idle
    <2>2. FlushersInv'
      BY <1>t, <1>7 DEF CloseSent, Idle, FlushersInv
    <2>3. BatchLeaves(closer.batch)
      <3>1. ASSUME NEW r \in Results
            PROVE  /\ Occurrences(r, runner.batch) \in Nat /\ Occurrences(r, closer.batch) \in Nat
                   /\ Occurrences(r, closer'.batch) = 0
        BY <2>1, OccurrencesEmpty, PlacesOf
      <3> QED
        BY <2>1, <3>1 DEF BatchLeaves
    <2> QED
      BY <2>1, <2>2, <2>3, SendMoves
  <1>8. CASE RunStops \/ CloseStops \/ Exit
    <2>1. UNCHANGED <<storeVars, mirror, delivered, lost, overwritten>>
      BY <1>8 DEF RunStops, CloseStops, Exit
    <2>2. FlushersInv' /\ runner'.batch = runner.batch /\ closer'.batch = closer.batch
      <3>1. CASE RunStops
        BY <1>t, <3>1 DEF RunStops, Idle, FlushersInv
      <3>2. CASE CloseStops
        BY <1>t, <3>2 DEF CloseStops, Idle, FlushersInv
      <3>3. CASE Exit
        BY <1>t, <3>3 DEF Exit, FlushersInv
      <3> QED
        BY <1>8, <3>1, <3>2, <3>3
    <2> QED
      BY <1>t, <2>1, <2>2, NothingMoves
  <1>9. CASE UNCHANGED vars
    <2>1. UNCHANGED <<storeVars, mirror, delivered, lost, overwritten, runner, closer>>
      BY <1>9 DEF vars, captureVars
    <2>2. FlushersInv'
      BY <2>1 DEF CaptureInv, FlushersInv
    <2> QED
      BY <1>t, <2>1, <2>2, NothingMoves
  <1> QED
    BY <1>1, <1>2, <1>3, <1>4, <1>5, <1>6, <1>7, <1>8, <1>9 DEF Next

\* CaptureInv holds in every reachable state of the capture, for every capacity and any
\* number of requests.
THEOREM CaptureInvariant == Safety => []CaptureInv
  <1>1. CaptureInv /\ [Next]_vars => CaptureInv'
    BY CaptureStep
  <1> QED
    BY CaptureInit, <1>1, PTL DEF Safety

\* The store's fields keep their types while mirrors, the flusher and Close share it; what
\* DrainAll returned last is a sequence of captured results.
THEOREM StoreIsWellFormed == Safety => []StoreTypeOK
  <1>1. CaptureInv => StoreTypeOK
    BY DEF CaptureInv, StoreInv
  <1> QED
    BY CaptureInvariant, <1>1, PTL

\* Run's flush and Close's flush never hand the same result to the webhook twice, and a
\* result is only ever dropped by being overwritten or with a batch that failed.
THEOREM StoredOnce == Safety => []StoredResultInOnePlace
  <1>1. CaptureInv => StoredResultInOnePlace
    BY DEF CaptureInv, Places, StoredResultInOnePlace
  <1> QED
    BY CaptureInvariant, <1>1, PTL

\* Stats().TotalAdded falls short of the results added by the overwritten ones exactly.
THEOREM StatsAreExact == Safety => []StatsMissOnlyOverwritten
  <1>1. CaptureInv => StatsMissOnlyOverwritten
    BY DEF CaptureInv
  <1> QED
    BY CaptureInvariant, <1>1, PTL

\* Mirrors, flusher, reload and shutdown together touch the buffer by Add and DrainAll
\* only, so the capture as a whole sees a drop-oldest queue.
THEOREM CaptureImplementsQueue == Safety => ImplementsQueue
  <1>1. Init => StoreInit
    BY DEF Init
  <1>2. [Next]_vars => [StoreNext]_storeVars
    <2> SUFFICES ASSUME [Next]_vars PROVE [StoreNext]_storeVars
      OBVIOUS
    <2>1. ASSUME NEW r \in Results, ExecuteAsync(r) \/ MirrorReturns(r) \/ MirrorPanics(r)
          PROVE  [StoreNext]_storeVars
      BY <2>1 DEF ExecuteAsync, MirrorReturns, MirrorPanics, StoreNext
    <2>2. ASSUME NEW cfg, Reload(cfg) PROVE [StoreNext]_storeVars
      BY <2>2 DEF Reload
    <2>3. CASE RunFlush \/ RunStops \/ CloseStops \/ CloseFlush \/ Exit
      BY <2>3 DEF RunFlush, RunStops, CloseStops, CloseFlush, Exit, StoreNext
    <2>4. ASSUME NEW ok \in BOOLEAN, RunSent(ok) \/ CloseSent(ok) PROVE [StoreNext]_storeVars
      BY <2>4 DEF RunSent, CloseSent
    <2>5. CASE UNCHANGED vars
      BY <2>5 DEF vars
    <2> QED
      BY <2>1, <2>2, <2>3, <2>4, <2>5 DEF Next
  <1>3. Safety => StoreSpec
    BY <1>1, <1>2, PTL DEF Safety, StoreSpec
  <1> QED
    BY <1>3, RingImplementsQueue

=============================================================================
