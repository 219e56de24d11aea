------------------------ MODULE ObservedSpoolProofs ------------------------
(* Proofs about the durable spool, for every number of records and of       *)
(* enqueuers, every capacity, and any number of deaths and errors.          *)
EXTENDS ObservedSpool, FiniteSetTheorems, TLAPS

EnqPlaces == {"idle", "loop", "tmp", "sync"}

EnqType == [pc : EnqPlaces, todo : SUBSET Records, rec : SUBSET Records]

ReplayType == [pc : {"idle", "publish", "remove", "removing"},
               names : SUBSET Records, group : SUBSET Records]

\* SpoolInv in parts: the disk and the counts, the enqueuers, the
\* replay, the mutex, and the temporaries.
DiskPart ==
    /\ visible \subseteq Records /\ durable \subseteq Records /\ files \subseteq Records
    /\ published \subseteq Records /\ saved \subseteq Records
    /\ SavedIsSafe
    /\ CountMatchesDirectory

EnqPart ==
    /\ enq \in [Enqueuers -> EnqType]
    /\ \A e \in Enqueuers : enq[e].pc = "sync" => enq[e].rec \subseteq visible
    /\ \A e \in Enqueuers : enq[e].pc # "idle" => up

ReplayPart ==
    /\ rp \in ReplayType
    /\ rp.pc # "idle" => up
    /\ rp.pc \in {"remove", "removing"} => rp.group \subseteq published

MutexPart ==
    /\ mu \in Enqueuers \union {"replay", Nobody}
    /\ \A e \in Enqueuers : enq[e].pc \in {"tmp", "sync"} <=> mu = e
    /\ rp.pc = "removing" <=> mu = "replay"

TmpPart ==
    /\ tmps \in Nat /\ stranded \in Nat
    /\ \A e \in Enqueuers : enq[e].pc = "tmp" => tmps > 0

Parts == up \in BOOLEAN /\ TmpPart /\ DiskPart /\ EnqPart /\ ReplayPart /\ MutexPart

\* The parts make up SpoolInv.
LEMMA SpoolParts == SpoolInv <=> Parts
  BY DEF SpoolInv, SpoolTypeOK, Parts, DiskPart, EnqPart, ReplayPart, MutexPart, TmpPart,
         EnqType, EnqPlaces, ReplayType, SavedIsSafe, CountMatchesDirectory

\* An empty spool, nothing running.
LEMMA SpoolInit == Init => SpoolInv
<1> SUFFICES ASSUME Init PROVE Parts
  BY SpoolParts
<1>1. IdleEnq \in EnqType /\ IdleEnq.pc = "idle"
  BY DEF IdleEnq, EnqType, EnqPlaces
<1>2. IdleReplay \in ReplayType /\ IdleReplay.pc = "idle"
  BY DEF IdleReplay, ReplayType
<1>3. DiskPart
  BY DEF Init, DiskPart, SavedIsSafe, CountMatchesDirectory
<1>4. EnqPart
  BY <1>1 DEF Init, EnqPart
<1>5. ReplayPart
  BY <1>2 DEF Init, ReplayPart
<1>6. MutexPart
  BY <1>1, <1>2, NameAssumption DEF Init, MutexPart
<1>7. TmpPart
  BY <1>1 DEF Init, TmpPart
<1> QED BY <1>3, <1>4, <1>5, <1>6, <1>7 DEF Parts, Init

-----------------------------------------------------------------------------
(* Steps of the enqueuers *)

\* What a step does that moves only enqueuer e, to n, and leaves the replay
\* and the publisher alone.
Moves(e, n) ==
    /\ n \in EnqType
    /\ enq' = [enq EXCEPT ![e] = n]
    /\ up' = up /\ rp' = rp /\ published' = published

\* The other enqueuers stay where they are.
LEMMA MovesOne ==
  ASSUME Parts, NEW e \in Enqueuers, NEW n, Moves(e, n)
  PROVE  /\ enq' \in [Enqueuers -> EnqType]
         /\ enq'[e] = n
         /\ \A f \in Enqueuers \ {e} : enq'[f] = enq[f]
  BY DEF Parts, EnqPart, Moves

\* A move that leaves the disk, the counts and the mutex alone and does not
\* touch a place that needs the mutex.
LEMMA MoveOutside ==
  ASSUME Parts, NEW e \in Enqueuers, NEW n, Moves(e, n), up,
         n.pc \in {"idle", "loop"}, enq[e].pc \in {"idle", "loop"},
         mu' = mu, tmps' = tmps, stranded' = stranded, visible' = visible, durable' = durable,
         files' = files, saved' = saved
  PROVE  Parts'
<1>1. enq' \in [Enqueuers -> EnqType] /\ enq'[e] = n /\ \A f \in Enqueuers \ {e} : enq'[f] = enq[f]
  BY MovesOne
<1>2. DiskPart'
  BY DEF Parts, DiskPart, SavedIsSafe, CountMatchesDirectory, Moves
<1>3. EnqPart'
  BY <1>1 DEF Parts, EnqPart, Moves
<1>4. ReplayPart'
  BY DEF Parts, ReplayPart, Moves
<1>5. MutexPart'
  BY <1>1 DEF Parts, MutexPart, Moves
<1>6. TmpPart'
  BY <1>1 DEF Parts, TmpPart
<1> QED BY <1>2, <1>3, <1>4, <1>5, <1>6 DEF Parts, Moves

\* A move into save: the mutex was free and is taken.
LEMMA MoveIn ==
  ASSUME Parts, NEW e \in Enqueuers, NEW n, Moves(e, n), up,
         n.pc \in {"tmp", "sync"}, n.pc = "sync" => n.rec \subseteq visible,
         mu = Nobody, mu' = e,
         tmps' \in Nat, stranded' = stranded, n.pc = "tmp" => tmps' > 0,
         visible' = visible, durable' = durable, files' = files, saved' = saved
  PROVE  Parts'
<1>1. enq' \in [Enqueuers -> EnqType] /\ enq'[e] = n /\ \A f \in Enqueuers \ {e} : enq'[f] = enq[f]
  BY MovesOne
<1>0. \A f \in Enqueuers : enq[f].pc \notin {"tmp", "sync"}
  BY NameAssumption DEF Parts, MutexPart
<1>2. DiskPart'
  BY DEF Parts, DiskPart, SavedIsSafe, CountMatchesDirectory, Moves
<1>3. EnqPart'
  BY <1>1, <1>0 DEF Parts, EnqPart, Moves
<1>4. ReplayPart'
  BY DEF Parts, ReplayPart, Moves
<1>5. MutexPart'
  BY <1>1, <1>0, NameAssumption DEF Parts, MutexPart, Moves
<1>6. TmpPart'
  BY <1>1, <1>0 DEF Parts, TmpPart
<1> QED BY <1>2, <1>3, <1>4, <1>5, <1>6 DEF Parts, Moves

\* A move out of save: the mutex is given back.
LEMMA MoveOut ==
  ASSUME Parts, NEW e \in Enqueuers, NEW n, Moves(e, n), up,
         enq[e].pc \in {"tmp", "sync"}, n.pc \in {"idle", "loop"},
         mu' = Nobody, tmps' \in Nat, stranded' \in Nat,
         visible' = visible, durable' \in {durable, visible}, files' = files,
         saved' = saved \/ (saved' = saved \union enq[e].rec /\ enq[e].pc = "sync"
                            /\ durable' = visible)
  PROVE  Parts'
<1>1. enq' \in [Enqueuers -> EnqType] /\ enq'[e] = n /\ \A f \in Enqueuers \ {e} : enq'[f] = enq[f]
  BY MovesOne
<1>0. mu = e /\ (\A f \in Enqueuers \ {e} : enq[f].pc \notin {"tmp", "sync"}) /\ rp.pc # "removing"
  BY NameAssumption DEF Parts, MutexPart
<1>2. DiskPart'
  <2>1. CASE saved' = saved
    BY <2>1 DEF Parts, DiskPart, SavedIsSafe, CountMatchesDirectory, Moves
  <2>2. CASE saved' = saved \union enq[e].rec /\ enq[e].pc = "sync" /\ durable' = visible
    <3>1. enq[e].rec \subseteq visible
      BY <2>2 DEF Parts, EnqPart
    <3> QED BY <2>2, <3>1 DEF Parts, DiskPart, SavedIsSafe, CountMatchesDirectory, Moves
  <2> QED BY <2>1, <2>2
<1>3. EnqPart'
  BY <1>1 DEF Parts, EnqPart, Moves
<1>4. ReplayPart'
  BY DEF Parts, ReplayPart, Moves
<1>5. MutexPart'
  BY <1>1, <1>0, NameAssumption DEF Parts, MutexPart, Moves
<1>6. TmpPart'
  BY <1>1, <1>0 DEF Parts, TmpPart
<1> QED BY <1>2, <1>3, <1>4, <1>5, <1>6 DEF Parts, Moves

\* Every step of Enqueue and save keeps the parts.
LEMMA EnqueuersKeep ==
  ASSUME Parts, NEW e \in Enqueuers,
         \/ \E batch \in SUBSET Records : Enqueue(e, batch)
         \/ EnqStep(e) \/ WriteFails(e) \/ SyncFails(e)
  PROVE  Parts'
<1>t. /\ enq[e] \in EnqType /\ enq[e].todo \subseteq Records /\ enq[e].rec \subseteq Records
      /\ enq[e].pc # "idle" => up
  BY DEF Parts, EnqPart, EnqType
<1>i. IdleEnq \in EnqType /\ IdleEnq.pc = "idle"
  BY DEF IdleEnq, EnqType, EnqPlaces
<1>n. tmps \in Nat /\ tmps + 1 > 0 /\ tmps + 1 \in Nat /\ (enq[e].pc = "tmp" => tmps - 1 \in Nat)
      /\ stranded \in Nat /\ stranded + 1 \in Nat
  BY DEF Parts, TmpPart
<1>1. ASSUME NEW batch \in SUBSET Records, Enqueue(e, batch) PROVE Parts'
  <2> DEFINE n == [pc |-> "loop", todo |-> batch, rec |-> {}]
  <2>1. n \in EnqType /\ n.pc = "loop"
    BY DEF EnqType, EnqPlaces
  <2>2. Moves(e, n)
    BY <1>1, <2>1 DEF Enqueue, Moves
  <2> HIDE DEF n
  <2> QED BY <1>1, <2>1, <2>2, MoveOutside DEF Enqueue, disk
<1>2. ASSUME NEW c \in Records, Save(e, c) PROVE Parts'
  <2>p. enq[e].pc = "loop" /\ up
    BY <1>2, <1>t DEF Save
  <2>1. CASE c \in files /\ mu' = e /\ tmps' = tmps
             /\ enq' = [enq EXCEPT ![e].pc = "sync", ![e].rec = {c}]
    <3> DEFINE n == [enq[e] EXCEPT !.pc = "sync", !.rec = {c}]
    <3>1. n \in EnqType /\ n.pc = "sync" /\ n.rec = {c}
      BY <1>t DEF EnqType, EnqPlaces
    <3>2. enq' = [enq EXCEPT ![e] = n]
      BY <2>1
    <3> HIDE DEF n
    <3>3. Moves(e, n)
      BY <1>2, <3>1, <3>2 DEF Save, Moves
    <3>4. n.rec \subseteq visible
      BY <2>1, <2>p, <3>1 DEF Parts, DiskPart, CountMatchesDirectory
    <3> QED BY <1>2, <1>n, <2>1, <2>p, <3>1, <3>3, <3>4, MoveIn DEF Save
  <2>2. CASE Return(e) /\ mu' = mu /\ tmps' = tmps
    <3>1. Moves(e, IdleEnq)
      BY <1>2, <1>i, <2>2 DEF Save, Moves, Return
    <3> QED BY <1>2, <1>i, <2>2, <2>p, <3>1, MoveOutside DEF Save
  <2>3. CASE mu' = e /\ tmps' = tmps + 1
             /\ enq' = [enq EXCEPT ![e].pc = "tmp", ![e].rec = {c}]
    <3> DEFINE n == [enq[e] EXCEPT !.pc = "tmp", !.rec = {c}]
    <3>1. n \in EnqType /\ n.pc = "tmp"
      BY <1>t DEF EnqType, EnqPlaces
    <3>2. enq' = [enq EXCEPT ![e] = n]
      BY <2>3
    <3> HIDE DEF n
    <3>3. Moves(e, n)
      BY <1>2, <3>1, <3>2 DEF Save, Moves
    <3>4. tmps' \in Nat /\ tmps' > 0
      BY <1>n, <2>3
    <3> QED BY <1>2, <2>3, <2>p, <3>1, <3>3, <3>4, MoveIn DEF Save
  <2> QED BY <1>2, <2>1, <2>2, <2>3 DEF Save
<1>3. ASSUME Rename(e) PROVE Parts'
  <2> DEFINE n == [enq[e] EXCEPT !.pc = "sync"]
  <2>1. n \in EnqType /\ n.pc = "sync" /\ n.rec = enq[e].rec
    BY <1>t DEF EnqType, EnqPlaces
  <2>2. enq' = [enq EXCEPT ![e] = n]
    BY <1>3 DEF Rename
  <2> HIDE DEF n
  <2>3. Moves(e, n) /\ enq[e].pc = "tmp" /\ mu' = mu /\ durable' = durable /\ saved' = saved
        /\ stranded' = stranded
    BY <1>3, <2>1, <2>2 DEF Rename, Moves
  <2>4. visible' = visible \union enq[e].rec /\ files' = files \union enq[e].rec /\ tmps' = tmps - 1
    BY <1>3 DEF Rename
  <2>5. enq' \in [Enqueuers -> EnqType] /\ enq'[e] = n /\ \A f \in Enqueuers \ {e} : enq'[f] = enq[f]
    BY <2>3, MovesOne
  <2>6. mu = e /\ \A f \in Enqueuers \ {e} : enq[f].pc \notin {"tmp", "sync"}
    BY <2>3 DEF Parts, MutexPart
  <2>7. DiskPart'
    BY <1>t, <2>3, <2>4 DEF Parts, DiskPart, SavedIsSafe, CountMatchesDirectory, Moves
  <2>8. EnqPart'
    BY <1>t, <2>1, <2>3, <2>4, <2>5, <2>6 DEF Parts, EnqPart, Moves
  <2>9. ReplayPart'
    BY <2>3 DEF Parts, ReplayPart, Moves
  <2>10. MutexPart'
    BY <2>1, <2>3, <2>5, <2>6 DEF Parts, MutexPart, Moves
  <2>11. TmpPart'
    BY <1>n, <2>1, <2>3, <2>4, <2>5, <2>6 DEF TmpPart
  <2> QED BY <2>3, <2>7, <2>8, <2>9, <2>10, <2>11 DEF Parts, Moves
<1>4. ASSUME Sync(e) PROVE Parts'
  <2> DEFINE left == enq[e].todo \ enq[e].rec
             n == IF left = {} THEN IdleEnq ELSE [pc |-> "loop", todo |-> left, rec |-> {}]
  <2>1. n \in EnqType /\ n.pc \in {"idle", "loop"}
    BY <1>t, <1>i DEF EnqType, EnqPlaces
  <2>2. enq' = [enq EXCEPT ![e] = n]
    BY <1>4 DEF Sync, Saved
  <2> HIDE DEF n
  <2>3. Moves(e, n)
    BY <1>4, <2>1, <2>2 DEF Sync, Moves
  <2> QED BY <1>4, <1>t, <1>n, <2>1, <2>3, MoveOut DEF Sync, Saved
<1>5. ASSUME WriteFails(e) \/ SyncFails(e) PROVE Parts'
  <2>1. Moves(e, IdleEnq)
    BY <1>5, <1>i DEF WriteFails, SyncFails, Moves, Return
  <2> QED BY <1>5, <1>t, <1>n, <1>i, <2>1, MoveOut
         DEF WriteFails, SyncFails, DiscardTmp, disk
<1> QED BY <1>1, <1>2, <1>3, <1>4, <1>5 DEF EnqStep

-----------------------------------------------------------------------------
(* Steps of the replay *)

\* A replay step that leaves the enqueuers alone, moving the replay to n.
LEMMA ReplayMoves ==
  ASSUME Parts, NEW n \in ReplayType, rp' = n, up' = up, up, enq' = enq, tmps' = tmps, stranded' = stranded,
         saved' = saved, n.pc \in {"remove", "removing"} => n.group \subseteq published',
         published \subseteq published', published' \subseteq Records,
         mu' \in {mu, Nobody, "replay"}, mu \in {Nobody, "replay"} \/ mu' = mu,
         n.pc = "removing" <=> mu' = "replay",
         visible' = visible, durable' \in {durable, visible}, files' = files
  PROVE  Parts'
<1>1. DiskPart'
  BY DEF Parts, DiskPart, SavedIsSafe, CountMatchesDirectory
<1>2. EnqPart'
  BY DEF Parts, EnqPart
<1>3. ReplayPart'
  BY DEF Parts, ReplayPart
<1>4. MutexPart'
  BY NameAssumption DEF Parts, MutexPart
<1>5. TmpPart'
  BY DEF Parts, TmpPart
<1> QED BY <1>1, <1>2, <1>3, <1>4, <1>5 DEF Parts

\* Every step of replay and remove keeps the parts.
LEMMA ReplayKeeps ==
  ASSUME Parts, ReplayStep \/ RemoveFails \/ \E g \in SUBSET Records : PublishFails(g)
  PROVE  Parts'
<1>t. /\ rp \in ReplayType /\ rp.names \subseteq Records /\ rp.group \subseteq Records
      /\ files \subseteq Records /\ published \subseteq Records
  BY DEF Parts, ReplayPart, ReplayType, DiskPart
<1>u. rp.pc # "idle" => up
  BY DEF Parts, ReplayPart
<1>m. (rp.pc = "removing" <=> mu = "replay") /\ (mu = Nobody => mu # "replay")
  BY NameAssumption DEF Parts, MutexPart
<1>i. IdleReplay \in ReplayType /\ IdleReplay.pc = "idle"
  BY DEF IdleReplay, ReplayType
<1>1. ASSUME ReplayList PROVE Parts'
  <2> DEFINE n == [pc |-> "publish", names |-> files, group |-> {}]
  <2>1. n \in ReplayType /\ n.pc = "publish"
    BY <1>t DEF ReplayType
  <2>2. rp' = n
    BY <1>1 DEF ReplayList
  <2> HIDE DEF n
  <2> QED BY <1>1, <1>t, <1>m, <2>1, <2>2, ReplayMoves DEF ReplayList, disk
<1>2. ASSUME NEW g \in SUBSET Records, Publish(g) PROVE Parts'
  <2> DEFINE n == [pc |-> "remove", names |-> rp.names \ g, group |-> g]
  <2>1. n \in ReplayType /\ n.pc = "remove" /\ n.group = g
    BY <1>t DEF ReplayType
  <2>2. rp' = n
    BY <1>2 DEF Publish
  <2> HIDE DEF n
  <2> QED BY <1>2, <1>t, <1>u, <1>m, <2>1, <2>2, ReplayMoves DEF Publish, disk
<1>3. ASSUME NEW g \in SUBSET Records, PublishFails(g) PROVE Parts'
  BY <1>3, <1>t, <1>u, <1>m, <1>i, ReplayMoves DEF PublishFails, disk
<1>4. ASSUME RemoveBegin PROVE Parts'
  <2> DEFINE n == [rp EXCEPT !.pc = "removing"]
  <2>1. n \in ReplayType /\ n.pc = "removing" /\ n.group = rp.group
    BY <1>t DEF ReplayType
  <2>2. rp' = n
    BY <1>4 DEF RemoveBegin
  <2>3. rp.group \subseteq published
    BY <1>4 DEF RemoveBegin, Parts, ReplayPart
  <2> HIDE DEF n
  <2> QED BY <1>4, <1>t, <1>u, <1>m, <2>1, <2>2, <2>3, ReplayMoves DEF RemoveBegin, disk
<1>5. ASSUME NEW r \in Records, RemoveOne(r) PROVE Parts'
  <2> DEFINE n == [rp EXCEPT !.group = rp.group \ {r}]
  <2>1. n \in ReplayType /\ n.pc = rp.pc /\ n.group = rp.group \ {r}
    BY <1>t DEF ReplayType
  <2>2. rp' = n
    BY <1>5 DEF RemoveOne
  <2> HIDE DEF n
  <2>3. /\ up' = up /\ up /\ enq' = enq /\ mu' = mu /\ tmps' = tmps /\ durable' = durable
        /\ stranded' = stranded /\ saved' = saved /\ published' = published /\ rp.pc = "removing"
        /\ visible' = visible \ {r} /\ files' = files \ {r} /\ r \in rp.group
    BY <1>5, <1>u DEF RemoveOne
  <2>4. r \in published
    BY <2>3 DEF Parts, ReplayPart
  <2>5. DiskPart'
    BY <2>3, <2>4 DEF Parts, DiskPart, SavedIsSafe, CountMatchesDirectory
  <2>6. \A e \in Enqueuers : enq[e].pc # "sync"
    BY <1>m, <2>3, NameAssumption DEF Parts, MutexPart
  <2>7. EnqPart'
    BY <2>3, <2>6 DEF Parts, EnqPart
  <2>8. ReplayPart'
    BY <2>1, <2>2, <2>3 DEF Parts, ReplayPart
  <2>9. MutexPart'
    BY <2>1, <2>2, <2>3 DEF Parts, MutexPart
  <2>10. TmpPart'
    BY <2>3 DEF Parts, TmpPart
  <2> QED BY <2>3, <2>5, <2>7, <2>8, <2>9, <2>10 DEF Parts
<1>6. ASSUME RemoveDone PROVE Parts'
  <2>1. PICK n \in ReplayType : rp' = n /\ n.pc \in {"idle", "publish"}
    <3> DEFINE m == [rp EXCEPT !.pc = "publish"]
    <3>1. m \in ReplayType /\ m.pc = "publish"
      BY <1>t DEF ReplayType
    <3>2. rp' = IdleReplay \/ rp' = m
      BY <1>6 DEF RemoveDone
    <3> HIDE DEF m
    <3> QED BY <3>1, <3>2, <1>i
  <2> QED BY <1>6, <1>t, <1>u, <1>m, <2>1, NameAssumption, ReplayMoves DEF RemoveDone
<1>7. ASSUME RemoveFails PROVE Parts'
  BY <1>7, <1>t, <1>u, <1>m, <1>i, NameAssumption, ReplayMoves DEF RemoveFails, disk
<1> QED BY <1>1, <1>2, <1>3, <1>4, <1>5, <1>6, <1>7 DEF ReplayStep

-----------------------------------------------------------------------------
(* Start and end of the process *)

\* Opening, closing, dying and losing power keep the parts.
LEMMA ProcessKeeps ==
  ASSUME Parts, Open \/ OpenFails \/ Close \/ ProcessDies \/ PowerLoss
  PROVE  Parts'
<1>1. CASE Open
  <2>1. \A e \in Enqueuers : enq[e].pc = "idle"
    BY <1>1 DEF Open, Parts, EnqPart
  <2>2. DiskPart'
    BY <1>1 DEF Open, Parts, DiskPart, SavedIsSafe, CountMatchesDirectory
  <2>3. EnqPart' /\ ReplayPart' /\ MutexPart'
    BY <1>1, <2>1 DEF Open, Parts, EnqPart, ReplayPart, MutexPart
  <2>4. TmpPart'
    BY <1>1, <2>1 DEF Open, TmpPart
  <2> QED BY <1>1, <2>2, <2>3, <2>4 DEF Parts, Open
<1>2. CASE OpenFails
  <2>1. \A e \in Enqueuers : enq[e].pc = "idle"
    BY <1>2 DEF OpenFails, Parts, EnqPart
  <2>2. DiskPart'
    BY <1>2 DEF OpenFails, Parts, DiskPart, SavedIsSafe, CountMatchesDirectory
  <2>3. EnqPart' /\ ReplayPart' /\ MutexPart'
    BY <1>2, <2>1 DEF OpenFails, Parts, EnqPart, ReplayPart, MutexPart
  <2>4. TmpPart'
    BY <1>2, <2>1 DEF OpenFails, Parts, TmpPart
  <2> QED BY <1>2, <2>2, <2>3, <2>4 DEF Parts, OpenFails
<1>3. CASE Close \/ ProcessDies \/ PowerLoss
  <2>1. MemoryLost /\ saved' = saved /\ published' = published /\ tmps' = tmps
        /\ stranded' = stranded
    BY <1>3 DEF Close, ProcessDies, PowerLoss, Die, disk
  <2>2. /\ IdleEnq \in EnqType /\ IdleEnq.pc = "idle"
        /\ IdleReplay \in ReplayType /\ IdleReplay.pc = "idle"
    BY DEF IdleEnq, EnqType, EnqPlaces, IdleReplay, ReplayType
  <2>3. /\ durable \cap visible \subseteq durable' \cap visible'
        /\ durable' \subseteq durable \union visible
        /\ visible' \subseteq durable \union visible
    BY <1>3 DEF Close, ProcessDies, PowerLoss, disk
  <2>4. DiskPart'
    BY <2>1, <2>3 DEF Parts, DiskPart, SavedIsSafe, CountMatchesDirectory, MemoryLost
  <2>5. EnqPart'
    BY <2>1, <2>2 DEF EnqPart, MemoryLost
  <2>6. ReplayPart'
    BY <2>1, <2>2 DEF ReplayPart, MemoryLost
  <2>7. MutexPart'
    BY <2>1, <2>2, NameAssumption DEF MutexPart, MemoryLost
  <2>8. TmpPart'
    BY <2>1, <2>2 DEF Parts, TmpPart, MemoryLost
  <2> QED BY <2>1, <2>4, <2>5, <2>6, <2>7, <2>8 DEF Parts, MemoryLost
<1> QED BY <1>1, <1>2, <1>3

-----------------------------------------------------------------------------

\* SpoolInv holds in every reachable state, whatever dies or fails when.
THEOREM SpoolInvariant == Safety => []SpoolInv
<1>1. Init => Parts
  BY SpoolInit, SpoolParts
<1>2. Parts /\ [Next]_vars => Parts'
  <2> SUFFICES ASSUME Parts, [Next]_vars PROVE Parts'
    OBVIOUS
  <2>1. CASE Next
    BY <2>1, EnqueuersKeep, ReplayKeeps, ProcessKeeps DEF Next, Failure
  <2>2. CASE UNCHANGED vars
    BY <2>2 DEF vars, disk, Parts, DiskPart, EnqPart, ReplayPart, MutexPart, TmpPart,
       SavedIsSafe, CountMatchesDirectory
  <2> QED BY <2>1, <2>2
<1>3. Parts => SpoolInv
  BY SpoolParts
<1> QED BY <1>1, <1>2, <1>3, PTL DEF Safety

\* A record save returned nil for is published or survives every power loss.
THEOREM SavedRecordIsSafe == Safety => []SavedIsSafe
<1>1. SpoolInv => SavedIsSafe
  BY DEF SpoolInv
<1> QED BY <1>1, SpoolInvariant, PTL

\* The writer's count of files is exact while it runs.
THEOREM FileCountIsExact == Safety => []CountMatchesDirectory
<1>1. SpoolInv => CountMatchesDirectory
  BY DEF SpoolInv
<1> QED BY <1>1, SpoolInvariant, PTL

-----------------------------------------------------------------------------
(* Capacity *)

\* An enqueuer is writing its temporary.
Saving == \E e \in Enqueuers : enq[e].pc = "tmp"

\* What the two capacity properties rest on.  Beside those it failed to remove, a
\* writer has at most one temporary, that of the enqueuer inside save, which made
\* room for one record.  Without a
\* failed fsync the synced directory has no file that the visible one lacks, but for
\* those a replay is just removing.
CapacityInv ==
    /\ IsFiniteSet(visible) /\ IsFiniteSet(durable) /\ diskErrors \in Nat
    /\ \A e \in Enqueuers : enq[e].pc = "tmp" => \E c \in Records : enq[e].rec = {c}
    /\ up => IF Saving THEN tmps = stranded + 1 ELSE tmps = stranded
    /\ DirectoryBounded
    /\ RestartFits
    /\ diskErrors = 0 /\ up /\ rp.pc # "removing" => durable \subseteq visible

\* The sizes the invariant compares.
LEMMA DirectorySizes ==
  ASSUME CapacityInv
  PROVE  /\ IsFiniteSet(durable \union visible)
         /\ Cardinality(visible) \in Nat /\ Cardinality(durable \union visible) \in Nat
         /\ Cardinality(visible) <= Cardinality(durable \union visible)
         /\ \A S \in SUBSET (durable \union visible) :
               IsFiniteSet(S) /\ Cardinality(S) <= Cardinality(durable \union visible)
<1>1. IsFiniteSet(durable \union visible)
  BY FS_Union DEF CapacityInv
<1> QED BY <1>1, FS_Subset, FS_CardinalityType DEF CapacityInv

\* An empty directory is within the capacity.
LEMMA CapacityInit == Init => CapacityInv
<1> SUFFICES ASSUME Init PROVE CapacityInv
  OBVIOUS
<1>1. \A e \in Enqueuers : enq[e].pc = "idle"
  BY DEF Init, IdleEnq
<1>2. IsFiniteSet({}) /\ Cardinality({}) = 0 /\ durable \union visible = {}
  BY FS_EmptySet DEF Init
<1> QED BY <1>1, <1>2, CapacityAssumption DEF Init, CapacityInv, DirectoryBounded, RestartFits

\* A step that adds or removes no file, perhaps syncs the directory, and does not leave
\* remove without having synced it.
LEMMA QuietStep ==
  ASSUME CapacityInv, up' = up, visible' = visible, tmps' = tmps, stranded' = stranded,
         durable' \in {durable, visible}, diskErrors' \in {diskErrors, diskErrors + 1},
         \A e \in Enqueuers : enq'[e].pc = "tmp" <=> enq[e].pc = "tmp",
         \A e \in Enqueuers : enq'[e].pc = "tmp" => enq'[e].rec = enq[e].rec,
         durable' = visible \/ diskErrors' # 0 \/ (rp.pc = "removing" => rp'.pc = "removing")
  PROVE  CapacityInv'
<1>1. IsFiniteSet(visible') /\ IsFiniteSet(durable') /\ diskErrors' \in Nat
      /\ (diskErrors' = 0 => diskErrors = 0)
  BY DEF CapacityInv
<1>2. DirectoryBounded'
  BY DEF CapacityInv, DirectoryBounded
<1>3. RestartFits'
  <2>1. durable' \union visible' \in SUBSET (durable \union visible)
    OBVIOUS
  <2>2. Cardinality(durable' \union visible') <= Cardinality(durable \union visible)
        /\ Cardinality(durable' \union visible') \in Nat
    BY <2>1, DirectorySizes, FS_CardinalityType
  <2> QED BY <1>1, <2>2, DirectorySizes, CapacityAssumption DEF CapacityInv, RestartFits
<1>4. diskErrors' = 0 /\ up' /\ rp'.pc # "removing" => durable' \subseteq visible'
  BY <1>1 DEF CapacityInv
<1>5. \A e \in Enqueuers : enq'[e].pc = "tmp" => \E c \in Records : enq'[e].rec = {c}
  BY DEF CapacityInv
<1>6. up' => IF Saving' THEN tmps' = stranded' + 1 ELSE tmps' = stranded'
  BY DEF CapacityInv, Saving
<1> QED BY <1>1, <1>2, <1>3, <1>4, <1>5, <1>6 DEF CapacityInv

\* Enqueue and save stay within the capacity: a temporary is created only with room for
\* its record, and becomes that record or goes away.
LEMMA EnqueuersFit ==
  ASSUME Parts, CapacityInv, NEW e \in Enqueuers,
         \/ \E batch \in SUBSET Records : Enqueue(e, batch)
         \/ EnqStep(e) \/ WriteFails(e) \/ SyncFails(e)
  PROVE  CapacityInv'
<1>t. enq \in [Enqueuers -> EnqType] /\ (enq[e].pc # "idle" => up)
      /\ tmps \in Nat /\ stranded \in Nat
  BY DEF Parts, EnqPart, TmpPart
<1>i. IdleEnq.pc = "idle"
  BY DEF IdleEnq
<1>m. /\ enq[e].pc \in {"tmp", "sync"} => /\ mu = e
                                          /\ \A f \in Enqueuers \ {e} : enq[f].pc # "tmp"
                                          /\ rp.pc # "removing"
      /\ mu = Nobody => \A f \in Enqueuers : enq[f].pc # "tmp"
  BY NameAssumption DEF Parts, MutexPart
<1>d. disk' = disk => /\ visible' = visible /\ durable' = durable
                      /\ tmps' = tmps /\ stranded' = stranded
  BY DEF disk
<1>h. history' = history => diskErrors' = diskErrors
  BY DEF history
<1>1. ASSUME NEW batch \in SUBSET Records, Enqueue(e, batch) PROVE CapacityInv'
  <2>1. \A f \in Enqueuers : (enq'[f].pc = "tmp" <=> enq[f].pc = "tmp")
                             /\ (enq'[f].pc = "tmp" => enq'[f].rec = enq[f].rec)
    BY <1>1, <1>t DEF Enqueue
  <2> QED BY <1>1, <1>d, <1>h, <2>1, QuietStep DEF Enqueue
<1>2. ASSUME NEW c \in Records, Save(e, c) PROVE CapacityInv'
  <2>p. enq[e].pc = "loop" /\ mu = Nobody /\ up /\ up' = up /\ visible' = visible
        /\ durable' = durable /\ rp' = rp /\ diskErrors' = diskErrors /\ stranded' = stranded
    BY <1>2, <1>t, <1>h DEF Save
  <2>1. CASE tmps' = tmps /\ (enq' = [enq EXCEPT ![e].pc = "sync", ![e].rec = {c}] \/ Return(e))
    <3>1. enq'[e].pc # "tmp" /\ \A f \in Enqueuers \ {e} : enq'[f] = enq[f]
      BY <2>1, <1>t, <1>i DEF Return, EnqType
    <3>2. \A f \in Enqueuers : (enq'[f].pc = "tmp" <=> enq[f].pc = "tmp")
                               /\ (enq'[f].pc = "tmp" => enq'[f].rec = enq[f].rec)
      BY <2>p, <3>1
    <3> QED BY <2>1, <2>p, <3>2, QuietStep
  <2>2. CASE /\ c \notin files /\ Cardinality(files) < MaxFiles
             /\ enq' = [enq EXCEPT ![e].pc = "tmp", ![e].rec = {c}] /\ tmps' = tmps + 1
    <3>1. enq'[e].pc = "tmp" /\ enq'[e].rec = {c} /\ \A f \in Enqueuers \ {e} : enq'[f] = enq[f]
      BY <2>2, <1>t DEF EnqType
    <3>2. tmps = stranded
      BY <2>p, <1>m DEF CapacityInv, Saving
    <3>3. DirectoryBounded'
      BY <2>2, <2>p, <3>2, <1>t, DirectorySizes, CapacityAssumption
         DEF Parts, DiskPart, CountMatchesDirectory, DirectoryBounded
    <3>4. RestartFits'
      BY <2>p DEF CapacityInv, RestartFits
    <3>5. \A f \in Enqueuers : enq'[f].pc = "tmp" => \E d \in Records : enq'[f].rec = {d}
      BY <2>p, <3>1, <1>m
    <3>6. tmps' = stranded' + 1
      BY <2>2, <2>p, <3>2
    <3>7. Saving'
      BY <3>1 DEF Saving
    <3> QED BY <2>p, <3>3, <3>4, <3>5, <3>6, <3>7 DEF CapacityInv
  <2> QED BY <1>2, <2>1, <2>2 DEF Save
<1>3. ASSUME Rename(e) PROVE CapacityInv'
  <2>p. enq[e].pc = "tmp" /\ up /\ up' = up /\ durable' = durable /\ rp' = rp
        /\ diskErrors' = diskErrors /\ visible' = visible \union enq[e].rec /\ tmps' = tmps - 1
        /\ stranded' = stranded
    BY <1>3, <1>t, <1>h DEF Rename
  <2>1. enq'[e].pc = "sync" /\ \A f \in Enqueuers \ {e} : enq'[f] = enq[f]
    BY <1>3, <1>t DEF Rename, EnqType
  <2>2. PICK c \in Records : enq[e].rec = {c}
    BY <2>p DEF CapacityInv
  <2>3. tmps = stranded + 1
    BY <2>p DEF CapacityInv, Saving
  <2>4. IsFiniteSet(visible') /\ Cardinality(visible') <= Cardinality(visible) + 1
        /\ Cardinality(visible') \in Nat
    <3>1. IsFiniteSet(visible)
      BY DEF CapacityInv
    <3>2. visible' = visible \union {c}
      BY <2>p, <2>2
    <3>3. IsFiniteSet(visible \union {c})
          /\ Cardinality(visible \union {c}) = IF c \in visible THEN Cardinality(visible)
                                              ELSE Cardinality(visible) + 1
      BY <3>1, FS_AddElement
    <3>4. Cardinality(visible) \in Nat
      BY <3>1, FS_CardinalityType
    <3> QED BY <3>2, <3>3, <3>4
  <2>5. DirectoryBounded' /\ Cardinality(visible') <= MaxFiles
    BY <2>p, <1>t, <2>3, <2>4, DirectorySizes, CapacityAssumption DEF CapacityInv, DirectoryBounded
  <2>6. RestartFits'
    <3>1. diskErrors = 0 => durable' \union visible' = visible'
      BY <2>p, <1>m DEF CapacityInv
    <3> QED BY <2>p, <2>5, <3>1 DEF RestartFits
  <2>7. \A f \in Enqueuers : enq'[f].pc # "tmp"
    BY <2>p, <2>1, <1>m
  <2>8. tmps' = stranded'
    BY <2>p, <1>t, <2>3
  <2> QED BY <2>p, <2>4, <2>5, <2>6, <2>7, <2>8 DEF CapacityInv, Saving
<1>4. ASSUME Sync(e) PROVE CapacityInv'
  <2>1. enq'[e].pc # "tmp" /\ \A f \in Enqueuers \ {e} : enq'[f] = enq[f]
    BY <1>4, <1>t, <1>i DEF Sync, Saved
  <2>2. \A f \in Enqueuers : (enq'[f].pc = "tmp" <=> enq[f].pc = "tmp")
                             /\ (enq'[f].pc = "tmp" => enq'[f].rec = enq[f].rec)
    BY <1>4, <2>1 DEF Sync
  <2> QED BY <1>4, <1>h, <2>2, QuietStep DEF Sync
<1>5. ASSUME WriteFails(e) PROVE CapacityInv'
  <2>p. enq[e].pc = "tmp" /\ up /\ up' = up /\ durable' = durable /\ visible' = visible
        /\ rp' = rp /\ diskErrors' = diskErrors + 1
    BY <1>5, <1>t DEF WriteFails
  <2>1. \A f \in Enqueuers : enq'[f].pc # "tmp"
    BY <1>5, <1>t, <1>i, <1>m DEF WriteFails, Return
  <2>2. tmps = stranded + 1
    BY <2>p DEF CapacityInv, Saving
  <2>5. tmps' = stranded' /\ stranded' \in {stranded, stranded + 1}
    BY <1>5, <1>t, <2>2 DEF WriteFails, DiscardTmp
  <2>3. DirectoryBounded'
    BY <2>p, <1>t, <2>2, <2>5, DirectorySizes, CapacityAssumption DEF CapacityInv, DirectoryBounded
  <2>4. diskErrors' \in Nat /\ diskErrors' # 0
    BY <2>p DEF CapacityInv
  <2> QED BY <2>p, <2>1, <2>3, <2>4, <2>5 DEF CapacityInv, Saving, RestartFits
<1>6. ASSUME SyncFails(e) PROVE CapacityInv'
  <2>1. enq'[e].pc # "tmp" /\ \A f \in Enqueuers \ {e} : enq'[f] = enq[f]
    BY <1>6, <1>t, <1>i DEF SyncFails, Return
  <2>2. \A f \in Enqueuers : (enq'[f].pc = "tmp" <=> enq[f].pc = "tmp")
                             /\ (enq'[f].pc = "tmp" => enq'[f].rec = enq[f].rec)
    BY <1>6, <2>1 DEF SyncFails
  <2> QED BY <1>6, <1>d, <2>2, QuietStep DEF SyncFails
<1> QED BY <1>1, <1>2, <1>3, <1>4, <1>5, <1>6 DEF EnqStep

\* The replay stays within the capacity, and leaves remove with the directory synced or
\* with an error counted.
LEMMA ReplayFits ==
  ASSUME Parts, CapacityInv, ReplayStep \/ RemoveFails \/ \E g \in SUBSET Records : PublishFails(g)
  PROVE  CapacityInv'
<1>d. disk' = disk => /\ visible' = visible /\ durable' = durable
                      /\ tmps' = tmps /\ stranded' = stranded
  BY DEF disk
<1>h. (history' = history => diskErrors' = diskErrors) /\ diskErrors \in Nat
  BY DEF history, CapacityInv
<1>t. rp \in ReplayType
  BY DEF Parts, ReplayPart
<1>1. ASSUME ReplayList \/ RemoveBegin \/ \E g \in SUBSET Records : Publish(g) PROVE CapacityInv'
  <2>1. rp.pc # "removing"
    BY <1>1 DEF ReplayList, RemoveBegin, Publish
  <2> QED BY <1>1, <1>d, <1>h, <2>1, QuietStep DEF ReplayList, RemoveBegin, Publish
<1>2. ASSUME NEW g \in SUBSET Records, PublishFails(g) PROVE CapacityInv'
  BY <1>2, <1>d, QuietStep DEF PublishFails
<1>3. ASSUME RemoveFails PROVE CapacityInv'
  BY <1>3, <1>d, <1>h, QuietStep DEF RemoveFails
<1>4. ASSUME RemoveDone PROVE CapacityInv'
  BY <1>4, <1>h, QuietStep DEF RemoveDone
<1>5. ASSUME NEW n \in Records, RemoveOne(n) PROVE CapacityInv'
  <2>1. up' = up /\ durable' = durable /\ tmps' = tmps /\ enq' = enq /\ diskErrors' = diskErrors
        /\ stranded' = stranded /\ visible' = visible \ {n} /\ rp.pc = "removing"
    BY <1>5, <1>h DEF RemoveOne
  <2>2. rp'.pc = "removing"
    BY <1>5, <1>t, <2>1 DEF RemoveOne, ReplayType
  <2>3. visible' \in SUBSET visible /\ durable' \union visible' \in SUBSET (durable \union visible)
    BY <2>1
  <2>4. IsFiniteSet(visible') /\ Cardinality(visible') \in Nat
        /\ Cardinality(visible') <= Cardinality(visible)
    BY <2>3, FS_Subset, FS_CardinalityType DEF CapacityInv
  <2>5. Cardinality(durable' \union visible') <= Cardinality(durable \union visible)
        /\ Cardinality(durable' \union visible') \in Nat
    BY <2>3, DirectorySizes, FS_CardinalityType
  <2>6. DirectoryBounded'
    BY <2>1, <2>4, DirectorySizes, CapacityAssumption DEF CapacityInv, DirectoryBounded, Parts, TmpPart
  <2>7. RestartFits'
    BY <2>1, <2>5, DirectorySizes, CapacityAssumption DEF CapacityInv, RestartFits
  <2> QED BY <2>1, <2>2, <2>4, <2>6, <2>7 DEF CapacityInv, Saving
<1> QED BY <1>1, <1>2, <1>3, <1>4, <1>5 DEF ReplayStep

\* NewWriter refuses a spool over capacity; death and power loss add no file.
LEMMA ProcessFits ==
  ASSUME Parts, CapacityInv, Open \/ OpenFails \/ Close \/ ProcessDies \/ PowerLoss
  PROVE  CapacityInv'
<1>h. (history' = history => diskErrors' = diskErrors) /\ diskErrors \in Nat
  BY DEF history, CapacityInv
<1>1. CASE Open
  <2>1. visible' = visible /\ durable' = visible /\ tmps' = 0 /\ enq' = enq /\ rp' = rp
        /\ stranded' = 0 /\ diskErrors' = diskErrors /\ Cardinality(visible) <= MaxFiles
    BY <1>1, <1>h DEF Open
  <2>2. DirectoryBounded' /\ RestartFits'
    BY <2>1, DirectorySizes, CapacityAssumption DEF DirectoryBounded, RestartFits
  <2>3. ~Saving'
    BY <1>1, <2>1 DEF Open, Saving, Parts, EnqPart
  <2> QED BY <2>1, <2>2, <2>3 DEF CapacityInv
<1>2. CASE OpenFails
  <2>1. visible' = visible /\ durable' = durable /\ enq' = enq /\ ~up' /\ diskErrors' \in Nat
        /\ (diskErrors' = 0 => diskErrors = 0)
    BY <1>2, <1>h DEF OpenFails
  <2> QED BY <2>1 DEF CapacityInv, DirectoryBounded, RestartFits
<1>3. CASE Close \/ ProcessDies \/ PowerLoss
  <2>1. ~up' /\ diskErrors' = diskErrors /\ \A e \in Enqueuers : enq'[e].pc = "idle"
    BY <1>3, <1>h DEF Close, ProcessDies, PowerLoss, Die, MemoryLost, IdleEnq
  <2>2. visible' \in SUBSET (durable \union visible) /\ durable' \in SUBSET (durable \union visible)
        /\ durable' \union visible' \in SUBSET (durable \union visible)
    BY <1>3 DEF Close, ProcessDies, PowerLoss, disk
  <2>3. IsFiniteSet(visible') /\ IsFiniteSet(durable')
        /\ Cardinality(durable' \union visible') <= Cardinality(durable \union visible)
        /\ Cardinality(durable' \union visible') \in Nat
    BY <2>2, DirectorySizes, FS_CardinalityType
  <2>4. RestartFits'
    BY <2>1, <2>3, DirectorySizes, CapacityAssumption DEF CapacityInv, RestartFits
  <2> QED BY <2>1, <2>3, <2>4, <1>h DEF CapacityInv, DirectoryBounded
<1> QED BY <1>1, <1>2, <1>3

\* CapacityInv holds in every reachable state.
THEOREM CapacityInvariant == Safety => []CapacityInv
<1>1. Parts /\ CapacityInv /\ [Next]_vars => CapacityInv'
  <2> SUFFICES ASSUME Parts, CapacityInv, [Next]_vars PROVE CapacityInv'
    OBVIOUS
  <2>1. CASE Next
    BY <2>1, EnqueuersFit, ReplayFits, ProcessFits DEF Next, Failure
  <2>2. CASE UNCHANGED vars
    BY <2>2 DEF vars, disk, history, CapacityInv, Saving, DirectoryBounded, RestartFits
  <2> QED BY <2>1, <2>2
<1>2. SpoolInv => Parts
  BY SpoolParts
<1> QED BY CapacityInit, SpoolInvariant, <1>1, <1>2, PTL DEF Safety

\* Types, and the mutex is held by exactly the goroutine inside save or remove, on every
\* error return too.
THEOREM SpoolIsWellFormed == Safety => []SpoolTypeOK
<1>1. SpoolInv => SpoolTypeOK
  BY DEF SpoolInv
<1> QED BY <1>1, SpoolInvariant, PTL

\* Records and temporaries of a running writer never exceed MaxFiles by more than the
\* temporaries whose removal failed in this very run, however often earlier runs were
\* interrupted in the middle of a save.
THEOREM DirectoryStaysBounded == Safety => []DirectoryBounded
<1>1. CapacityInv => DirectoryBounded
  BY DEF CapacityInv
<1> QED BY <1>1, CapacityInvariant, PTL

\* As long as no fsync or removal failed, NewWriter accepts what any power loss leaves
\* of the spool the writer filled.
THEOREM RestartedSpoolFits == Safety => []RestartFits
<1>1. CapacityInv => RestartFits
  BY DEF CapacityInv
<1> QED BY <1>1, CapacityInvariant, PTL

=============================================================================
