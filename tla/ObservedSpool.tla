--------------------------- MODULE ObservedSpool ---------------------------
(***************************************************************************)
(* The durable spool of fi-collector's observed catalog                    *)
(* (pkg/observedcatalog/spool.go): flusher goroutines save records, one    *)
(* file each, named after its digest; a replay loop                        *)
(* (cmd/fi-collector/catalog_runtime.go) publishes the files and removes   *)
(* them; the process may die and the machine lose power between any two    *)
(* system calls.                                                           *)
(*                                                                         *)
(* visible is the directory as the running kernel shows it, durable what   *)
(* the last directory fsync made sure of.  After a power loss each         *)
(* directory change that was not synced is there or not.  A record's       *)
(* content is synced before the rename, so a file that is there is whole.  *)
(* All records have the same size: MaxFiles stands for both capacities.    *)
(***************************************************************************)
EXTENDS Integers, FiniteSets

CONSTANTS
    Records,           \* encoded chunks; equal chunks have equal names
    Enqueuers,         \* goroutines that call Enqueue
    Nobody,            \* not an enqueuer
    MaxFiles,          \* SpoolConfig.MaxFiles
    MaxDeaths,         \* bound: process deaths and power losses
    MaxDiskErrors,     \* bound: failed writes, fsyncs and removals
    MaxPublishErrors   \* bound: failed publishes

ASSUME CapacityAssumption == MaxFiles \in Nat \ {0}

ASSUME BoundAssumption ==
    MaxDeaths \in Nat /\ MaxDiskErrors \in Nat /\ MaxPublishErrors \in Nat

ASSUME NameAssumption == Nobody \notin Enqueuers \union {"replay"} /\ "replay" \notin Enqueuers

VARIABLES
    up,             \* the process runs and owns the spool
    visible,        \* record files in the directory
    durable,        \* record files as of the last directory fsync
    tmps,           \* .observed-tmp- files in the directory
    stranded,       \* history: temporaries this writer failed to remove
    files,          \* w.files
    mu,             \* holder of w.mu
    enq,            \* each enqueuer: its place, the chunks left, the current one
    rp,             \* the replay: its place, the names left, the current group
    published,      \* external: records the publisher has taken
    saved,          \* history: records save returned nil for
    deaths, diskErrors, publishErrors   \* history, bounded

disk    == <<visible, durable, tmps, stranded>>
history == <<deaths, diskErrors, publishErrors>>
vars    == <<up, disk, files, mu, enq, rp, published, saved, history>>

IdleEnq    == [pc |-> "idle", todo |-> {}, rec |-> {}]
IdleReplay == [pc |-> "idle", names |-> {}, group |-> {}]

Init ==
    /\ up = FALSE
    /\ visible = {} /\ durable = {} /\ tmps = 0 /\ stranded = 0
    /\ files = {} /\ mu = Nobody
    /\ enq = [e \in Enqueuers |-> IdleEnq]
    /\ rp = IdleReplay
    /\ published = {} /\ saved = {}
    /\ deaths = 0 /\ diskErrors = 0 /\ publishErrors = 0

-----------------------------------------------------------------------------
(* NewWriter *)

\* Mutant: temporaries of an interrupted save stay.
OpenKeepsTemporaries ==
    /\ ~up
    /\ Cardinality(visible) <= MaxFiles
    /\ up' = TRUE
    /\ files' = visible
    /\ durable' = visible
    /\ stranded' = 0
    /\ UNCHANGED <<visible, tmps, mu, enq, rp, published, saved, history>>

\* Mutant: records of an earlier run are not counted.
OpenIgnoresExisting ==
    /\ ~up
    /\ Cardinality(visible) <= MaxFiles
    /\ up' = TRUE
    /\ tmps' = 0 /\ stranded' = 0
    /\ files' = {}
    /\ durable' = visible
    /\ UNCHANGED <<visible, mu, enq, rp, published, saved, history>>

\* Temporaries are discarded, records counted, the directory synced.
Open ==
    /\ ~up
    /\ Cardinality(visible) <= MaxFiles
    /\ up' = TRUE
    /\ tmps' = 0 /\ stranded' = 0
    /\ files' = visible
    /\ durable' = visible
    /\ UNCHANGED <<visible, mu, enq, rp, published, saved, history>>

\* The spool is over capacity, which the records show after the temporaries are
\* gone, or a temporary cannot be removed or the directory not be synced; the
\* process exits.
OpenFails ==
    /\ ~up
    /\ \/ Cardinality(visible) > MaxFiles /\ tmps' = 0 /\ UNCHANGED diskErrors
       \/ /\ diskErrors < MaxDiskErrors
          /\ diskErrors' = diskErrors + 1 /\ tmps' \in 0..tmps
    /\ UNCHANGED <<up, visible, durable, stranded, files, mu, enq, rp, published, saved,
                   deaths, publishErrors>>

-----------------------------------------------------------------------------
(* Enqueue and save *)

\* A batch of chunks is handed over.
Enqueue(e, batch) ==
    /\ up
    /\ enq[e].pc = "idle"
    /\ enq' = [enq EXCEPT ![e] = [pc |-> "loop", todo |-> batch, rec |-> {}]]
    /\ UNCHANGED <<up, disk, files, mu, rp, published, saved, history>>

\* Enqueue returns: with nil when nothing is left, or with save's error.
Return(e) == enq' = [enq EXCEPT ![e] = IdleEnq]

\* save takes w.mu for the next chunk.  A chunk already in the spool is only
\* synced; another one is refused when the spool is full.
Save(e, c) ==
    /\ enq[e].pc = "loop"
    /\ c \in enq[e].todo
    /\ mu = Nobody
    /\ \/ /\ c \in files
          /\ enq' = [enq EXCEPT ![e].pc = "sync", ![e].rec = {c}]
          /\ mu' = e /\ UNCHANGED tmps
       \/ /\ c \notin files /\ Cardinality(files) >= MaxFiles
          /\ Return(e)
          /\ UNCHANGED <<mu, tmps>>
       \/ /\ c \notin files /\ Cardinality(files) < MaxFiles
          /\ enq' = [enq EXCEPT ![e].pc = "tmp", ![e].rec = {c}]
          /\ mu' = e /\ tmps' = tmps + 1
    /\ UNCHANGED <<up, visible, durable, stranded, files, rp, published, saved, history>>

\* Mutant: the file is counted only when the directory was synced.
RenameUncounted(e) ==
    /\ enq[e].pc = "tmp"
    /\ tmps' = tmps - 1
    /\ visible' = visible \union enq[e].rec
    /\ enq' = [enq EXCEPT ![e].pc = "sync"]
    /\ UNCHANGED <<up, durable, stranded, files, mu, rp, published, saved, history>>

\* The synced temporary gets its name and is counted.
Rename(e) ==
    /\ enq[e].pc = "tmp"
    /\ tmps' = tmps - 1
    /\ visible' = visible \union enq[e].rec
    /\ files' = files \union enq[e].rec
    /\ enq' = [enq EXCEPT ![e].pc = "sync"]
    /\ UNCHANGED <<up, durable, stranded, mu, rp, published, saved, history>>

\* The deferred os.Remove, whose error nobody looks at: the temporary is gone, or
\* it stays and is neither counted nor tried again.
DiscardTmp ==
    \/ tmps' = tmps - 1 /\ UNCHANGED stranded
    \/ tmps' = tmps /\ stranded' = stranded + 1

\* Mutant: the error return keeps w.mu.
WriteFailsKeepsLock(e) ==
    /\ enq[e].pc = "tmp"
    /\ diskErrors < MaxDiskErrors
    /\ diskErrors' = diskErrors + 1
    /\ DiscardTmp
    /\ Return(e)
    /\ UNCHANGED <<up, visible, durable, files, mu, rp, published, saved, deaths, publishErrors>>

\* Writing, syncing, closing or renaming the temporary fails.  (Failing to create
\* one has the effect of a write that fails and a removal that does not.)
WriteFails(e) ==
    /\ enq[e].pc = "tmp"
    /\ diskErrors < MaxDiskErrors
    /\ diskErrors' = diskErrors + 1
    /\ DiscardTmp
    /\ mu' = Nobody
    /\ Return(e)
    /\ UNCHANGED <<up, visible, durable, files, rp, published, saved, deaths, publishErrors>>

\* save is done with the current chunk.
Saved(e) ==
    /\ saved' = saved \union enq[e].rec
    /\ mu' = Nobody
    /\ LET left == enq[e].todo \ enq[e].rec
       IN  enq' = [enq EXCEPT ![e] =
                     IF left = {} THEN IdleEnq ELSE [pc |-> "loop", todo |-> left, rec |-> {}]]

\* Mutant: nil is returned before the directory is synced.
SyncSkipped(e) ==
    /\ enq[e].pc = "sync"
    /\ Saved(e)
    /\ UNCHANGED <<up, disk, files, rp, published, history>>

\* The directory is synced and save returns nil.
Sync(e) ==
    /\ enq[e].pc = "sync"
    /\ durable' = visible
    /\ Saved(e)
    /\ UNCHANGED <<up, visible, tmps, stranded, files, rp, published, history>>

SyncFails(e) ==
    /\ enq[e].pc = "sync"
    /\ diskErrors < MaxDiskErrors
    /\ diskErrors' = diskErrors + 1
    /\ mu' = Nobody
    /\ Return(e)
    /\ UNCHANGED <<up, disk, files, rp, published, saved, deaths, publishErrors>>

-----------------------------------------------------------------------------
(* replay *)

\* The names are listed under w.mu.
ReplayList ==
    /\ up /\ rp.pc = "idle"
    /\ mu = Nobody
    /\ files # {}
    /\ rp' = [pc |-> "publish", names |-> files, group |-> {}]
    /\ UNCHANGED <<up, disk, files, mu, enq, published, saved, history>>

\* A group of files is read and published as one batch.
Publish(g) ==
    /\ rp.pc = "publish"
    /\ g \subseteq rp.names /\ g # {}
    /\ published' = published \union g
    /\ rp' = [pc |-> "remove", names |-> rp.names \ g, group |-> g]
    /\ UNCHANGED <<up, disk, files, mu, enq, saved, history>>

\* The publisher fails, perhaps only its acknowledgement was lost; the files
\* stay for the next replay.
PublishFails(g) ==
    /\ rp.pc = "publish"
    /\ g \subseteq rp.names /\ g # {}
    /\ publishErrors < MaxPublishErrors
    /\ publishErrors' = publishErrors + 1
    /\ published' \in {published, published \union g}
    /\ rp' = IdleReplay
    /\ UNCHANGED <<up, disk, files, mu, enq, saved, deaths, diskErrors>>

\* remove takes w.mu.
RemoveBegin ==
    /\ rp.pc = "remove"
    /\ mu = Nobody
    /\ mu' = "replay"
    /\ rp' = [rp EXCEPT !.pc = "removing"]
    /\ UNCHANGED <<up, disk, files, enq, published, saved, history>>

RemoveOne(n) ==
    /\ rp.pc = "removing"
    /\ n \in rp.group
    /\ visible' = visible \ {n}
    /\ files' = files \ {n}
    /\ rp' = [rp EXCEPT !.group = @ \ {n}]
    /\ UNCHANGED <<up, durable, tmps, stranded, mu, enq, published, saved, history>>

\* Mutant: removals are not synced.
RemoveDoneUnsynced ==
    /\ rp.pc = "removing" /\ rp.group = {}
    /\ mu' = Nobody
    /\ rp' = IF rp.names = {} THEN IdleReplay ELSE [rp EXCEPT !.pc = "publish"]
    /\ UNCHANGED <<up, disk, files, enq, published, saved, history>>

\* The group is removed, the directory synced, the loop goes on.
RemoveDone ==
    /\ rp.pc = "removing" /\ rp.group = {}
    /\ durable' = visible
    /\ mu' = Nobody
    /\ rp' = IF rp.names = {} THEN IdleReplay ELSE [rp EXCEPT !.pc = "publish"]
    /\ UNCHANGED <<up, visible, tmps, stranded, files, enq, published, saved, history>>

\* A removal or the sync fails ("removal not confirmed"): replay returns.
RemoveFails ==
    /\ rp.pc = "removing"
    /\ diskErrors < MaxDiskErrors
    /\ diskErrors' = diskErrors + 1
    /\ mu' = Nobody
    /\ rp' = IdleReplay
    /\ UNCHANGED <<up, disk, files, enq, published, saved, deaths, publishErrors>>

-----------------------------------------------------------------------------
(* Close, death of the process, power loss *)

MemoryLost ==
    /\ up' = FALSE
    /\ files' = {} /\ mu' = Nobody
    /\ enq' = [e \in Enqueuers |-> IdleEnq]
    /\ rp' = IdleReplay

\* Close takes both mutexes; later saves are refused and the process exits.
Close ==
    /\ up
    /\ rp.pc = "idle" /\ mu = Nobody
    /\ MemoryLost
    /\ UNCHANGED <<disk, published, saved, history>>

Die ==
    /\ deaths < MaxDeaths
    /\ deaths' = deaths + 1
    /\ MemoryLost
    /\ UNCHANGED <<published, saved, diskErrors, publishErrors>>

ProcessDies == up /\ Die /\ UNCHANGED disk

PowerLoss ==
    /\ Die
    /\ \E kept \in SUBSET (durable \union visible) :
          /\ durable \cap visible \subseteq kept
          /\ visible' = kept /\ durable' = kept
    /\ UNCHANGED <<tmps, stranded>>

-----------------------------------------------------------------------------

EnqStep(e) ==
    (\E c \in Records : Save(e, c)) \/ Rename(e) \/ Sync(e)

ReplayStep ==
    \/ ReplayList \/ RemoveBegin \/ RemoveDone
    \/ \E n \in Records : RemoveOne(n)
    \/ \E g \in SUBSET Records : Publish(g)

Failure ==
    \/ OpenFails \/ RemoveFails \/ Close \/ ProcessDies \/ PowerLoss
    \/ \E g \in SUBSET Records : PublishFails(g)
    \/ \E e \in Enqueuers : WriteFails(e) \/ SyncFails(e)

Next ==
    \/ Open \/ ReplayStep \/ Failure
    \/ \E e \in Enqueuers :
          EnqStep(e) \/ \E batch \in SUBSET Records \ {{}} : Enqueue(e, batch)

Safety == Init /\ [][Next]_vars

\* The collector is restarted, its goroutines run and the replay ticker fires.
\* w.mu is handed to a waiter in the end, so the replay gets it too.
Spec ==
    /\ Safety
    /\ WF_vars(Open) /\ SF_vars(ReplayList) /\ SF_vars(RemoveBegin) /\ WF_vars(ReplayStep)
    /\ \A e \in Enqueuers : WF_vars(EnqStep(e))

-----------------------------------------------------------------------------
(* Properties *)

\* Types, and the mutex belongs to whoever is inside save or remove.
SpoolTypeOK ==
    /\ up \in BOOLEAN
    /\ visible \subseteq Records /\ durable \subseteq Records
    /\ tmps \in Nat /\ stranded \in Nat
    /\ files \subseteq Records
    /\ mu \in Enqueuers \union {"replay", Nobody}
    /\ enq \in [Enqueuers -> [pc : {"idle", "loop", "tmp", "sync"},
                              todo : SUBSET Records, rec : SUBSET Records]]
    /\ rp \in [pc : {"idle", "publish", "remove", "removing"},
               names : SUBSET Records, group : SUBSET Records]
    /\ published \subseteq Records /\ saved \subseteq Records
    /\ \A e \in Enqueuers : enq[e].pc \in {"tmp", "sync"} <=> mu = e
    /\ rp.pc = "removing" <=> mu = "replay"

\* "transfers ownership synchronously to a local durable spool": a record save
\* returned nil for is published, or is in the directory whatever a power loss
\* takes.
SavedIsSafe == saved \subseteq published \union (durable \cap visible)

\* What the writer counts is what the directory holds, also after failed
\* syncs, half-done removals and restarts.
CountMatchesDirectory == up => files = visible

\* "otherwise repeated interrupted writes could bypass capacity limits": interrupted
\* saves of earlier runs take no room from this one, and neither do its own failed
\* writes; what exceeds the capacity of a running writer are only the temporaries
\* that it failed to remove itself, which stay until the next NewWriter.
DirectoryBounded == up => Cardinality(visible) + tmps <= MaxFiles + stranded

\* As long as no fsync and no removal failed, whatever a power loss leaves
\* fits: NewWriter does not refuse the spool it filled itself.
RestartFits == diskErrors = 0 => Cardinality(durable \union visible) <= MaxFiles

\* What the proof of SavedIsSafe and CountMatchesDirectory rests on: a record
\* being synced is in the directory, and only published files are removed.
SpoolInv ==
    /\ SpoolTypeOK
    /\ SavedIsSafe
    /\ CountMatchesDirectory
    /\ \A e \in Enqueuers : enq[e].pc = "sync" => enq[e].rec \subseteq visible
    /\ \A e \in Enqueuers : enq[e].pc = "tmp" => tmps > 0
    /\ \A e \in Enqueuers : enq[e].pc # "idle" => up
    /\ rp.pc # "idle" => up
    /\ rp.pc \in {"remove", "removing"} => rp.group \subseteq published

\* Every record save returned nil for is published in the end, if the disk
\* does not fail and publishing does not fail forever: replays, re-enqueued
\* records, deaths and power losses do not strand a file.
SavedIsPublished ==
    \A c \in Records : c \in saved ~> c \in published \/ diskErrors > 0

=============================================================================
