----------------------------- MODULE OutboxCDC -----------------------------
(***************************************************************************)
(* In-app change capture from PostgreSQL to ClickHouse                     *)
(* (tracer/services/clickhouse/oss_outbox_cdc.py, FI_CDC_MODE=outbox).     *)
(*                                                                         *)
(* One landing table.  Applications write its rows in transactions whose   *)
(* statement triggers append the changed keys to an outbox.  A scheduled   *)
(* drain re-reads the committed rows of those keys and inserts them into   *)
(* ClickHouse under a version; a snapshot copies the table page by page; a *)
(* reconcile sweep compares the ids of both sides.  Every insert is made   *)
(* under one PostgreSQL advisory lock.  Sessions are lost, inserts land    *)
(* late, capture is switched off, rows are refused by ClickHouse and the   *)
(* wall clock steps back.                                                  *)
(***************************************************************************)
EXTENDS Naturals, FiniteSets, FiniteSetsExt

CONSTANTS
    NumKeys,       \* primary keys are 1 .. NumKeys
    Batch,         \* DRAIN_BATCH: outbox rows per drain batch
    Page,          \* SNAPSHOT_PAGE: rows per snapshot page
    Chunk,         \* RECONCILE_CHUNK: ids per reconcile page
    MaxParked,     \* MAX_PARKED_PER_TICK
    Retries,       \* DEADLETTER_RETRIES
    MaxWrites,     \* bound: row-writing transactions
    Faults,        \* the kinds of disturbance that may happen
    MaxFaults,     \* bound: disturbances in one behaviour
    BothFaults     \* whether sessions are lost and the clock steps in one behaviour

Keys == 1 .. NumKeys

\* Sizes the environment readers (env_int minimum=1) and the module constants guarantee.
ASSUME SizesAssumption ==
    /\ NumKeys \in Nat /\ MaxParked \in Nat /\ Retries \in Nat \ {0}
    /\ Batch \in Nat \ {0} /\ Page \in Nat \ {0} /\ Chunk \in Nat \ {0}
    /\ BothFaults \in BOOLEAN

ASSUME BoundsAssumption ==
    /\ MaxWrites \in Nat /\ MaxFaults \in Nat
    /\ Faults \subseteq {"bad", "truncate", "disable", "error", "loss", "step",
                          "install", "resync", "day"}

VARIABLES
    src,      \* committed rows: state number, whether it exists, whether CH refuses it
    open,     \* the open transaction on each key, or NoTx
    outbox,   \* fi_cdc_outbox: rows [seq, key], key 0 for a TRUNCATE
    nextSeq,  \* the outbox sequence
    armed,    \* whether the capture triggers are in place and enabled
    ch,       \* what FINAL shows per key: version, state number, not deleted, landed late
    flying,   \* inserts whose writer gave up on them; they may still land
    now,      \* time.time_ns()
    floor,    \* version_floor of the clock row of fi_cdc_state
    lock,     \* holder of the advisory lock
    last,     \* VersionClock.last of the holder
    snap,     \* snapshot_cursor and whether snapshot_completed_at is set
    request,  \* reconcile_requested_at: none, seen by the last sweep, or newer
    aged,     \* reconciled_at is null or more than RECONCILE_EVERY_S ago
    dead,     \* fi_cdc_deadletter.attempts per key, 0 when not parked
    requeued, \* keys with requeued_at within the hour
    d,        \* the drain activity
    r,        \* the reconcile activity
    writes,   \* transactions begun
    happened, \* the kinds of disturbance so far
    faults    \* disturbances so far

srcVars == <<src, open, outbox, nextSeq, armed>>
chVars == <<ch, flying>>
clockVars == <<now, floor, last>>
stateVars == <<snap, request, aged, dead, requeued>>
vars == <<srcVars, chVars, clockVars, lock, stateVars, d, r, writes, happened, faults>>

NoTx == [live |-> FALSE, bad |-> FALSE, seq |-> 0, busy |-> FALSE]
DIdle == [pc |-> "idle", hasDead |-> FALSE, pending |-> FALSE, parked |-> 0,
          rows |-> {}, block |-> {}, park |-> {}, failed |-> FALSE,
          cursor |-> 0, done |-> FALSE]
RIdle == [pc |-> "idle", pass |-> "A", after |-> 0, ids |-> {}, keys |-> {},
          block |-> {}]

Init ==
    /\ src \in [Keys -> {[n |-> 0, live |-> FALSE, bad |-> FALSE],
                         [n |-> 1, live |-> TRUE, bad |-> FALSE]}]
    /\ open = [k \in Keys |-> NoTx]
    /\ outbox = {} /\ nextSeq = 1 /\ armed = TRUE
    /\ ch = [k \in Keys |-> [ver |-> 0, n |-> 0, live |-> FALSE, late |-> FALSE]]
    /\ flying = {}
    /\ now = 1 /\ floor = 0 /\ last = 0 /\ lock = "none"
    /\ snap = [cursor |-> 0, done |-> FALSE]
    /\ request = "none" /\ aged = TRUE
    /\ dead = [k \in Keys |-> 0] /\ requeued = {}
    /\ d = DIdle /\ r = RIdle
    /\ writes = 0 /\ happened = {} /\ faults = 0

\* One more disturbance of kind f, within the bounds.
Fault(f) ==
    /\ f \in Faults /\ faults < MaxFaults /\ faults' = faults + 1
    /\ happened' = happened \cup {f}
    /\ BothFaults \/ ~({"loss", "step"} \subseteq happened')
    /\ UNCHANGED writes

-----------------------------------------------------------------------------
(* Helpers                                                                 *)

\* The first m elements of a set of numbers in ascending order (ORDER BY ... LIMIT).
FirstOf(S, m) == {x \in S : Cardinality({y \in S : y < x}) < m}

\* ReplacingMergeTree under FINAL: the highest version of a key is the one read;
\* of two equal versions the one inserted later.
Landed(c, rows, late) ==
    [k \in Keys |-> LET mine == {x \in rows : x.key = k} IN
        IF mine = {} THEN c[k]
        ELSE LET x == CHOOSE x \in mine : TRUE IN
             IF x.ver >= c[k].ver
             THEN [ver |-> x.ver, n |-> x.n, live |-> x.live, late |-> late]
             ELSE c[k]]

\* The committed state of the keys ks, as the insert block of version v: found
\* rows, and tombstones for the missing ones.
BlockOf(ks, v) == {[key |-> k, ver |-> v, n |-> src[k].n, live |-> src[k].live] : k \in ks}

\* Mutant: versions count on from the floor alone.
NextVersionFromFloor(l) == l + 1

\* VersionClock.next.  Wall-clock time passes between two allocations.
NextVersion(l) == IF now + 1 > l THEN now + 1 ELSE l + 1

Allocate(l) == last' = NextVersion(l) /\ now' = now + 1

\* Rows of which ClickHouse or the driver refuses the values; a tombstone never is.
Refused(k) == src[k].live /\ src[k].bad

NoOpenTx == \A k \in Keys : ~open[k].busy

\* The finally of writer(): the floor is persisted when a version was used.
StoreFloor == floor' = IF last > floor THEN last ELSE floor

-----------------------------------------------------------------------------
(* The applications and the operator                                       *)

\* One statement of an application transaction: the row lock is taken, the AFTER
\* trigger draws a sequence value for its outbox row.
Write(k) ==
    /\ ~open[k].busy
    /\ writes < MaxWrites /\ writes' = writes + 1
    /\ \E live \in BOOLEAN, bad \in BOOLEAN :
        /\ live \/ src[k].live
        /\ bad => live /\ "bad" \in Faults
        /\ open' = [open EXCEPT ![k] = [live |-> live, bad |-> bad, busy |-> TRUE,
                                        seq |-> IF armed THEN nextSeq ELSE 0]]
    /\ nextSeq' = IF armed THEN nextSeq + 1 ELSE nextSeq
    /\ UNCHANGED <<src, outbox, armed, chVars, clockVars, lock, stateVars, d, r, happened, faults>>

\* The row and its outbox row become visible together (a rollback only leaves a gap
\* in the sequence).
Commit(k) ==
    /\ open[k].busy
    /\ src' = [src EXCEPT ![k] = [n |-> @.n + 1, live |-> open[k].live, bad |-> open[k].bad]]
    /\ outbox' = IF open[k].seq = 0 THEN outbox
                 ELSE outbox \cup {[seq |-> open[k].seq, key |-> k]}
    /\ open' = [open EXCEPT ![k] = NoTx]
    /\ UNCHANGED <<nextSeq, armed, chVars, clockVars, lock, stateVars, d, r, writes, happened, faults>>

\* TRUNCATE waits for every open transaction; its trigger names no key.
Truncate ==
    /\ NoOpenTx
    /\ Fault("truncate")
    /\ \E k \in Keys : src[k].live
    /\ src' = [k \in Keys |-> IF src[k].live THEN [n |-> src[k].n + 1, live |-> FALSE, bad |-> FALSE]
                              ELSE src[k]]
    /\ outbox' = IF armed THEN outbox \cup {[seq |-> nextSeq, key |-> 0]} ELSE outbox
    /\ nextSeq' = IF armed THEN nextSeq + 1 ELSE nextSeq
    /\ UNCHANGED <<open, armed, chVars, clockVars, lock, stateVars, d, r>>

\* A restore or a DBA switches the triggers off (needs the table lock).
DisableCapture ==
    /\ armed /\ NoOpenTx
    /\ Fault("disable")
    /\ armed' = FALSE
    /\ UNCHANGED <<src, open, outbox, nextSeq, chVars, clockVars, lock, stateVars, d, r>>

\* The resync command restarts the snapshot; it takes no lock.
Resync ==
    /\ Fault("resync")
    /\ snap' = [cursor |-> 0, done |-> FALSE]
    /\ UNCHANGED <<srcVars, chVars, clockVars, lock, request, aged, dead, requeued, d, r>>

-----------------------------------------------------------------------------
(* The drain activity                                                      *)

\* arm_triggers: gives up when a transaction holds the table; the same transaction
\* restarts the snapshot.
Rearm ==
    IF ~armed /\ NoOpenTx
    THEN armed' = TRUE /\ snap' = [cursor |-> 0, done |-> FALSE]
    ELSE UNCHANGED <<armed, snap>>

\* drain: take the lock or skip the tick, load the floor, re-arm capture; with an
\* empty outbox and no pending snapshot the tick ends here.
DrainStart ==
    /\ d.pc = "idle" /\ lock = "none"
    /\ ~armed \/ outbox # {} \/ ~snap.done
    /\ lock' = "drain" /\ last' = floor
    /\ Rearm
    /\ d' = [DIdle EXCEPT !.hasDead = \E k \in Keys : dead[k] > 0,
                          !.pending = ~snap'.done,
                          !.pc = IF outbox # {} \/ ~snap'.done THEN "batch" ELSE "finish"]
    /\ UNCHANGED <<src, open, outbox, nextSeq, chVars, now, floor, request, aged, dead, requeued, r, writes, happened, faults>>

Oldest(rows, m) == {x \in rows : x.seq \in FirstOf({y.seq : y \in rows}, m)}

KeysOf(rows) == {x.key : x \in rows} \ {0}

\* Where key k first appears among the rows read: the order apply_keys works in.
FirstSeen(rows, k) == CHOOSE s \in {x.seq : x \in {y \in rows : y.key = k}} :
                          \A x \in {y \in rows : y.key = k} : s <= x.seq

\* drain_batch: the oldest outbox rows.
DrainBatch ==
    /\ d.pc = "batch"
    /\ LET rows == Oldest(outbox, Batch) IN
       d' = IF rows # {} THEN [d EXCEPT !.pc = "read", !.rows = rows]
            ELSE [d EXCEPT !.pc = IF d.pending THEN "snap" ELSE "finish"]
    /\ UNCHANGED <<srcVars, chVars, clockVars, lock, stateVars, r, writes, happened, faults>>

\* _apply_isolated: version, read of the committed rows, bisection.  Refused keys are
\* parked in order until the tick's budget is spent; the next one fails the table,
\* and the keys after it are not reached.
DrainRead ==
    /\ d.pc = "read"
    /\ LET ks == KeysOf(d.rows)
           Before(k) == {j \in ks : FirstSeen(d.rows, j) < FirstSeen(d.rows, k)}
           refused == {k \in ks : Refused(k)}
           park == {k \in refused : Cardinality(refused \cap Before(k)) < MaxParked - d.parked}
           stop == {k \in refused \ park : refused \cap Before(k) = park}
           reached == {k \in ks \ refused : \A s \in stop : k \in Before(s)}
       IN  /\ d' = [d EXCEPT !.pc = "apply", !.park = park, !.failed = stop # {},
                             !.block = BlockOf(reached, NextVersion(last))]
           /\ IF reached = {} THEN UNCHANGED <<last, now>> ELSE Allocate(last)
    /\ UNCHANGED <<srcVars, chVars, floor, lock, stateVars, r, writes, happened, faults>>

DrainInsert ==
    /\ d.pc = "apply"
    /\ ch' = Landed(ch, d.block, FALSE)
    /\ d' = [d EXCEPT !.pc = "settle"]
    /\ UNCHANGED <<srcVars, flying, clockVars, lock, stateVars, r, writes, happened, faults>>

\* park, then the dead letters of keys that applied cleanly, then the reconcile
\* request of a TRUNCATE; each commits before the outbox rows go.  Attempts are counted
\* up to Retries, from where the code no longer tells them apart.
DrainSettle ==
    /\ d.pc = "settle"
    /\ LET applied == KeysOf(d.rows) \ d.park IN
       dead' = [k \in Keys |->
                  IF k \in d.park THEN IF dead[k] < Retries THEN dead[k] + 1 ELSE dead[k]
                  ELSE IF d.hasDead /\ ~d.failed /\ k \in applied THEN 0 ELSE dead[k]]
    /\ request' = IF \E x \in d.rows : x.key = 0 THEN "new" ELSE request
    /\ d' = [d EXCEPT !.pc = "delete", !.parked = @ + Cardinality(d.park)]
    /\ UNCHANGED <<srcVars, chVars, clockVars, lock, snap, aged, requeued, r, writes, happened, faults>>

\* Mutant: a watermark takes everything up to the last row read.
DoneRowsByWatermark(rows, failed) ==
    IF failed THEN {} ELSE {x \in outbox : \E y \in rows : x.seq <= y.seq}

\* The outbox rows read go by their exact seq; those of a failed table stay, a
\* TRUNCATE row never does.  A full batch asks for another while the budget lasts.
DoneRows(rows, failed) == {x \in rows : x.key = 0 \/ ~failed}

DrainDelete ==
    /\ d.pc = "delete"
    /\ outbox' = outbox \ DoneRows(d.rows, d.failed)
    /\ \E outOfTime \in BOOLEAN :
        d' = [d EXCEPT !.rows = {}, !.block = {}, !.park = {},
                       !.pc = IF outOfTime \/ d.failed THEN "finish"
                              ELSE IF Cardinality(d.rows) >= Batch THEN "batch"
                              ELSE IF d.pending THEN "snap" ELSE "finish"]
    /\ UNCHANGED <<src, open, nextSeq, armed, chVars, clockVars, lock, stateVars, r, writes, happened, faults>>

\* snapshot_page: cursor, version, one keyset page.
PageAfter(c) == FirstOf({k \in Keys : src[k].live /\ k > c}, Page)

SnapshotRead ==
    /\ d.pc = "snap"
    /\ LET page == PageAfter(snap.cursor) IN
        /\ \A k \in page : ~Refused(k)
        /\ d' = [d EXCEPT !.pc = "page", !.block = BlockOf(page, NextVersion(last)),
                          !.cursor = IF page = {} THEN snap.cursor ELSE Max(page),
                          !.done = Cardinality(page) < Page]
    /\ Allocate(last)
    /\ UNCHANGED <<srcVars, chVars, floor, lock, stateVars, r, writes, happened, faults>>

SnapshotInsert ==
    /\ d.pc = "page"
    /\ ch' = Landed(ch, d.block, FALSE)
    /\ d' = [d EXCEPT !.pc = "pageSave"]
    /\ UNCHANGED <<srcVars, flying, clockVars, lock, stateVars, r, writes, happened, faults>>

\* Mutant: the cursor skips the key after the last one copied.
SnapshotSaveSkips ==
    /\ d.pc = "pageSave"
    /\ snap' = [cursor |-> d.cursor + 1, done |-> d.done]
    /\ request' = IF d.done THEN "new" ELSE request
    /\ d' = [d EXCEPT !.block = {}, !.pc = IF d.done THEN "finish" ELSE "snap"]
    /\ UNCHANGED <<srcVars, chVars, clockVars, lock, aged, dead, requeued, r, writes, happened, faults>>

SnapshotSave ==
    /\ d.pc = "pageSave"
    /\ snap' = [cursor |-> d.cursor, done |-> d.done]
    /\ request' = IF d.done THEN "new" ELSE request
    /\ \E outOfTime \in BOOLEAN :
        d' = [d EXCEPT !.block = {}, !.pc = IF d.done \/ outOfTime THEN "finish" ELSE "snap"]
    /\ UNCHANGED <<srcVars, chVars, clockVars, lock, aged, dead, requeued, r, writes, happened, faults>>

DrainFinish ==
    /\ d.pc = "finish"
    /\ StoreFloor
    /\ lock' = "none" /\ last' = 0 /\ d' = DIdle
    /\ UNCHANGED <<srcVars, chVars, now, stateVars, r, writes, happened, faults>>

\* The exception leaves through writer(); the insert in progress may land after its
\* client gave up on it.
Abandon ==
    /\ flying' = IF d.pc \in {"apply", "page"} THEN flying \cup d.block ELSE flying
    /\ lock' = "none" /\ last' = 0 /\ d' = DIdle
    /\ UNCHANGED <<srcVars, ch, now, stateVars, r>>

\* snapshot_page isolates no row: a refused one fails the tick (the version drawn for
\* the page is used by no insert and is left out).
SnapshotRefused ==
    /\ d.pc = "snap" /\ \E k \in PageAfter(snap.cursor) : Refused(k)
    /\ StoreFloor /\ Abandon /\ UNCHANGED <<writes, happened, faults>>

\* A transient error of PostgreSQL or ClickHouse anywhere in the tick.
DrainFail ==
    /\ d.pc \notin {"idle", "finish"}
    /\ Fault("error")
    /\ StoreFloor /\ Abandon

-----------------------------------------------------------------------------
(* The reconcile activity                                                  *)

\* Mutant: the last attempt is not given.
DueOneShort == {k \in Keys \ requeued : dead[k] > 0 /\ dead[k] + 1 < Retries}

\* requeue_deadletter: parked keys get an outbox row again, a few times each and at
\* most hourly.
Due == {k \in Keys \ requeued : dead[k] > 0 /\ dead[k] < Retries}

\* reconcile: requeue, then remember the request a sweep of the table answers; a
\* table still snapshotting waits.
ReconcileStart ==
    /\ r.pc = "idle"
    /\ outbox' = outbox \cup
          {[seq |-> nextSeq + Cardinality({j \in Due : j < k}), key |-> k] : k \in Due}
    /\ nextSeq' = nextSeq + Cardinality(Due)
    /\ requeued' = requeued \cup Due
    /\ IF snap.done /\ (request # "none" \/ aged)
       THEN /\ r' = [RIdle EXCEPT !.pc = "read"]
            /\ request' = IF request = "new" THEN "seen" ELSE request
       ELSE UNCHANGED <<r, request>>
    /\ UNCHANGED <<src, open, armed, chVars, clockVars, lock, snap, aged, dead, d, writes, happened, faults>>

\* After a page: the next page, the other pass, or the end of the sweep.
Advance(ids) ==
    IF Cardinality(ids) = Chunk
    THEN [RIdle EXCEPT !.pc = "read", !.pass = r.pass, !.after = Max(ids)]
    ELSE IF r.pass = "A" THEN [RIdle EXCEPT !.pc = "read", !.pass = "B"]
    ELSE [RIdle EXCEPT !.pc = "end"]

\* Pass A pages over the ids live in ClickHouse, pass B over those in PostgreSQL.
SweepRead ==
    /\ r.pc = "read"
    /\ LET side == IF r.pass = "A" THEN {k \in Keys : ch[k].live} ELSE {k \in Keys : src[k].live}
           ids == FirstOf({k \in side : k > r.after}, Chunk)
       IN  r' = IF ids = {} THEN Advance({}) ELSE [r EXCEPT !.pc = "compare", !.ids = ids]
    /\ UNCHANGED <<srcVars, chVars, clockVars, lock, stateVars, d, writes, happened, faults>>

\* The other database is asked about the same ids.
SweepCompare ==
    /\ r.pc = "compare"
    /\ LET differ == {k \in r.ids : IF r.pass = "A" THEN ~src[k].live ELSE ~ch[k].live} IN
       r' = IF differ = {} THEN Advance(r.ids) ELSE [r EXCEPT !.pc = "repair", !.keys = differ]
    /\ UNCHANGED <<srcVars, chVars, clockVars, lock, stateVars, d, writes, happened, faults>>

\* repair: the lock is waited for and the keys are read again under it.  A refused
\* row ends the sweep.
SweepRepair ==
    /\ r.pc = "repair" /\ lock = "none"
    /\ IF \E k \in r.keys : Refused(k)
       THEN r' = RIdle /\ UNCHANGED <<lock, last, now>>
       ELSE /\ lock' = "reconcile" /\ Allocate(floor)
            /\ r' = [r EXCEPT !.pc = "insert", !.block = BlockOf(r.keys, NextVersion(floor))]
    /\ UNCHANGED <<srcVars, chVars, floor, stateVars, d, writes, happened, faults>>

SweepInsert ==
    /\ r.pc = "insert"
    /\ ch' = Landed(ch, r.block, FALSE)
    /\ r' = [r EXCEPT !.pc = "release"]
    /\ UNCHANGED <<srcVars, flying, clockVars, lock, stateVars, d, writes, happened, faults>>

SweepRelease ==
    /\ r.pc = "release"
    /\ StoreFloor
    /\ lock' = "none" /\ last' = 0
    /\ r' = Advance(r.ids)
    /\ UNCHANGED <<srcVars, chVars, now, stateVars, d, writes, happened, faults>>

\* Mutant: the sweep clears whatever request stands when it ends.
ReconcileEndClears ==
    /\ r.pc = "end"
    /\ request' = "none"
    /\ aged' = FALSE
    /\ r' = RIdle
    /\ UNCHANGED <<srcVars, chVars, clockVars, lock, snap, dead, requeued, d, writes, happened, faults>>

\* A request made during the sweep differs from the one seen and stays.
ReconcileEnd ==
    /\ r.pc = "end"
    /\ request' = IF request = "new" THEN "new" ELSE "none"
    /\ aged' = FALSE
    /\ r' = RIdle
    /\ UNCHANGED <<srcVars, chVars, clockVars, lock, snap, dead, requeued, d, writes, happened, faults>>

ReconcileFail ==
    /\ r.pc # "idle"
    /\ Fault("error")
    /\ flying' = IF r.pc = "insert" THEN flying \cup r.block ELSE flying
    /\ IF r.pc \in {"insert", "release"} THEN StoreFloor /\ lock' = "none" /\ last' = 0
       ELSE UNCHANGED <<floor, lock, last>>
    /\ r' = RIdle
    /\ UNCHANGED <<srcVars, ch, now, stateVars, d>>

-----------------------------------------------------------------------------
(* Restart and faults                                                      *)

\* install on a container start, with the lock it waits for: capture is re-armed (a
\* transaction that holds the table fails the install), versions are raised above
\* everything in ClickHouse, a landing table without a live row is copied again when
\* PostgreSQL has rows, and within a time budget the pending snapshot is begun: its
\* pages, and the floor stored at the end, are the steps of d from "snap" on.
Install ==
    /\ d.pc = "idle" /\ lock = "none"
    /\ armed \/ NoOpenTx
    /\ Fault("install")
    /\ armed' = TRUE
    /\ lock' = "drain" /\ last' = Max({floor} \cup {ch[k].ver : k \in Keys})
    /\ snap' = IF \/ ~armed
                  \/ (\A k \in Keys : ~ch[k].live) /\ (\E k \in Keys : src[k].live)
               THEN [cursor |-> 0, done |-> FALSE] ELSE snap
    /\ \E outOfTime \in BOOLEAN :
        d' = [DIdle EXCEPT !.pc = IF snap'.done \/ outOfTime THEN "finish" ELSE "snap"]
    /\ UNCHANGED <<src, open, outbox, nextSeq, chVars, now, floor, request, aged, dead, requeued, r>>

\* A day after the last sweep of the table.
DayPasses ==
    /\ ~aged /\ Fault("day")
    /\ aged' = TRUE
    /\ UNCHANGED <<srcVars, chVars, clockVars, lock, snap, request, dead, requeued, d, r>>

\* An hour after the last requeue.  A drain tick is far shorter; bound: the hour does
\* not pass while the requeued row is still waiting for one.
HourPasses ==
    /\ requeued # {} /\ d.pc = "idle"
    /\ \A x \in outbox : x.key \notin requeued
    /\ requeued' = {}
    /\ UNCHANGED <<srcVars, chVars, clockVars, lock, snap, request, aged, dead, d, r, writes, happened, faults>>

\* An insert its writer gave up on reaches ClickHouse after all.
LandLate ==
    /\ \E x \in flying : ch' = Landed(ch, {x}, TRUE) /\ flying' = flying \ {x}
    /\ UNCHANGED <<srcVars, clockVars, lock, stateVars, d, r, writes, happened, faults>>

\* The writer's PostgreSQL session is lost: the server drops the lock, the floor
\* cannot be stored, the insert in progress may still land.
SessionLost ==
    /\ lock # "none"
    /\ Fault("loss")
    /\ lock' = "none" /\ last' = 0
    /\ IF lock = "drain"
       THEN /\ flying' = IF d.pc \in {"apply", "page"} THEN flying \cup d.block ELSE flying
            /\ d' = DIdle /\ UNCHANGED r
       ELSE /\ flying' = IF r.pc = "insert" THEN flying \cup r.block ELSE flying
            /\ r' = RIdle /\ UNCHANGED d
    /\ UNCHANGED <<srcVars, ch, now, floor, stateVars>>

ClockStepsBack ==
    /\ Fault("step")
    /\ now > 1 /\ now' = 1
    /\ UNCHANGED <<srcVars, chVars, floor, last, lock, stateVars, d, r>>

DrainStep ==
    \/ DrainStart \/ DrainBatch \/ DrainRead \/ DrainInsert \/ DrainSettle \/ DrainDelete
    \/ SnapshotRead \/ SnapshotRefused \/ SnapshotInsert \/ SnapshotSave \/ DrainFinish

SweepStep ==
    \/ SweepRead \/ SweepCompare \/ SweepRepair \/ SweepInsert \/ SweepRelease \/ ReconcileEnd

Next ==
    \/ \E k \in Keys : Write(k) \/ Commit(k)
    \/ Truncate \/ DisableCapture \/ Resync
    \/ DrainStep \/ DrainFail
    \/ ReconcileStart \/ SweepStep \/ ReconcileFail
    \/ Install \/ DayPasses \/ HourPasses \/ LandLate \/ SessionLost \/ ClockStepsBack

\* Schedules start both activities again and again, an activity runs to its end unless
\* a fault ends it, pg_advisory_lock serves waiting sessions in turn, and application
\* transactions end.  Nothing forces a late insert to land.
Safety == Init /\ [][Next]_vars

Spec ==
    /\ Safety
    /\ WF_vars(DrainStep) /\ WF_vars(ReconcileStart) /\ WF_vars(HourPasses) /\ SF_vars(SweepStep)
    /\ \A k \in Keys : WF_vars(Commit(k))

-----------------------------------------------------------------------------
(* Properties                                                              *)

Row == [key : Keys, ver : Nat, n : Nat, live : BOOLEAN]

\* Type invariant.
CDCTypeOK ==
    /\ src \in [Keys -> [n : Nat, live : BOOLEAN, bad : BOOLEAN]]
    /\ open \in [Keys -> [live : BOOLEAN, bad : BOOLEAN, seq : Nat, busy : BOOLEAN]]
    /\ outbox \in SUBSET [seq : Nat, key : 0 .. NumKeys]
    /\ nextSeq \in Nat /\ armed \in BOOLEAN
    /\ ch \in [Keys -> [ver : Nat, n : Nat, live : BOOLEAN, late : BOOLEAN]]
    /\ flying \in SUBSET Row
    /\ now \in Nat /\ floor \in Nat /\ last \in Nat
    /\ lock \in {"none", "drain", "reconcile"}
    /\ snap \in [cursor : 0 .. NumKeys, done : BOOLEAN]
    /\ request \in {"none", "seen", "new"}
    /\ aged \in BOOLEAN /\ dead \in [Keys -> 0 .. Retries]
    /\ requeued \subseteq Keys /\ writes \in Nat /\ happened \subseteq Faults /\ faults \in Nat

\* What a reader of the landing table sees of a key is its committed row.
Mirrored(k) == ch[k].live = src[k].live /\ (src[k].live => ch[k].n = src[k].n)

SwappedLiveness(k) == ch[k].live # src[k].live

\* The sweep in progress has still to look at key k on the side it pages over.
StillToSweep(k) ==
    \/ r.pc = "idle"
    \/ /\ r.pc # "end"
       /\ \/ ch[k].live /\ r.pass = "A" /\ (k > r.after \/ k \in r.ids)
          \/ src[k].live /\ (r.pass = "A" \/ k > r.after \/ k \in r.ids)

\* Something recorded in PostgreSQL will bring key k up to date.
Owed(k) ==
    \/ \E x \in outbox : x.key = k \/ (x.key = 0 /\ ~src[k].live)
    \/ dead[k] > 0
    \/ ~armed
    \/ ~snap.done /\ (k > snap.cursor \/ SwappedLiveness(k))
    \/ request = "new" /\ SwappedLiveness(k)
    \/ request = "seen" /\ SwappedLiveness(k) /\ StillToSweep(k)
    \/ ch[k].late /\ SwappedLiveness(k)  \* no record; the daily sweep compares every id

\* No change is forgotten: whenever ClickHouse does not show the committed row of a key,
\* the outbox, the dead letters, a snapshot or a requested sweep still owes it, through
\* transactions that commit after a later one was drained, writes made while capture
\* was off, TRUNCATE, failed ticks, lost sessions and requests made during a sweep
\* (oss_outbox_cdc.py, facts 2 and 3 of the module).
NothingForgotten == \A k \in Keys : Mirrored(k) \/ Owed(k)

\* A reader never goes back: the row ClickHouse shows for a key never describes an
\* older committed state than the row it showed before, whoever inserts it and
\* however late it lands (fact 1: versions increase in the order of the states).
ReadersNeverGoBack == [][\A k \in Keys : ch'[k].n >= ch[k].n]_vars

\* Once the applications stop, ClickHouse comes to show every committed row and keeps
\* showing it, unless a row remains that ClickHouse refuses.
Converges == <>[]((\E k \in Keys : Refused(k)) \/ \A k \in Keys : Mirrored(k))

\* A parked key does not stay parked once its row can be applied, unless its attempts
\* are used up (requeue_deadletter, and drain_batch forgetting the dead letter).
ParkedIsReleased ==
    \A k \in Keys : dead[k] > 0 ~> dead[k] = 0 \/ dead[k] = Retries \/ Refused(k)

=============================================================================
