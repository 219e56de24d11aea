----------------------------- MODULE ShadowStore -----------------------------
(***************************************************************************)
(* The ring buffer of captured shadow results (routing/shadow_store.go),   *)
(* shown to implement ShadowQueue.  Every method holds s.mu for its whole  *)
(* body and is one step.                                                   *)
(***************************************************************************)
EXTENDS Integers, Sequences

CONSTANTS
    Cap,       \* the capacity
    Results    \* what callers add

ASSUME CapAssumption == Cap \in Nat \ {0}

VARIABLES
    buf,      \* s.buf
    head,     \* s.head, the next write position
    count,    \* s.count
    flushed,  \* s.flushed
    out,      \* what the last DrainAll returned (nil is the empty sequence)
    added     \* history: how many results were added

storeVars == <<buf, head, count, flushed, out, added>>

Zero == "zero"    \* the zero ShadowResult that fills a new buffer

ASSUME ZeroAssumption == Zero \notin Results

StoreInit ==
    /\ buf = [i \in 0..(Cap - 1) |-> Zero]
    /\ head = 0
    /\ count = 0
    /\ flushed = 0
    /\ out = <<>>
    /\ added = 0

\* Mutant: count grows without limit.
AddUncapped(r) ==
    /\ buf' = [buf EXCEPT ![head] = r]
    /\ head' = (head + 1) % Cap
    /\ count' = count + 1
    /\ added' = added + 1
    /\ UNCHANGED <<flushed, out>>

Add(r) ==
    /\ buf' = [buf EXCEPT ![head] = r]
    /\ head' = (head + 1) % Cap
    /\ count' = IF count < Cap THEN count + 1 ELSE count
    /\ added' = added + 1
    /\ UNCHANGED <<flushed, out>>

\* The results DrainAll copies out.
Contents ==
    [i \in 1..count |->
        IF count = Cap THEN buf[(head + i - 1) % Cap] ELSE buf[i - 1]]

\* Mutant: DrainAll leaves the write position where it was.
DrainKeepsHead ==
    /\ count > 0
    /\ out' = Contents
    /\ flushed' = flushed + count
    /\ count' = 0
    /\ UNCHANGED <<buf, head, added>>

\* Mutant: DrainAll copies the results and leaves them in the buffer.
DrainKeepsCount ==
    /\ out' = Contents
    /\ flushed' = flushed + count
    /\ UNCHANGED <<buf, head, count, added>>

\* Mutant: DrainAll does not count what it hands over.
DrainUncounted ==
    /\ out' = Contents
    /\ count' = 0
    /\ head' = 0
    /\ UNCHANGED <<buf, flushed, added>>

DrainAll ==
    \/ /\ count = 0
       /\ out' = <<>>
       /\ UNCHANGED <<buf, head, count, flushed, added>>
    \/ /\ count > 0
       /\ out' = Contents
       /\ flushed' = flushed + count
       /\ count' = 0
       /\ head' = 0
       /\ UNCHANGED <<buf, added>>

StoreNext == DrainAll \/ \E r \in Results : Add(r)

StoreSpec == StoreInit /\ [][StoreNext]_storeVars

\* Stats().TotalAdded
TotalAdded == flushed + count

-----------------------------------------------------------------------------
(* Properties *)

\* The values of the store's fields.
StoreTypeOK ==
    /\ buf \in [0..(Cap - 1) -> Results \union {Zero}]
    /\ head \in 0..(Cap - 1)
    /\ count \in 0..Cap
    /\ flushed \in Nat
    /\ added \in Nat
    /\ out \in Seq(Results)

\* Until the buffer is full its entries are 0..count-1, as DrainAll's copy of
\* the first count entries assumes after any mix of wraps and drains.
HeadFollowsCount == count < Cap => head = count

\* No entry of the buffer that was never written is handed over.
NoZeroResult == \A i \in 0..(count - 1) : buf[i] # Zero

\* The ring buffer is a drop-oldest queue: whatever wraps around and drains
\* came before, DrainAll returns the last count results added, in order.
Queue == INSTANCE ShadowQueue WITH queue <- Contents
ImplementsQueue == Queue!QSpec

=============================================================================
