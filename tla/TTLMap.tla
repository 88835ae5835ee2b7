------------------------------- MODULE TTLMap -------------------------------
(***************************************************************************)
(* The map with expiring keys that holds the sessions: a Go map, a heap of *)
(* deadlines, one cleanup goroutine that sleeps until the first deadline   *)
(* but never longer than idleDuration, and Stop over an unbuffered channel.*)
(*                                                                         *)
(* Source: pkg/utils/ttlmap.go, as receive_pack_session_map.go and         *)
(* upload_pack_session_map.go use it: keys are fresh uuids, never added    *)
(* twice.  Every operation runs under the mutex and is one step.  Time is  *)
(* counted in ticks, relative to now, so that no clock grows: left[k] is   *)
(* the time until the deadline of k and wake the rest of the sleep.        *)
(***************************************************************************)
EXTENDS Integers

CONSTANTS
    Key,   \* session ids
    TTLs,  \* the durations Add is called with
    Idle   \* idleDuration

ASSUME TTLsAssumption == TTLs \subseteq Nat
ASSUME IdleAssumption == Idle \in Nat \ {0}

VARIABLES
    items,    \* keys of TTLMap.items
    heap,     \* keys that have an entry in TTLMap.keys
    left,     \* ticks until the deadline of a key, negative once overdue
    wake,     \* ticks the cleanup goroutine still sleeps
    cleaner,  \* the cleanup goroutine: "poll", "sleeping", "stopped"
    stop,     \* the caller of Stop: "none", "waiting", "returned"
    added,    \* (history) keys ever added
    popped    \* (history) keys removed by Pop

vars == <<items, heap, left, wake, cleaner, stop, added, popped>>

TypeOK ==
    /\ items \subseteq Key
    /\ heap \subseteq Key
    /\ left \in [Key -> Int]
    /\ wake \in 0 .. Idle
    /\ cleaner \in {"poll", "sleeping", "stopped"}
    /\ stop \in {"none", "waiting", "returned"}
    /\ added \subseteq Key
    /\ popped \subseteq Key

Init ==
    /\ items = {}
    /\ heap = {}
    /\ left = [k \in Key |-> 0]
    /\ wake = 0
    /\ cleaner = "poll"
    /\ stop = "none"
    /\ added = {}
    /\ popped = {}

Add(k) ==
    /\ k \notin added
    /\ \E ttl \in TTLs : left' = [left EXCEPT ![k] = ttl]
    /\ items' = items \cup {k}
    /\ heap' = heap \cup {k}
    /\ added' = added \cup {k}
    /\ UNCHANGED <<wake, cleaner, stop, popped>>

\* Pop leaves the heap entry behind.
Pop(k) ==
    /\ k \in items
    /\ items' = items \ {k}
    /\ popped' = popped \cup {k}
    /\ UNCHANGED <<heap, left, wake, cleaner, stop, added>>

\* Mutant: the comparison with now is off by one.
KeptOffByOne == {k \in heap \cap items : left[k] > 1}

\* Entries that make removeExpiredItems stop: not expired, key still there.
Kept == {k \in heap \cap items : left[k] > 0}

\* Mutant: sleep until the next deadline, however far it is.
SleepUntil(d) == d

\* What removeExpiredItems returns for a first kept entry due in d.
Sleep(d) == IF d < Idle THEN d ELSE Idle

\* select takes the default branch: removeExpiredItems empties the heap.
SweepAll ==
    /\ cleaner = "poll"
    /\ stop # "waiting"
    /\ Kept = {}
    /\ heap' = {}
    /\ items' = items \ heap
    /\ wake' = Idle
    /\ cleaner' = "sleeping"
    /\ UNCHANGED <<left, stop, added, popped>>

\* Mutant: the entry that ended the sweep is not pushed back.
SweepDropsFirst ==
    /\ cleaner = "poll"
    /\ stop # "waiting"
    /\ \E first \in Kept :
          /\ \A k \in Kept : left[first] <= left[k]
          /\ LET gone == {k \in heap \ Kept : left[k] < left[first]} IN
             heap' = heap \ (gone \cup {first}) /\ items' = items \ gone
          /\ wake' = Sleep(left[first])
    /\ cleaner' = "sleeping"
    /\ UNCHANGED <<left, stop, added, popped>>

\* It pops entries in the order of their deadlines up to the first one to be
\* kept.  Stale entries with the very same deadline may come before it or not.
SweepToFirst ==
    /\ cleaner = "poll"
    /\ stop # "waiting"
    /\ \E first \in Kept :
          /\ \A k \in Kept : left[first] <= left[k]
          /\ \E ties \in SUBSET {k \in heap \ Kept : left[k] = left[first]} :
                LET gone == ties \cup {k \in heap \ Kept : left[k] < left[first]} IN
                heap' = heap \ gone /\ items' = items \ gone
          /\ wake' = Sleep(left[first])
    /\ cleaner' = "sleeping"
    /\ UNCHANGED <<left, stop, added, popped>>

WakeUp ==
    /\ cleaner = "sleeping"
    /\ wake = 0
    /\ cleaner' = "poll"
    /\ UNCHANGED <<items, heap, left, wake, stop, added, popped>>

\* Stop blocks on the unbuffered channel.
Stop ==
    /\ stop = "none"
    /\ stop' = "waiting"
    /\ UNCHANGED <<items, heap, left, wake, cleaner, added, popped>>

\* Mutant: the loop never looks at the channel.
NeverReceiveDone == FALSE /\ UNCHANGED vars

\* The goroutine polls the channel between two sweeps and returns.
ReceiveDone ==
    /\ cleaner = "poll"
    /\ stop = "waiting"
    /\ stop' = "returned"
    /\ cleaner' = "stopped"
    /\ UNCHANGED <<items, heap, left, wake, added, popped>>

\* Time passes.  The goroutine runs promptly when its sleep is over; how long a
\* key is overdue is not counted past Idle + 1.
Tick ==
    /\ cleaner # "poll"
    /\ cleaner = "sleeping" => wake > 0
    /\ wake' = IF cleaner = "sleeping" THEN wake - 1 ELSE wake
    /\ left' = [k \in Key |-> IF left[k] < -Idle THEN left[k] ELSE left[k] - 1]
    /\ UNCHANGED <<items, heap, cleaner, stop, added, popped>>

Cleanup == SweepAll \/ SweepToFirst \/ WakeUp \/ ReceiveDone

Next ==
    \/ \E k \in Key : Add(k) \/ Pop(k)
    \/ Cleanup
    \/ Stop
    \/ Tick

Spec == Init /\ [][Next]_vars

\* The goroutine is scheduled and time goes on.  Nobody has to call Add, Pop or
\* Stop.
FairSpec == Spec /\ WF_vars(Cleanup) /\ WF_vars(Tick)

-----------------------------------------------------------------------------
(* Properties *)

\* A key in the map has a deadline in the heap: no session can be forgotten
\* by the cleanup.  (Add, Pop, removeExpiredItems)
EveryItemHasDeadline == items \subseteq heap

\* The cleanup never takes a key before its deadline: a key that is gone was
\* popped or has expired.  (removeExpiredItems, ttlmap.go:97-108)
NoEarlyRemoval == \A k \in added \ (items \cup popped) : left[k] <= 0

\* While the goroutine runs, no entry, of a live key or left behind by Pop,
\* outlasts its deadline by more than idleDuration, even one added while the
\* goroutine sleeps towards a later deadline.  (removeExpiredItems, StartCleanUpRoutine)
OverdueAtMostIdle ==
    cleaner # "stopped" => \A k \in heap : left[k] >= -Idle

\* Every key leaves the map in the end, unless the goroutine was stopped.
\* (StartCleanUpRoutine)
KeysExpire == \A k \in Key : (k \in items) ~> (k \notin items \/ cleaner = "stopped")

\* Stop returns: the goroutine comes back from its sleep and polls the channel.
\* (Stop, ttlmap.go:124-126)
StopReturns == (stop = "waiting") ~> (stop = "returned")

-----------------------------------------------------------------------------
(* The strengthening that makes the bound on overdue entries inductive *)

\* Whoever was in the heap at the last sweep is due after the end of the sleep,
\* whoever came later was not due yet: both leave Idle ticks of slack.
SlackInv == cleaner = "sleeping" => \A k \in heap : left[k] >= wake - Idle

HeapInv == heap \subseteq added

IInv ==
    /\ TypeOK
    /\ HeapInv
    /\ EveryItemHasDeadline
    /\ NoEarlyRemoval
    /\ OverdueAtMostIdle
    /\ SlackInv
=============================================================================
