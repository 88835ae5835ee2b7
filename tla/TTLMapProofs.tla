---------------------------- MODULE TTLMapProofs ----------------------------
(***************************************************************************)
(* Safety of the TTL map for any set of keys, any durations and any        *)
(* idleDuration.                                                           *)
(***************************************************************************)
EXTENDS TTLMap, TLAPS

\* What a sleep is: no longer than asked for, nor than Idle.
LEMMA SleepFacts ==
    ASSUME NEW d \in Int, d > 0
    PROVE  Sleep(d) \in 0 .. Idle /\ Sleep(d) <= d
  BY IdleAssumption DEF Sleep

\* Every operation keeps the inductive invariant.
LEMMA InductiveStep ==
    ASSUME IInv, [Next]_vars
    PROVE  IInv'
<1> USE TTLsAssumption, IdleAssumption
<1>1. ASSUME NEW k \in Key, Add(k) PROVE IInv'
  <2> PICK ttl \in TTLs : left' = [left EXCEPT ![k] = ttl]
    BY <1>1 DEF Add
  <2>1. TypeOK' /\ HeapInv' /\ EveryItemHasDeadline'
    BY <1>1 DEF Add, IInv, TypeOK, HeapInv, EveryItemHasDeadline
  <2>2. NoEarlyRemoval'
    BY <1>1 DEF Add, IInv, TypeOK, NoEarlyRemoval
  <2>3. OverdueAtMostIdle' /\ SlackInv'
    BY <1>1 DEF Add, IInv, TypeOK, OverdueAtMostIdle, SlackInv
  <2> QED
    BY <2>1, <2>2, <2>3 DEF IInv
<1>2. ASSUME NEW k \in Key, Pop(k) PROVE IInv'
  BY <1>2 DEF Pop, IInv, TypeOK, HeapInv, EveryItemHasDeadline, NoEarlyRemoval,
     OverdueAtMostIdle, SlackInv
<1>3. ASSUME SweepAll PROVE IInv'
  <2>1. NoEarlyRemoval'
    BY <1>3 DEF SweepAll, Kept, IInv, TypeOK, HeapInv, EveryItemHasDeadline, NoEarlyRemoval
  <2>2. TypeOK' /\ HeapInv' /\ EveryItemHasDeadline' /\ OverdueAtMostIdle' /\ SlackInv'
    BY <1>3 DEF SweepAll, IInv, TypeOK, HeapInv, EveryItemHasDeadline, OverdueAtMostIdle, SlackInv
  <2> QED
    BY <2>1, <2>2 DEF IInv
<1>4. ASSUME SweepToFirst PROVE IInv'
  <2>1. PICK first \in Kept :
          /\ \E ties \in SUBSET {k \in heap \ Kept : left[k] = left[first]} :
                LET gone == ties \cup {k \in heap \ Kept : left[k] < left[first]} IN
                heap' = heap \ gone /\ items' = items \ gone
          /\ \A k \in Kept : left[first] <= left[k]
          /\ wake' = Sleep(left[first])
    BY <1>4 DEF SweepToFirst
  <2>2. PICK ties \in SUBSET {k \in heap \ Kept : left[k] = left[first]} :
          LET gone == ties \cup {k \in heap \ Kept : left[k] < left[first]} IN
          heap' = heap \ gone /\ items' = items \ gone
    BY <2>1
  <2> DEFINE gone == ties \cup {k \in heap \ Kept : left[k] < left[first]}
  <2>3. heap' = heap \ gone /\ items' = items \ gone /\ gone \subseteq heap \ Kept
    BY <2>2
  <2>4. left[first] \in Int /\ left[first] > 0
    BY DEF Kept, IInv, TypeOK
  <2>5. \A k \in heap' : left[k] >= left[first]
    BY <2>1, <2>3, <2>4 DEF IInv, TypeOK
  <2>6. wake' \in 0 .. Idle
    BY <2>1, <2>4, SleepFacts
  <2>7. NoEarlyRemoval'
    <3> SUFFICES ASSUME NEW k \in added' \ (items' \cup popped') PROVE left'[k] <= 0
      BY DEF NoEarlyRemoval
    <3>1. k \in added \ popped /\ left' = left
      BY <1>4 DEF SweepToFirst
    <3>2. CASE k \in items
      BY <2>3, <3>1, <3>2 DEF Kept, IInv, TypeOK
    <3>3. CASE k \notin items
      BY <3>1, <3>3 DEF IInv, NoEarlyRemoval
    <3> QED
      BY <3>2, <3>3
  <2>8. TypeOK' /\ HeapInv' /\ EveryItemHasDeadline'
    BY <1>4, <2>3, <2>6 DEF SweepToFirst, IInv, TypeOK, HeapInv, EveryItemHasDeadline
  <2>9. OverdueAtMostIdle' /\ SlackInv'
    <3>1. left' = left
      BY <1>4 DEF SweepToFirst
    <3>2. \A k \in heap' : left[k] \in Int /\ left[k] > 0
      BY <2>3, <2>4, <2>5 DEF IInv, TypeOK
    <3> QED
      BY <2>6, <3>1, <3>2 DEF OverdueAtMostIdle, SlackInv
  <2> QED
    BY <2>7, <2>8, <2>9 DEF IInv
<1>5. ASSUME WakeUp PROVE IInv'
  BY <1>5 DEF WakeUp, IInv, TypeOK, HeapInv, EveryItemHasDeadline, NoEarlyRemoval,
     OverdueAtMostIdle, SlackInv
<1>6. ASSUME ReceiveDone PROVE IInv'
  BY <1>6 DEF ReceiveDone, IInv, TypeOK, HeapInv, EveryItemHasDeadline, NoEarlyRemoval,
     OverdueAtMostIdle, SlackInv
<1>7. ASSUME Stop PROVE IInv'
  BY <1>7 DEF Stop, IInv, TypeOK, HeapInv, EveryItemHasDeadline, NoEarlyRemoval,
     OverdueAtMostIdle, SlackInv
<1>8. ASSUME Tick PROVE IInv'
  <2>1. TypeOK' /\ HeapInv' /\ EveryItemHasDeadline'
    BY <1>8 DEF Tick, IInv, TypeOK, HeapInv, EveryItemHasDeadline
  <2>2. NoEarlyRemoval'
    BY <1>8 DEF Tick, IInv, TypeOK, NoEarlyRemoval
  <2>3. OverdueAtMostIdle' /\ SlackInv'
    BY <1>8 DEF Tick, IInv, TypeOK, HeapInv, OverdueAtMostIdle, SlackInv
  <2> QED
    BY <2>1, <2>2, <2>3 DEF IInv
<1>9. CASE UNCHANGED vars
  BY <1>9 DEF vars, IInv, TypeOK, HeapInv, EveryItemHasDeadline, NoEarlyRemoval,
     OverdueAtMostIdle, SlackInv
<1> QED
  BY <1>1, <1>2, <1>3, <1>4, <1>5, <1>6, <1>7, <1>8, <1>9 DEF Next, Cleanup

\* The invariant holds in every reachable state.
LEMMA MapInvariance == Spec => []IInv
<1>1. Init => IInv
  BY IdleAssumption
  DEF Init, IInv, TypeOK, HeapInv, EveryItemHasDeadline, NoEarlyRemoval, OverdueAtMostIdle, SlackInv
<1>2. IInv /\ [Next]_vars => IInv'
  BY InductiveStep
<1> QED
  BY <1>1, <1>2, PTL DEF Spec

\* The cleanup takes no session before its time.
THEOREM SessionsKeepTheirTime == Spec => []NoEarlyRemoval
<1>1. IInv => NoEarlyRemoval
  BY DEF IInv
<1> QED
  BY <1>1, MapInvariance, PTL

\* No session is forgotten by the cleanup.
THEOREM DeadlinesAreKept == Spec => []EveryItemHasDeadline
<1>1. IInv => EveryItemHasDeadline
  BY DEF IInv
<1> QED
  BY <1>1, MapInvariance, PTL

\* Nothing stays in the map or in the heap longer than idleDuration past its
\* deadline.
THEOREM EntriesLeaveInTime == Spec => []OverdueAtMostIdle
<1>1. IInv => OverdueAtMostIdle
  BY DEF IInv
<1> QED
  BY <1>1, MapInvariance, PTL
=============================================================================
