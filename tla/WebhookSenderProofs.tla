------------------------ MODULE WebhookSenderProofs ------------------------
(***************************************************************************)
(* Proofs about WebhookSender for all events, webhooks and calls of Flush: *)
(* the mutex is held by the goroutine that is in the loop, the WaitGroup    *)
(* counts those that have not returned, and an event that is covered by a   *)
(* Flush stays queued only as long as one of these is left to post it.      *)
(***************************************************************************)
EXTENDS WebhookSender, TLAPS, FiniteSetTheorems, SequenceTheorems

Running == {"loop", "posting"}
Active == {f \in Flusher : pc[f] \in {"waiting"} \cup Running}

\* One goroutine is in the loop, the one that holds the mutex; the others
\* have not begun, or are done.
MutexInv ==
    /\ \A f \in Flusher : pc[f] \in Running <=> mutex = f
    /\ \A f \in Flusher : pc[f] \in {"unused", "waiting"} => hook[f] = 1

\* The WaitGroup counts the goroutines that have not returned.
CountInv == IsFiniteSet(Active) /\ wg = Cardinality(Active)

\* Events are queued under their own types.
EnqueuedInv == \A t \in Type : \A e \in ToSet(enqueued[t]) : TypeOf[e] = t

\* Somebody is there to post an event that is covered and still queued.
CoveredInv ==
    /\ covered \subseteq Enqueued
    /\ \A e \in covered : e \in ToSet(events[TypeOf[e]]) => Active # {}

IInv ==
    /\ TypeOK
    /\ MutexInv
    /\ CountInv
    /\ EnqueuedInv
    /\ CoveredInv
    /\ EachEventOnceInOrder

-----------------------------------------------------------------------------
(* Facts about queues *)

\* What an event adds to a queue it is appended to.
LEMMA AppendFacts ==
    ASSUME NEW p \in Seq(Event), NEW q \in Seq(Event), NEW e \in Event
    PROVE  /\ p \o Append(q, e) = Append(p \o q, e)
           /\ ToSet(Append(q, e)) = ToSet(q) \cup {e}
<1>1. p \o Append(q, e) = Append(p \o q, e)
  <2>1. p \o q \in Seq(Event) /\ <<e>> \in Seq(Event)
    BY ConcatProperties
  <2>2. Append(q, e) = q \o <<e>> /\ Append(p \o q, e) = (p \o q) \o <<e>>
    BY <2>1, AppendIsConcat
  <2> QED
    BY <2>1, <2>2, ConcatAssociative
<1>2. ToSet(Append(q, e)) = ToSet(q) \cup {e}
  BY AppendProperties DEF ToSet
<1> QED
  BY <1>1, <1>2

\* What is in two queues put together.
LEMMA ConcatToSet ==
    ASSUME NEW p \in Seq(Event), NEW q \in Seq(Event)
    PROVE  ToSet(p \o q) = ToSet(p) \cup ToSet(q)
<1>1. /\ p \o q \in Seq(Event) /\ Len(p \o q) = Len(p) + Len(q)
      /\ Len(p) \in Nat /\ Len(q) \in Nat
      /\ \A i \in 1 .. Len(p) + Len(q) :
            (p \o q)[i] = IF i <= Len(p) THEN p[i] ELSE q[i - Len(p)]
  BY ConcatProperties
<1>2. ASSUME NEW i \in 1 .. Len(q) PROVE (p \o q)[i + Len(p)] = q[i]
  BY <1>1
<1>3. ToSet(q) \subseteq ToSet(p \o q)
  <2>1. \A i \in 1 .. Len(q) : i + Len(p) \in 1 .. Len(p) + Len(q)
    BY <1>1
  <2> QED
    BY <1>1, <1>2, <2>1 DEF ToSet
<1>4. ToSet(p) \subseteq ToSet(p \o q)
  BY <1>1 DEF ToSet
<1>5. ToSet(p \o q) \subseteq ToSet(p) \cup ToSet(q)
  BY <1>1 DEF ToSet
<1> QED
  BY <1>3, <1>4, <1>5

-----------------------------------------------------------------------------
(* The inductive invariant *)

\* Webhooks are numbered from 1.
LEMMA HookFacts == Hook = 1 .. Len(Webhooks) /\ Len(Webhooks) \in Nat
BY WebhooksAssumption DEF Hook

\* The invariant holds at the start.
LEMMA InitIInv == Init => IInv
<1> SUFFICES ASSUME Init PROVE IInv
  OBVIOUS
<1> USE DEF Init, NoEvents
<1>1. <<>> \in Seq(Event) /\ ToSet(<<>>) = {}
  BY DEF ToSet
<1>2. TypeOK
  BY <1>1, HookFacts DEF TypeOK, Labels
<1>3. MutexInv
  BY NoneAssumption DEF MutexInv, Running
<1>4. CountInv
  <2>1. Active = {}
    BY DEF Active, Running
  <2> QED
    BY <2>1, FS_EmptySet DEF CountInv
<1>5. EnqueuedInv /\ CoveredInv
  BY <1>1 DEF EnqueuedInv, CoveredInv
<1>6. EachEventOnceInOrder
  BY <1>1, ConcatEmptySeq DEF EachEventOnceInOrder, Pending, Served
<1> QED
  BY <1>2, <1>3, <1>4, <1>5, <1>6 DEF IInv

\* A new event goes to the end of the queue of its type, and no goroutine has
\* passed a webhook it is still meant for: the mutex is free.
LEMMA EnqueueEventStep ==
    ASSUME IInv, NEW e \in Event, EnqueueEvent(e)
    PROVE  IInv'
<1> DEFINE et == TypeOf[e]
<1> USE DEF IInv
<1>1. et \in Type
  BY TypeOfAssumption
<1>2. /\ mutex = None /\ e \notin Enqueued
      /\ events' = [events EXCEPT ![et] = Append(events[et], e)]
      /\ enqueued' = [enqueued EXCEPT ![et] = Append(enqueued[et], e)]
      /\ UNCHANGED <<mutex, wg, pc, hook, covered, posted>>
  BY DEF EnqueueEvent
<1>3. /\ events[et] \in Seq(Event) /\ enqueued[et] \in Seq(Event)
      /\ Append(events[et], e) \in Seq(Event) /\ Append(enqueued[et], e) \in Seq(Event)
      /\ ToSet(Append(events[et], e)) = ToSet(events[et]) \cup {e}
      /\ ToSet(Append(enqueued[et], e)) = ToSet(enqueued[et]) \cup {e}
  BY <1>1, AppendFacts, AppendProperties DEF TypeOK
<1>4. /\ events'[et] = Append(events[et], e) /\ enqueued'[et] = Append(enqueued[et], e)
      /\ \A t \in Type \ {et} : events'[t] = events[t] /\ enqueued'[t] = enqueued[t]
  BY <1>1, <1>2 DEF TypeOK
<1>5. TypeOK'
  BY <1>2, <1>3 DEF TypeOK
<1>6. MutexInv' /\ Active' = Active /\ CountInv'
  BY <1>2 DEF MutexInv, Active, CountInv
<1>7. EnqueuedInv'
  BY <1>3, <1>4 DEF EnqueuedInv
<1>8. CoveredInv'
  <2>1. covered' \subseteq Enqueued'
    BY <1>2, <1>3, <1>4 DEF CoveredInv, Enqueued
  <2>2. ASSUME NEW c \in covered, c \in ToSet(events'[TypeOf[c]]) PROVE Active' # {}
    <3>1. c \in Event /\ TypeOf[c] \in Type /\ c # e
      BY <1>2, TypeOfAssumption DEF CoveredInv, TypeOK
    <3>2. c \in ToSet(events[TypeOf[c]])
      <4>1. CASE TypeOf[c] = et
        BY <1>3, <1>4, <2>2, <3>1, <4>1
      <4>2. CASE TypeOf[c] # et
        BY <1>4, <2>2, <3>1, <4>2
      <4> QED
        BY <4>1, <4>2
    <3> QED
      BY <1>6, <3>2 DEF CoveredInv
  <2> QED
    BY <1>2, <2>1, <2>2 DEF CoveredInv
<1>9. EachEventOnceInOrder'
  <2>1. \A i \in Hook, t \in Type : Pending(i, t) = events[t] /\ Pending(i, t)' = events'[t]
    BY <1>2 DEF Pending, Served
  <2>2. ASSUME NEW i \in Hook, et \in Webhooks[i]
        PROVE  posted[i][et] \o events'[et] = enqueued'[et]
    <3>1. posted[i][et] \in Seq(Event)
      BY <1>1 DEF TypeOK
    <3>2. posted[i][et] \o events[et] = enqueued[et]
      BY <1>1, <2>1, <2>2 DEF EachEventOnceInOrder
    <3>3. posted[i][et] \o Append(events[et], e) = Append(posted[i][et] \o events[et], e)
      BY <1>3, <3>1, AppendFacts
    <3> QED
      BY <1>4, <3>2, <3>3
  <2> QED
    <3>1. ASSUME NEW i \in Hook, NEW t \in Type, t # et
          PROVE  events'[t] = events[t] /\ enqueued'[t] = enqueued[t] /\ posted'[i][t] = posted[i][t]
      BY <1>2, <1>4, <3>1
    <3>2. \A i \in Hook : posted'[i][et] = posted[i][et]
      BY <1>2
    <3>3. ASSUME NEW i \in Hook, NEW t \in Type
          PROVE  IF t \in Webhooks[i]
                 THEN posted'[i][t] \o events'[t] = enqueued'[t]
                 ELSE posted'[i][t] = <<>>
      <4>1. CASE t = et
        BY <2>2, <3>2, <4>1 DEF EachEventOnceInOrder
      <4>2. CASE t # et
        BY <2>1, <3>1, <4>2 DEF EachEventOnceInOrder
      <4> QED
        BY <4>1, <4>2
    <3> QED
      BY <2>1, <3>3 DEF EachEventOnceInOrder
<1> QED
  BY <1>5, <1>6, <1>7, <1>8, <1>9

\* A call of Flush covers what is enqueued, and leaves a goroutine to post it.
LEMMA FlushStep ==
    ASSUME IInv, NEW f \in Flusher, Flush(f)
    PROVE  IInv'
<1> USE DEF IInv
<1>1. /\ pc[f] = "unused" /\ pc' = [pc EXCEPT ![f] = "waiting"]
      /\ wg' = wg + 1 /\ covered' = Enqueued
      /\ UNCHANGED <<events, mutex, hook, enqueued, posted>>
  BY DEF Flush, Goto
<1>2. Active' = Active \cup {f} /\ f \notin Active
  BY <1>1 DEF Active, Running, TypeOK
<1>3. CountInv'
  BY <1>1, <1>2, FS_AddElement DEF CountInv
<1>4. TypeOK'
  <2>1. Enqueued \subseteq Event
    BY DEF TypeOK, Enqueued, ToSet
  <2> QED
    BY <1>1, <2>1 DEF TypeOK, Labels
<1>5. MutexInv'
  BY <1>1 DEF MutexInv, Running, TypeOK
<1>6. EnqueuedInv' /\ CoveredInv'
  BY <1>1, <1>2 DEF EnqueuedInv, CoveredInv, Enqueued
<1>7. EachEventOnceInOrder'
  BY <1>1 DEF EachEventOnceInOrder, Pending, Served
<1> QED
  BY <1>3, <1>4, <1>5, <1>6, <1>7

\* Taking the mutex begins the loop at the first webhook.
LEMMA LockStep ==
    ASSUME IInv, NEW f \in Flusher, Lock(f)
    PROVE  IInv'
<1> USE DEF IInv
<1>1. /\ pc[f] = "waiting" /\ mutex = None /\ mutex' = f
      /\ pc' = [pc EXCEPT ![f] = "loop"]
      /\ UNCHANGED <<events, wg, hook, enqueued, covered, posted>>
  BY DEF Lock, Goto
<1>2. Active' = Active
  BY <1>1 DEF Active, Running, TypeOK
<1>3. TypeOK'
  BY <1>1 DEF TypeOK, Labels
<1>4. MutexInv'
  BY <1>1, NoneAssumption DEF MutexInv, Running, TypeOK
<1>5. CountInv' /\ EnqueuedInv' /\ CoveredInv'
  BY <1>1, <1>2 DEF CountInv, EnqueuedInv, CoveredInv, Enqueued
<1>6. EachEventOnceInOrder'
  <2>1. hook[f] = 1
    BY <1>1 DEF MutexInv
  <2>2. \A i \in Hook : ~Served(i) /\ ~Served(i)'
    BY <1>1, <2>1, HookFacts DEF Served
  <2> QED
    BY <1>1, <2>2 DEF EachEventOnceInOrder, Pending
<1> QED
  BY <1>3, <1>4, <1>5, <1>6

\* Visiting a webhook, with or without a post, leaves it with all that is
\* queued for it.
LEMMA VisitStep ==
    ASSUME IInv, NEW f \in Flusher, Skip(f) \/ Post(f)
    PROVE  IInv'
<1> USE DEF IInv
<1> PICK h \in Hook : hook[f] = h
  BY DEF Skip, Post
<1>1. /\ pc[f] = "loop"
      /\ hook' = [hook EXCEPT ![f] = h + 1]
      /\ UNCHANGED <<events, mutex, wg, enqueued, covered>>
  BY DEF Skip, Post
<1>2. mutex = f
  BY <1>1 DEF MutexInv, Running
<1>3. /\ pc' \in [Flusher -> Labels] /\ pc'[f] \in Running
      /\ \A g \in Flusher \ {f} : pc'[g] = pc[g]
  BY <1>1 DEF Skip, Post, Goto, Running, TypeOK, Labels
<1>4. /\ posted' \in [Hook -> [Type -> Seq(Event)]]
      /\ \A t \in Webhooks[h] : t \in Type => posted'[h][t] = posted[h][t] \o events[t]
      /\ \A t \in Type \ Webhooks[h] : posted'[h][t] = posted[h][t]
      /\ \A i \in Hook \ {h} : posted'[i] = posted[i]
  <2>1. CASE Skip(f)
    <3>1. posted' = posted /\ Payload(h) = NoEvents
      BY <2>1 DEF Skip
    <3>2. \A t \in Webhooks[h] : t \in Type => events[t] = <<>>
      BY <3>1 DEF Payload, NoEvents
    <3>3. \A t \in Type : posted[h][t] \o <<>> = posted[h][t]
      BY <1>1, ConcatEmptySeq DEF TypeOK
    <3> QED
      BY <3>1, <3>2, <3>3 DEF TypeOK
  <2>2. CASE Post(f)
    <3>1. posted' = [posted EXCEPT ![h] = [t \in Type |-> posted[h][t] \o Payload(h)[t]]]
      BY <2>2 DEF Post
    <3>5. ASSUME NEW t \in Type
          PROVE  /\ posted[h][t] \o Payload(h)[t]
                      = IF t \in Webhooks[h] THEN posted[h][t] \o events[t] ELSE posted[h][t]
                 /\ posted[h][t] \o Payload(h)[t] \in Seq(Event)
      <4>1. posted[h][t] \in Seq(Event) /\ events[t] \in Seq(Event)
        BY DEF TypeOK
      <4>2. Payload(h)[t] = IF t \in Webhooks[h] THEN events[t] ELSE <<>>
        BY DEF Payload
      <4>3. /\ posted[h][t] \o events[t] \in Seq(Event)
            /\ posted[h][t] \o <<>> = posted[h][t]
        BY <4>1, ConcatEmptySeq, ConcatProperties
      <4> QED
        BY <4>1, <4>2, <4>3
    <3>2. \A t \in Type :
             posted[h][t] \o Payload(h)[t]
               = IF t \in Webhooks[h] THEN posted[h][t] \o events[t] ELSE posted[h][t]
      BY <3>5
    <3>3. \A t \in Type : posted[h][t] \o Payload(h)[t] \in Seq(Event)
      BY <3>5
    <3>4. posted' \in [Hook -> [Type -> Seq(Event)]]
      BY <1>1, <3>1, <3>3 DEF TypeOK
    <3> QED
      BY <1>1, <3>1, <3>2, <3>4 DEF TypeOK
  <2> QED
    BY <2>1, <2>2
<1>5. Active' = Active
  BY <1>1, <1>3 DEF Active, Running
<1>6. TypeOK'
  <2>1. h + 1 \in 1 .. Len(Webhooks) + 1
    BY <1>1, HookFacts
  <2> QED
    BY <1>1, <1>3, <1>4, <2>1 DEF TypeOK
<1>7. MutexInv'
  BY <1>1, <1>2, <1>3 DEF MutexInv, Running, TypeOK
<1>8. CountInv' /\ EnqueuedInv' /\ CoveredInv'
  BY <1>1, <1>5 DEF CountInv, EnqueuedInv, CoveredInv, Enqueued
<1>9. EachEventOnceInOrder'
  <2>1. mutex # None /\ hook'[mutex] = h + 1
    BY <1>1, <1>2, NoneAssumption DEF TypeOK
  <2>2. \A i \in Hook : /\ Served(i) <=> i < h
                        /\ Served(i)' <=> i < h \/ i = h
    BY <1>1, <1>2, <2>1, HookFacts DEF Served
  <2>3. \A i \in Hook \ {h}, t \in Type : Pending(i, t)' = Pending(i, t)
    BY <1>1, <2>2 DEF Pending
  <2>4. \A t \in Type : Pending(h, t)' = <<>> /\ Pending(h, t) = events[t]
    BY <1>1, <2>2, HookFacts DEF Pending
  <2>5. \A t \in Type : enqueued[t] \o <<>> = enqueued[t]
    BY ConcatEmptySeq DEF TypeOK
  <2>8. ASSUME NEW i \in Hook, NEW t \in Type
        PROVE  /\ t \in Webhooks[i] => posted[i][t] \o Pending(i, t) = enqueued[t]
               /\ t \notin Webhooks[i] => posted[i][t] = <<>>
    BY DEF EachEventOnceInOrder
  <2>6. ASSUME NEW t \in Type
        PROVE  IF t \in Webhooks[h]
               THEN posted'[h][t] \o Pending(h, t)' = enqueued'[t]
               ELSE posted'[h][t] = <<>>
    <3>1. CASE t \in Webhooks[h]
      <4>1. posted'[h][t] = enqueued[t]
        <5>1. posted[h][t] \o Pending(h, t) = enqueued[t]
          BY <2>8, <3>1
        <5>2. Pending(h, t) = events[t]
          BY <2>4
        <5>3. posted'[h][t] = posted[h][t] \o events[t]
          BY <1>4, <3>1
        <5> QED
          BY <5>1, <5>2, <5>3
      <4> QED
        BY <1>1, <2>4, <2>5, <3>1, <4>1
    <3>2. CASE t \notin Webhooks[h]
      BY <1>4, <2>8, <3>2
    <3> QED
      BY <3>1, <3>2
  <2>7. ASSUME NEW i \in Hook \ {h}, NEW t \in Type
        PROVE  IF t \in Webhooks[i]
               THEN posted'[i][t] \o Pending(i, t)' = enqueued'[t]
               ELSE posted'[i][t] = <<>>
    <3>1. Pending(i, t)' = Pending(i, t) /\ posted'[i] = posted[i] /\ enqueued' = enqueued
      BY <1>1, <1>4, <2>3
    <3> QED
      BY <2>8, <3>1
  <2> QED
    BY <2>6, <2>7 DEF EachEventOnceInOrder
<1> QED
  BY <1>6, <1>7, <1>8, <1>9

\* The answer of a subscriber keeps the invariant.
LEMMA AnswerStep ==
    ASSUME IInv, NEW f \in Flusher, Answer(f)
    PROVE  IInv'
<1> USE DEF IInv
<1>1. /\ pc[f] = "posting" /\ pc' = [pc EXCEPT ![f] = "loop"]
      /\ UNCHANGED <<events, mutex, wg, hook, enqueued, covered, posted>>
  BY DEF Answer, Goto
<1>2. Active' = Active
  BY <1>1 DEF Active, Running, TypeOK
<1>3. TypeOK' /\ MutexInv'
  BY <1>1 DEF TypeOK, Labels, MutexInv, Running
<1>4. CountInv' /\ EnqueuedInv' /\ CoveredInv'
  BY <1>1, <1>2 DEF CountInv, EnqueuedInv, CoveredInv, Enqueued
<1>5. EachEventOnceInOrder'
  BY <1>1 DEF EachEventOnceInOrder, Pending, Served
<1> QED
  BY <1>3, <1>4, <1>5

\* The queue is emptied when every webhook has been visited.
LEMMA ReturnStep ==
    ASSUME IInv, NEW f \in Flusher, Return(f)
    PROVE  IInv'
<1> USE DEF IInv
<1>1. /\ pc[f] = "loop" /\ hook[f] \notin Hook
      /\ events' = NoEvents /\ wg' = wg - 1 /\ mutex' = None
      /\ pc' = [pc EXCEPT ![f] = "returned"]
      /\ UNCHANGED <<hook, enqueued, covered, posted>>
  BY DEF Return, Goto
<1>2. mutex = f
  BY <1>1 DEF MutexInv, Running
<1>3. Active' = Active \ {f} /\ f \in Active
  BY <1>1 DEF Active, Running, TypeOK
<1>4. /\ IsFiniteSet(Active') /\ Cardinality(Active') = Cardinality(Active) - 1
      /\ Cardinality(Active') \in Nat
  BY <1>3, FS_RemoveElement, FS_CardinalityType DEF CountInv
<1>5. CountInv'
  BY <1>1, <1>4 DEF CountInv
<1>6. \A t \in Type : events'[t] = <<>> /\ ToSet(events'[t]) = {} /\ events'[t] \in Seq(Event)
  BY <1>1 DEF NoEvents, ToSet
<1>7. TypeOK'
  BY <1>1, <1>4, <1>5, <1>6 DEF TypeOK, Labels, CountInv, NoEvents
<1>8. MutexInv'
  BY <1>1, <1>2, NoneAssumption DEF MutexInv, Running, TypeOK
<1>11. EnqueuedInv'
  BY <1>1 DEF EnqueuedInv
<1>9. CoveredInv'
  <2>1. \A c \in covered : TypeOf[c] \in Type
    BY TypeOfAssumption DEF TypeOK
  <2> QED
    BY <1>1, <1>6, <2>1 DEF CoveredInv, Enqueued
<1>10. EachEventOnceInOrder'
  <2>1. hook[f] = Len(Webhooks) + 1
    BY <1>1, HookFacts DEF TypeOK
  <2>2. \A i \in Hook : Served(i) /\ ~Served(i)'
    BY <1>1, <1>2, <2>1, HookFacts, NoneAssumption DEF Served
  <2> QED
    BY <1>1, <1>6, <2>2 DEF EachEventOnceInOrder, Pending
<1> QED
  BY <1>5, <1>7, <1>8, <1>9, <1>10, <1>11

\* Every action keeps the invariant.
LEMMA Step == IInv /\ [Next]_vars => IInv'
<1> SUFFICES ASSUME IInv, [Next]_vars PROVE IInv'
  OBVIOUS
<1>1. CASE UNCHANGED vars
  BY <1>1 DEF vars, IInv, TypeOK, MutexInv, CountInv, Active, EnqueuedInv, CoveredInv, Enqueued,
      EachEventOnceInOrder, Pending, Served
<1> QED
  BY <1>1, EnqueueEventStep, FlushStep, LockStep, VisitStep, AnswerStep, ReturnStep
  DEF Next, FlusherStep

\* The invariant holds in every reachable state.
LEMMA Invariance == Spec => []IInv
BY InitIInv, Step, PTL DEF Spec

-----------------------------------------------------------------------------
(* The properties *)

\* Every variable keeps its type; the counter of the WaitGroup in particular
\* never drops below zero, which panics.
THEOREM TypeCorrect == Spec => []TypeOK
<1>1. IInv => TypeOK
  BY DEF IInv
<1> QED
  BY <1>1, Invariance, PTL

\* However many calls of EnqueueEvent and Flush overlap, a webhook is posted the
\* events of its types in the order they were enqueued, none twice, none
\* forgotten, and no others.
THEOREM EventsOnceInOrder == Spec => []EachEventOnceInOrder
<1>1. IInv => EachEventOnceInOrder
  BY DEF IInv
<1> QED
  BY <1>1, Invariance, PTL

\* When the WaitGroup is at zero, everything that was enqueued before a call of
\* Flush has been posted to every webhook that subscribes to it.
THEOREM WaitingCoversFlushes == Spec => []WaitCoversFlushes
<1>1. ASSUME IInv, wg = 0, NEW i \in Hook, NEW e \in covered, TypeOf[e] \in Webhooks[i]
      PROVE  e \in ToSet(posted[i][TypeOf[e]])
  <2> USE DEF IInv
  <2> DEFINE t == TypeOf[e]
  <2>1. Active = {}
    BY <1>1, FS_EmptySet DEF CountInv
  <2>2. ~Served(i)
    BY <1>1, <2>1 DEF Active, MutexInv, Served, TypeOK
  <2>3. /\ t \in Type /\ e \in ToSet(enqueued[t])
    BY <1>1, TypeOfAssumption DEF CoveredInv, Enqueued, EnqueuedInv, TypeOK
  <2>4. posted[i][t] \o events[t] = enqueued[t]
    BY <1>1, <2>2, <2>3 DEF EachEventOnceInOrder, Pending
  <2>5. posted[i][t] \in Seq(Event) /\ events[t] \in Seq(Event)
    BY <1>1, <2>3 DEF TypeOK
  <2>6. e \notin ToSet(events[t])
    BY <1>1, <2>1 DEF CoveredInv
  <2> QED
    BY <2>3, <2>4, <2>5, <2>6, ConcatToSet
<1>2. IInv => WaitCoversFlushes
  BY <1>1 DEF WaitCoversFlushes
<1> QED
  BY <1>2, Invariance, PTL
=============================================================================
