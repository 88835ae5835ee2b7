--------------------------- MODULE WebhookSender ---------------------------
(***************************************************************************)
(* A webhook.Sender: handlers enqueue events, and every call of Flush      *)
(* starts a goroutine that posts what is queued to each webhook and empties *)
(* the queue, all under the mutex.  Several goroutines may be waiting for   *)
(* the mutex, and a subscriber may take its time, or never answer.  What is *)
(* queued and what is posted are kept by event type: the order of two types *)
(* within a payload is not modelled.                                       *)
(*                                                                         *)
(* Source: pkg/webhook/sender.go, payloads.go.                             *)
(***************************************************************************)
EXTENDS Naturals, SequencesExt

CONSTANTS
    Event,       \* the events handlers may enqueue, each at most once
    Type,        \* conf.WebhookEventType
    TypeOf,      \* the type SetType gives an event
    Webhooks,    \* for each configured webhook its EventTypes, none listed twice
    Flusher,     \* goroutines started by calls of Flush
    None         \* nobody holds the mutex

ASSUME TypeOfAssumption == TypeOf \in [Event -> Type]
ASSUME WebhooksAssumption == Webhooks \in Seq(SUBSET Type)
ASSUME NoneAssumption == None \notin Flusher

Hook == DOMAIN Webhooks

VARIABLES
    events,    \* Sender.events
    mutex,     \* who holds Sender.mutex
    wg,        \* the counter of Sender.wg
    pc,        \* where each goroutine of Flush is
    hook,      \* the webhook its loop visits next
    enqueued,  \* (history) events of each type in the order they were enqueued
    covered,   \* (history) events enqueued before some call of Flush
    posted     \* (history) events of each type posted to each webhook, answered or not

vars == <<events, mutex, wg, pc, hook, enqueued, covered, posted>>

Labels == {"unused", "waiting", "loop", "posting", "returned"}

TypeOK ==
    /\ events \in [Type -> Seq(Event)]
    /\ mutex \in Flusher \cup {None}
    /\ wg \in Nat
    /\ pc \in [Flusher -> Labels]
    /\ hook \in [Flusher -> 1 .. Len(Webhooks) + 1]
    /\ enqueued \in [Type -> Seq(Event)]
    /\ covered \subseteq Event
    /\ posted \in [Hook -> [Type -> Seq(Event)]]

Goto(f, label) == pc' = [pc EXCEPT ![f] = label]

NoEvents == [t \in Type |-> <<>>]
Enqueued == UNION {ToSet(enqueued[t]) : t \in Type}

\* pl.Events of a webhook: what is queued of its event types.
Payload(i) == [t \in Type |-> IF t \in Webhooks[i] THEN events[t] ELSE <<>>]

Init ==
    /\ events = NoEvents
    /\ mutex = None
    /\ wg = 0
    /\ pc = [f \in Flusher |-> "unused"]
    /\ hook = [f \in Flusher |-> 1]
    /\ enqueued = NoEvents
    /\ covered = {}
    /\ posted = [i \in Hook |-> NoEvents]

\* EnqueueEvent holds the mutex for the whole of its body.
EnqueueEvent(e) ==
    /\ mutex = None
    /\ e \notin Enqueued
    /\ events' = [events EXCEPT ![TypeOf[e]] = Append(@, e)]
    /\ enqueued' = [enqueued EXCEPT ![TypeOf[e]] = Append(@, e)]
    /\ UNCHANGED <<mutex, wg, pc, hook, covered, posted>>

\* Mutant: the WaitGroup is left alone.
FlushWithoutAdd(f) ==
    /\ pc[f] = "unused"
    /\ covered' = Enqueued
    /\ Goto(f, "waiting")
    /\ UNCHANGED <<events, mutex, wg, hook, enqueued, posted>>

\* Flush counts the goroutine before it starts it, and returns.
Flush(f) ==
    /\ pc[f] = "unused"
    /\ wg' = wg + 1
    /\ covered' = Enqueued
    /\ Goto(f, "waiting")
    /\ UNCHANGED <<events, mutex, hook, enqueued, posted>>

Lock(f) ==
    /\ pc[f] = "waiting"
    /\ mutex = None
    /\ mutex' = f
    /\ Goto(f, "loop")
    /\ UNCHANGED <<events, wg, hook, enqueued, covered, posted>>

\* Mutant: return where the code has continue.
SkipReturns(f) ==
    /\ pc[f] = "loop"
    /\ hook[f] \in Hook
    /\ Payload(hook[f]) = NoEvents
    /\ wg' = wg - 1
    /\ mutex' = None
    /\ Goto(f, "returned")
    /\ UNCHANGED <<events, hook, enqueued, covered, posted>>

\* Nothing is queued that the webhook subscribes to.
Skip(f) ==
    /\ pc[f] = "loop"
    /\ hook[f] \in Hook
    /\ Payload(hook[f]) = NoEvents
    /\ hook' = [hook EXCEPT ![f] = @ + 1]
    /\ UNCHANGED <<events, mutex, wg, pc, enqueued, covered, posted>>

\* The request leaves for the webhook's URL.
Post(f) ==
    /\ pc[f] = "loop"
    /\ hook[f] \in Hook
    /\ Payload(hook[f]) # NoEvents
    /\ posted' = [posted EXCEPT ![hook[f]] = [t \in Type |-> @[t] \o Payload(hook[f])[t]]]
    /\ hook' = [hook EXCEPT ![f] = @ + 1]
    /\ Goto(f, "posting")
    /\ UNCHANGED <<events, mutex, wg, enqueued, covered>>

\* Mutant: a failed delivery ends the goroutine without unlocking.
AnswerHangs(f) ==
    /\ pc[f] = "posting"
    /\ Goto(f, "returned")
    /\ UNCHANGED <<events, mutex, wg, hook, enqueued, covered, posted>>

\* A response of any status, or an error: both are logged and no more.
Answer(f) ==
    /\ pc[f] = "posting"
    /\ Goto(f, "loop")
    /\ UNCHANGED <<events, mutex, wg, hook, enqueued, covered, posted>>

\* Mutant: the queue keeps what was sent.
ReturnKeepsEvents(f) ==
    /\ pc[f] = "loop"
    /\ hook[f] \notin Hook
    /\ wg' = wg - 1
    /\ mutex' = None
    /\ Goto(f, "returned")
    /\ UNCHANGED <<events, hook, enqueued, covered, posted>>

\* The loop is over: the queue is emptied, then wg.Done and Unlock run.
Return(f) ==
    /\ pc[f] = "loop"
    /\ hook[f] \notin Hook
    /\ events' = NoEvents
    /\ wg' = wg - 1
    /\ mutex' = None
    /\ Goto(f, "returned")
    /\ UNCHANGED <<hook, enqueued, covered, posted>>

FlusherStep(f) == Lock(f) \/ Skip(f) \/ Post(f) \/ Return(f)

Next ==
    \/ \E e \in Event : EnqueueEvent(e)
    \/ \E f \in Flusher : Flush(f) \/ FlusherStep(f) \/ Answer(f)

Spec == Init /\ [][Next]_vars

\* The scheduler runs every goroutine, a mutex lets every waiter through in
\* the end, and every subscriber answers or its connection breaks.
FairSpec ==
    /\ Spec
    /\ \A f \in Flusher : SF_vars(Lock(f)) /\ WF_vars(FlusherStep(f)) /\ WF_vars(Answer(f))

-----------------------------------------------------------------------------
(* Properties *)

\* The goroutine that holds the mutex is past this webhook, so that the queue
\* is no longer meant for it.
Served(i) == mutex # None /\ i < hook[mutex]
Pending(i, t) == IF Served(i) THEN <<>> ELSE events[t]

\* A webhook gets every event of its types once and in the order they were
\* enqueued, and no other, however many calls of Flush and EnqueueEvent
\* overlap: what was posted and what is still to be posted to it make up all
\* that was enqueued.  (Flush, the loop and the assignment of s.events)
EachEventOnceInOrder ==
    \A i \in Hook : \A t \in Type :
        IF t \in Webhooks[i]
        THEN posted[i][t] \o Pending(i, t) = enqueued[t]
        ELSE posted[i][t] = <<>>

\* wg.Wait returns when every event enqueued before a call of Flush has been
\* posted, which is what the tests of the server wait for.  (Flush: wg.Add is
\* called before the goroutine starts)
WaitCoversFlushes ==
    wg = 0 => \A i \in Hook : \A e \in covered :
                  TypeOf[e] \in Webhooks[i] => e \in ToSet(posted[i][TypeOf[e]])

\* An event that was flushed is posted, although other goroutines hold the
\* mutex and deliveries fail.
FlushedIsPosted ==
    \A e \in Event : \A i \in Hook :
        (e \in covered /\ TypeOf[e] \in Webhooks[i]) ~> (e \in ToSet(posted[i][TypeOf[e]]))
=============================================================================
