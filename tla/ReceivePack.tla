---------------------------- MODULE ReceivePack ----------------------------
(***************************************************************************)
(* The receive-pack endpoint of wrgld: push sessions, the session map and  *)
(* the loop that moves refs, with every request served by a goroutine of   *)
(* its own and no lock around the ref store or the objects database.       *)
(*                                                                         *)
(* Sources: pkg/server/receive_pack_session.go, receive_pack_handler.go,   *)
(* receive_pack_session_map.go.  The ref store, the objects database, the  *)
(* ObjectReceiver and Prune belong to github.com/wrgl/wrgl, which is not   *)
(* in this repository: they are modelled from how the handlers use them.   *)
(***************************************************************************)
EXTENDS FiniteSets, Functions

CONSTANTS
    Ref,                  \* names of refs
    Commit,               \* sums of commits that exist anywhere
    Ancestors,            \* Ancestors[c]: c and every commit reachable from c
    None,                 \* the nil sum: an absent ref, a deletion
    Sid,                  \* uuids of sessions
    Handler,              \* goroutines serving requests at the same time
    Pushes,               \* update maps a client may send to greet
    Packs,                \* sets of commits a client may send as one packfile
    InitRefs,             \* the refs when the server starts
    DenyDeletes,          \* conf.Receive.DenyDeletes
    DenyNonFastForwards,  \* conf.Receive.DenyNonFastForwards
    ReadErrors,           \* the ref store may fail to read a ref
    GCPolicy              \* when POST /gc may prune: see PruneAllowed

Sum == Commit \cup {None}
Update == [old: Sum, sum: Sum]
UpdateMap == UNION {[S -> Update] : S \in SUBSET Ref}
NoUpdates == [r \in {} |-> [old |-> None, sum |-> None]]

ASSUME AncestorsAssumption ==
    /\ Ancestors \in [Commit -> SUBSET Commit]
    /\ \A c \in Commit : c \in Ancestors[c]
    /\ \A c \in Commit : \A b \in Ancestors[c] : Ancestors[b] \subseteq Ancestors[c]
ASSUME NoneAssumption == None \notin Commit \cup Ref \cup Sid
ASSUME PushesAssumption == Pushes \subseteq UpdateMap
ASSUME PacksAssumption == Packs \subseteq SUBSET Commit
ASSUME InitRefsAssumption == InitRefs \in [Ref -> Sum]
ASSUME DenyAssumption == DenyDeletes \in BOOLEAN /\ DenyNonFastForwards \in BOOLEAN
ASSUME ReadErrorsAssumption == ReadErrors \in BOOLEAN
ASSUME GCPolicyAssumption == GCPolicy \in {"never", "betweenWrites", "anytime"}

VARIABLES
    refs,      \* the ref store
    commits,   \* the commits present in the objects database
    live,      \* keys of ReceivePackSessionMap
    cookies,   \* session ids a client has received in a Set-Cookie header
    state,     \* ReceivePackSession.state; "unused" before the session exists,
               \* "gone" when the process died while it was served
    updates,   \* ReceivePackSession.updates
    failed,    \* the updates of a session whose ErrMsg is not empty
    expected,  \* commits the session's ObjectReceiver still waits for
    applied,   \* updates written by the session, each with its webhook event enqueued
    flushed,   \* enqueued events that a later call of Sender.Flush covers
    acked,     \* updates a status report listed without ErrMsg
    rejected,  \* (history) sessions whose whole push greet found outdated
    pc,        \* where each handler is
    ses,       \* the session a handler serves
    todo,      \* keys the handler's current loop over s.updates has not visited
    cur,       \* the ref whose checks passed and which is about to be written
    next       \* what the state function returned

storeVars == <<refs, commits>>
sessionVars == <<live, cookies, state, updates, failed, expected, applied,
                 flushed, acked, rejected>>
handlerVars == <<pc, ses, todo, cur, next>>
vars == <<storeVars, sessionVars, handlerVars>>

States == {"unused", "greet", "negotiate", "receiveObjects", "nil", "gone"}
StateFns == {"negotiate", "receiveObjects", "nil"}
Labels == {"idle", "dispatch", "greetLoop", "saveLoop", "write", "report",
           "setState", "checkDone"}

TypeOK ==
    /\ refs \in [Ref -> Sum]
    /\ commits \subseteq Commit
    /\ live \subseteq Sid
    /\ cookies \subseteq Sid
    /\ state \in [Sid -> States]
    /\ updates \in [Sid -> UpdateMap]
    /\ failed \in [Sid -> SUBSET Ref]
    /\ expected \in [Sid -> SUBSET Commit]
    /\ applied \in [Sid -> SUBSET Ref]
    /\ flushed \in [Sid -> SUBSET Ref]
    /\ acked \in [Sid -> SUBSET Ref]
    /\ rejected \subseteq Sid
    /\ pc \in [Handler -> Labels]
    /\ ses \in [Handler -> Sid \cup {None}]
    /\ todo \in [Handler -> SUBSET Ref]
    /\ cur \in [Handler -> Ref \cup {None}]
    /\ next \in [Handler -> StateFns \cup {"none"}]

-----------------------------------------------------------------------------
(* Helpers *)

Reachable == UNION {Ancestors[refs[r]] : r \in {q \in Ref : refs[q] # None}}

\* What GetRef may return: both callers take an error for an absent ref.
Seen(r) == {refs[r]} \cup (IF ReadErrors THEN {None} ELSE {})

\* The test greet and saveRefs make on the value they read: with a nil OldSum
\* the ref must be absent, otherwise it must hold exactly OldSum.
Outdated(s, r, old) == old # updates[s][r].old

\* Mutant: nil sums of deletions are announced to the receiver.
NewCommitsWithNil(u) == {u[r].sum : r \in DOMAIN u}

\* The commits greet collects for the ObjectReceiver.
NewCommits(u) == {u[r].sum : r \in {q \in DOMAIN u : u[q].sum # None}}

\* ref.IsAncestorOf(db, oldSum, sum): it walks the parents that are in the
\* database and fails on one that is missing, unless it met oldSum before.
WalkFails(sum) == ~(Ancestors[sum] \subseteq commits)
IsFastForward(old, sum) == old \in Ancestors[sum]

ChecksFastForward(s, r, old) ==
    /\ DenyNonFastForwards
    /\ old # None
    /\ updates[s][r].sum # None

NotFastForward(s, r, old) ==
    ChecksFastForward(s, r, old) /\ ~IsFastForward(old, updates[s][r].sum)

\* Mutant: CommitExist is not asked, the receiver is trusted.
CommitNeverMissing(s, r) == FALSE

CommitMissing(s, r) ==
    updates[s][r].sum # None /\ updates[s][r].sum \notin commits

\* Mutant: saveRefs relies on the check greet made.
RefusedWithoutRecheck(s, r, old) ==
    \/ updates[s][r].sum = None /\ DenyDeletes
    \/ CommitMissing(s, r)
    \/ NotFastForward(s, r, old) /\ ~WalkFails(updates[s][r].sum)

\* The updates saveRefs skips with an ErrMsg.
Refused(s, r, old) ==
    \/ Outdated(s, r, old)
    \/ updates[s][r].sum = None /\ DenyDeletes
    \/ CommitMissing(s, r)
    \/ NotFastForward(s, r, old) /\ ~WalkFails(updates[s][r].sum)

\* The updates whose ancestry walk returns an error instead of an answer.
WalkError(s, r, old) ==
    /\ ~Outdated(s, r, old)
    /\ ~CommitMissing(s, r)
    /\ ChecksFastForward(s, r, old)
    /\ WalkFails(updates[s][r].sum)

\* The operator decides when garbage is collected; the code takes no lock, so
\* "anytime" is what it allows.  "betweenWrites" keeps Prune out of the window
\* between the checks of saveRefs and its write.
PruneAllowed ==
    \/ GCPolicy = "anytime"
    \/ GCPolicy = "betweenWrites" /\ \A h \in Handler : pc[h] # "write"

Goto(h, label) == pc' = [pc EXCEPT ![h] = label]

\* A state function ends with this result; ServeHTTP has not stored it yet.
Return(h, fn) ==
    /\ next' = [next EXCEPT ![h] = fn]
    /\ Goto(h, "setState")

\* The handler returns and its variables are gone.
EndRequest(h) ==
    /\ Goto(h, "idle")
    /\ ses' = [ses EXCEPT ![h] = None]
    /\ todo' = [todo EXCEPT ![h] = {}]
    /\ cur' = [cur EXCEPT ![h] = None]
    /\ next' = [next EXCEPT ![h] = "none"]

\* A panic inside ServeHTTP: handleReceivePack deletes the session and the
\* recovery middleware answers 500.  s.state keeps its value.
Panic(h) ==
    /\ live' = live \ {ses[h]}
    /\ EndRequest(h)

\* saveRefs defers Sender.Flush, so that it runs on the error returns too.
Flush(s) == flushed' = [flushed EXCEPT ![s] = applied[s]]

-----------------------------------------------------------------------------
(* Serving a request: the session map *)

Init ==
    /\ refs = InitRefs
    /\ commits = Reachable
    /\ live = {}
    /\ cookies = {}
    /\ state = [s \in Sid |-> "unused"]
    /\ updates = [s \in Sid |-> NoUpdates]
    /\ failed = [s \in Sid |-> {}]
    /\ expected = [s \in Sid |-> {}]
    /\ applied = [s \in Sid |-> {}]
    /\ flushed = [s \in Sid |-> {}]
    /\ acked = [s \in Sid |-> {}]
    /\ rejected = {}
    /\ pc = [h \in Handler |-> "idle"]
    /\ ses = [h \in Handler |-> None]
    /\ todo = [h \in Handler |-> {}]
    /\ cur = [h \in Handler |-> None]
    /\ next = [h \in Handler |-> "none"]

\* getReceivePackSession, the cookie names a session of the map.
Resume(h) ==
    /\ pc[h] = "idle"
    /\ \E s \in cookies \cap live : ses' = [ses EXCEPT ![h] = s]
    /\ Goto(h, "dispatch")
    /\ UNCHANGED <<storeVars, sessionVars, todo, cur, next>>

\* getReceivePackSession, no cookie or one whose session is gone: a new
\* session under a fresh uuid, whatever the request carries.
NewSession(h) ==
    /\ pc[h] = "idle"
    /\ \E s \in {t \in Sid : state[t] = "unused"} :
          /\ ses' = [ses EXCEPT ![h] = s]
          /\ live' = live \cup {s}
          /\ state' = [state EXCEPT ![s] = "greet"]
    /\ Goto(h, "dispatch")
    /\ UNCHANGED <<storeVars, cookies, updates, failed, expected, applied,
                   flushed, acked, rejected, todo, cur, next>>

\* The TTL map drops a session, in use or not.
Expire(s) ==
    /\ s \in live
    /\ live' = live \ {s}
    /\ UNCHANGED <<storeVars, cookies, state, updates, failed, expected, applied,
                   flushed, acked, rejected, handlerVars>>

\* s.state = s.state(rw, r): the assignment.
SetState(h) ==
    /\ pc[h] = "setState"
    /\ state' = [state EXCEPT ![ses[h]] = next[h]]
    /\ Goto(h, "checkDone")
    /\ UNCHANGED <<storeVars, live, cookies, updates, failed, expected, applied,
                   flushed, acked, rejected, ses, todo, cur, next>>

\* Mutant: a finished session is not deleted.
CheckDoneKeeps(h) ==
    /\ pc[h] = "checkDone"
    /\ IF state[ses[h]] = "nil"
       THEN UNCHANGED <<live, cookies>>
       ELSE cookies' = cookies \cup {ses[h]} /\ UNCHANGED live
    /\ EndRequest(h)
    /\ UNCHANGED <<storeVars, state, updates, failed, expected, applied,
                   flushed, acked, rejected>>

\* return s.state == nil reads the field again, then handleReceivePack deletes
\* a finished session.  The response completes here: a client of a session
\* that goes on now has its cookie.
CheckDone(h) ==
    /\ pc[h] = "checkDone"
    /\ IF state[ses[h]] = "nil"
       THEN live' = live \ {ses[h]} /\ UNCHANGED cookies
       ELSE cookies' = cookies \cup {ses[h]} /\ UNCHANGED live
    /\ EndRequest(h)
    /\ UNCHANGED <<storeVars, state, updates, failed, expected, applied,
                   flushed, acked, rejected>>

\* The session was finished by another request after this one had looked it
\* up: calling the nil state function panics.
NilState(h) ==
    /\ pc[h] = "dispatch"
    /\ state[ses[h]] = "nil"
    /\ Panic(h)
    /\ UNCHANGED <<storeVars, cookies, state, updates, failed, expected, applied,
                   flushed, acked, rejected>>

\* The 400 answers of every state function, and its silent returns on a body
\* that does not parse: the session ends.
BadRequest(h) ==
    /\ pc[h] = "dispatch"
    /\ state[ses[h]] # "nil"
    /\ Return(h, "nil")
    /\ UNCHANGED <<storeVars, sessionVars, ses, todo, cur>>

\* Writing the answer fails, the client is gone: a panic after the work was
\* done.  The empty answer to a packfile that is not the last has no body.
ResponseError(h) ==
    /\ pc[h] = "setState"
    /\ next[h] # "receiveObjects"
    /\ Panic(h)
    /\ UNCHANGED <<storeVars, cookies, state, updates, failed, expected, applied,
                   flushed, acked, rejected>>

-----------------------------------------------------------------------------
(* greet *)

\* The request parses; the loop over the updates begins.
Greet(h) ==
    /\ pc[h] = "dispatch"
    /\ state[ses[h]] = "greet"
    /\ \E u \in Pushes :
          /\ updates' = [updates EXCEPT ![ses[h]] = u]
          /\ todo' = [todo EXCEPT ![h] = DOMAIN u]
    /\ Goto(h, "greetLoop")
    /\ UNCHANGED <<storeVars, live, cookies, state, failed, expected, applied,
                   flushed, acked, rejected, ses, cur, next>>

GreetCheck(h) ==
    /\ pc[h] = "greetLoop"
    /\ \E r \in todo[h] : \E old \in Seen(r) :
          /\ todo' = [todo EXCEPT ![h] = @ \ {r}]
          /\ failed' = IF Outdated(ses[h], r, old)
                       THEN [failed EXCEPT ![ses[h]] = @ \cup {r}]
                       ELSE failed
    /\ UNCHANGED <<storeVars, live, cookies, state, updates, expected, applied,
                   flushed, acked, rejected, pc, ses, cur, next>>

\* Mutant: the early return is missing, the current updates are saved.
GreetOutdatedGoesOn(h) ==
    /\ pc[h] = "greetLoop"
    /\ todo[h] = {}
    /\ failed[ses[h]] # {}
    /\ rejected' = rejected \cup {ses[h]}
    /\ todo' = [todo EXCEPT ![h] = DOMAIN updates[ses[h]]]
    /\ Goto(h, "saveLoop")
    /\ UNCHANGED <<storeVars, live, cookies, state, updates, failed, expected,
                   applied, flushed, acked, ses, cur, next>>

\* One outdated update sends the whole push back without writing anything.
GreetOutdated(h) ==
    /\ pc[h] = "greetLoop"
    /\ todo[h] = {}
    /\ failed[ses[h]] # {}
    /\ rejected' = rejected \cup {ses[h]}
    /\ Goto(h, "report")
    /\ UNCHANGED <<storeVars, live, cookies, state, updates, failed, expected,
                   applied, flushed, acked, ses, todo, cur, next>>

\* Commits are announced: make a receiver and answer with the table ACKs.
GreetNegotiate(h) ==
    /\ pc[h] = "greetLoop"
    /\ todo[h] = {}
    /\ failed[ses[h]] = {}
    /\ NewCommits(updates[ses[h]]) # {}
    /\ expected' = [expected EXCEPT ![ses[h]] = NewCommits(updates[ses[h]])]
    /\ Return(h, "negotiate")
    /\ UNCHANGED <<storeVars, live, cookies, state, updates, failed, applied,
                   flushed, acked, rejected, ses, todo, cur>>

\* Only deletions: nothing to receive, the refs are saved at once.
GreetSave(h) ==
    /\ pc[h] = "greetLoop"
    /\ todo[h] = {}
    /\ failed[ses[h]] = {}
    /\ NewCommits(updates[ses[h]]) = {}
    /\ todo' = [todo EXCEPT ![h] = DOMAIN updates[ses[h]]]
    /\ Goto(h, "saveLoop")
    /\ UNCHANGED <<storeVars, sessionVars, ses, cur, next>>

-----------------------------------------------------------------------------
(* negotiate and receiveObjects *)

\* More table haves: answered with more ACKs, no state changes.
NegotiateTables(h) ==
    /\ pc[h] = "dispatch"
    /\ state[ses[h]] = "negotiate"
    /\ Return(h, "negotiate")
    /\ UNCHANGED <<storeVars, sessionVars, ses, todo, cur>>

\* done of ObjectReceiver.Receive: every commit greet announced has come.
ReceiverDone(s, pack) == expected[s] \subseteq pack

\* Mutant: done is not looked at, every packfile is taken for the last.
ReceiveSomeSaves(h) ==
    /\ pc[h] = "dispatch"
    /\ state[ses[h]] \in {"negotiate", "receiveObjects"}
    /\ \E pack \in Packs :
          /\ ~ReceiverDone(ses[h], pack)
          /\ commits' = commits \cup pack
          /\ expected' = [expected EXCEPT ![ses[h]] = @ \ pack]
    /\ todo' = [todo EXCEPT ![h] = DOMAIN updates[ses[h]]]
    /\ Goto(h, "saveLoop")
    /\ UNCHANGED <<refs, live, cookies, state, updates, failed, applied,
                   flushed, acked, rejected, ses, cur, next>>

\* A packfile in either state, and the receiver waits for more commits.
ReceiveSome(h) ==
    /\ pc[h] = "dispatch"
    /\ state[ses[h]] \in {"negotiate", "receiveObjects"}
    /\ \E pack \in Packs :
          /\ ~ReceiverDone(ses[h], pack)
          /\ commits' = commits \cup pack
          /\ expected' = [expected EXCEPT ![ses[h]] = @ \ pack]
    /\ Return(h, "receiveObjects")
    /\ UNCHANGED <<refs, live, cookies, state, updates, failed, applied,
                   flushed, acked, rejected, ses, todo, cur>>

\* The packfile that completes the push: its refs are saved.
ReceiveLast(h) ==
    /\ pc[h] = "dispatch"
    /\ state[ses[h]] \in {"negotiate", "receiveObjects"}
    /\ \E pack \in Packs :
          /\ ReceiverDone(ses[h], pack)
          /\ commits' = commits \cup pack
          /\ expected' = [expected EXCEPT ![ses[h]] = @ \ pack]
    /\ todo' = [todo EXCEPT ![h] = DOMAIN updates[ses[h]]]
    /\ Goto(h, "saveLoop")
    /\ UNCHANGED <<refs, live, cookies, state, updates, failed, applied,
                   flushed, acked, rejected, ses, cur, next>>

\* Reading the packfile or saving an object fails after a part of it was saved.
ReceiveError(h) ==
    /\ pc[h] = "dispatch"
    /\ state[ses[h]] \in {"negotiate", "receiveObjects"}
    /\ \E pack \in Packs : \E part \in SUBSET pack :
          /\ commits' = commits \cup part
          /\ expected' = [expected EXCEPT ![ses[h]] = @ \ part]
    /\ Panic(h)
    /\ UNCHANGED <<refs, cookies, state, updates, failed, applied,
                   flushed, acked, rejected>>

-----------------------------------------------------------------------------
(* saveRefs: one iteration reads the ref, checks, and only then writes *)

\* Mutant: continue without setting ErrMsg.
SaveSkipped(h) ==
    /\ pc[h] = "saveLoop"
    /\ \E r \in todo[h] : \E old \in Seen(r) :
          /\ Refused(ses[h], r, old)
          /\ todo' = [todo EXCEPT ![h] = @ \ {r}]
    /\ UNCHANGED <<storeVars, sessionVars, pc, ses, cur, next>>

SaveRefused(h) ==
    /\ pc[h] = "saveLoop"
    /\ \E r \in todo[h] : \E old \in Seen(r) :
          /\ Refused(ses[h], r, old)
          /\ failed' = [failed EXCEPT ![ses[h]] = @ \cup {r}]
          /\ todo' = [todo EXCEPT ![h] = @ \ {r}]
    /\ UNCHANGED <<storeVars, live, cookies, state, updates, expected, applied,
                   flushed, acked, rejected, pc, ses, cur, next>>

SaveChecked(h) ==
    /\ pc[h] = "saveLoop"
    /\ \E r \in todo[h] : \E old \in Seen(r) :
          /\ ~Refused(ses[h], r, old)
          /\ ~NotFastForward(ses[h], r, old)
          /\ cur' = [cur EXCEPT ![h] = r]
          /\ todo' = [todo EXCEPT ![h] = @ \ {r}]
    /\ Goto(h, "write")
    /\ UNCHANGED <<storeVars, sessionVars, ses, next>>

SaveWalkError(h) ==
    /\ pc[h] = "saveLoop"
    /\ \E r \in todo[h] : \E old \in Seen(r) : WalkError(ses[h], r, old)
    /\ Flush(ses[h])
    /\ Panic(h)
    /\ UNCHANGED <<storeVars, cookies, state, updates, failed, expected, applied,
                   acked, rejected>>

\* ref.SaveRef or ref.DeleteRef, whatever the ref holds by now, then
\* EnqueueEvent.
SaveRef(h) ==
    /\ pc[h] = "write"
    /\ refs' = [refs EXCEPT ![cur[h]] = updates[ses[h]][cur[h]].sum]
    /\ applied' = [applied EXCEPT ![ses[h]] = @ \cup {cur[h]}]
    /\ cur' = [cur EXCEPT ![h] = None]
    /\ Goto(h, "saveLoop")
    /\ UNCHANGED <<commits, live, cookies, state, updates, failed, expected,
                   flushed, acked, rejected, ses, todo, next>>

\* Mutant: Flush is called at the end of saveRefs instead of being deferred.
SaveRefErrorNoFlush(h) ==
    /\ pc[h] = "write"
    /\ Panic(h)
    /\ UNCHANGED <<storeVars, cookies, state, updates, failed, expected, applied,
                   flushed, acked, rejected>>

\* The store returns an error: the refs written so far stay, the rest is
\* abandoned.
SaveRefError(h) ==
    /\ pc[h] = "write"
    /\ Flush(ses[h])
    /\ Panic(h)
    /\ UNCHANGED <<storeVars, cookies, state, updates, failed, expected, applied,
                   acked, rejected>>

SaveDone(h) ==
    /\ pc[h] = "saveLoop"
    /\ todo[h] = {}
    /\ Flush(ses[h])
    /\ Goto(h, "report")
    /\ UNCHANGED <<storeVars, live, cookies, state, updates, failed, expected,
                   applied, acked, rejected, ses, todo, cur, next>>

\* reportStatus marshals s.updates as they are now.
ReportStatus(h) ==
    /\ pc[h] = "report"
    /\ acked' = [acked EXCEPT ![ses[h]] =
                    @ \cup (DOMAIN updates[ses[h]] \ failed[ses[h]])]
    /\ Return(h, "nil")
    /\ UNCHANGED <<storeVars, live, cookies, state, updates, failed, expected,
                   applied, flushed, rejected, ses, todo, cur>>

-----------------------------------------------------------------------------
(* External: POST /gc, prune.Prune as one step *)

Prune ==
    /\ PruneAllowed
    /\ commits' = commits \cap Reachable
    /\ UNCHANGED <<refs, sessionVars, handlerVars>>

-----------------------------------------------------------------------------
(* The process dies and is started again *)

\* The stores persist, and clients keep their cookies; sessions and goroutines
\* are lost, with the events still queued.
Crash ==
    /\ live' = {}
    /\ state' = [s \in Sid |-> IF \E h \in Handler : ses[h] = s
                               THEN "gone" ELSE state[s]]
    /\ pc' = [h \in Handler |-> "idle"]
    /\ ses' = [h \in Handler |-> None]
    /\ todo' = [h \in Handler |-> {}]
    /\ cur' = [h \in Handler |-> None]
    /\ next' = [h \in Handler |-> "none"]
    /\ UNCHANGED <<storeVars, cookies, updates, failed, expected, applied,
                   flushed, acked, rejected>>

HandlerStep(h) ==
    \/ Resume(h) \/ NewSession(h) \/ NilState(h) \/ BadRequest(h)
    \/ ResponseError(h)
    \/ Greet(h) \/ GreetCheck(h) \/ GreetOutdated(h) \/ GreetNegotiate(h) \/ GreetSave(h)
    \/ NegotiateTables(h) \/ ReceiveSome(h) \/ ReceiveLast(h) \/ ReceiveError(h)
    \/ SaveRefused(h) \/ SaveChecked(h) \/ SaveWalkError(h)
    \/ SaveRef(h) \/ SaveRefError(h) \/ SaveDone(h) \/ ReportStatus(h)
    \/ SetState(h) \/ CheckDone(h)

Next ==
    \/ \E h \in Handler : HandlerStep(h)
    \/ \E s \in Sid : Expire(s)
    \/ Prune
    \/ Crash

Spec == Init /\ [][Next]_vars

-----------------------------------------------------------------------------
(* Properties *)

InSaveRefs(h) == pc[h] \in {"saveLoop", "write"}

\* A ref always names a commit of the database, even though packs arrive in
\* pieces, several pushes save refs at once and Prune removes what no ref
\* reaches: CommitExist is asked again after the last object has come.
\* (saveRefs, receive_pack_session.go:118-123)
RefsPointToCommits == \A r \in Ref : refs[r] # None => refs[r] \in commits

\* No ref of a push moves before every commit the push announced was received,
\* whichever of the session's requests carried it.  (receiveObjects)
NoRefBeforeAllObjects == \A s \in Sid : applied[s] # {} => expected[s] = {}

\* A finished session leaves the map: one whose state is nil is there only
\* while some handler is still about to delete it, even when several requests
\* of one session store s.state in any order.  (handleReceivePack, ServeHTTP)
FinishedSessionsLeave ==
    \A s \in live : state[s] = "nil" =>
        \E h \in Handler : ses[h] = s /\ pc[h] = "checkDone"

\* Past greet, an update reported without ErrMsg was written by this session,
\* whatever other requests of the session did to the shared updates.
\* (saveRefs, reportStatus)
SavedPushReportsTruly == \A s \in Sid \ rejected : acked[s] \subseteq applied[s]

\* A push found outdated by greet moves no ref at all, not even the ones of
\* its updates that were current.  (greet, receive_pack_session.go:195-197)
RejectedPushWritesNothing == \A s \in rejected : applied[s] = {}

\* Every ref change of a session is handed to a Flush: when no handler of the
\* session is in saveRefs any more, no event is left in the queue, on the
\* error paths too; only the end of the process loses events.
\* (saveRefs, receive_pack_session.go:88-90)
EveryChangeIsFlushed ==
    \A s \in Sid :
        (state[s] # "gone" /\ \A h \in Handler : ses[h] = s => ~InSaveRefs(h)) =>
            flushed[s] = applied[s]

\* A push replaces a ref only if it still holds the value the push expects.
NoLostUpdate ==
    [][\A s \in Sid : \A r \in applied'[s] \ applied[s] : ~Outdated(s, r, refs[r])]_vars

-----------------------------------------------------------------------------
(* The promise of a push: see AtomicPush.  It is kept when requests are      *)
(* served one at a time and refs can be read, however the requests of        *)
(* several sessions interleave and wherever the process dies in between.     *)

Promise == INSTANCE AtomicPush
           WITH refs <- refs, updates <- updates, applied <- applied
ImplementsAtomicPush == Promise!Spec
=============================================================================
