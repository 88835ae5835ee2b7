--------------------------- MODULE ReceivePackInv ---------------------------
(***************************************************************************)
(* What makes the properties of ReceivePack inductive: who may be serving  *)
(* a session at each point of its life.  TLC checks these formulas on the  *)
(* instances of MCReceivePack, ReceivePackProofs proves them.              *)
(***************************************************************************)
EXTENDS ReceivePack

\* A handler knows its session, which exists, from lookup to return; the loop
\* variables are keys of the session's update map; a result is there to store.
HandlersInv ==
    \A h \in Handler :
        /\ pc[h] = "idle" => ses[h] = None
        /\ pc[h] # "idle" => ses[h] \in Sid /\ state[ses[h]] \notin {"unused", "gone"}
        /\ pc[h] \in {"greetLoop", "saveLoop", "write"} =>
              todo[h] \subseteq DOMAIN updates[ses[h]]
        /\ IF pc[h] = "write" THEN cur[h] \in DOMAIN updates[ses[h]] ELSE cur[h] = None
        /\ pc[h] = "greetLoop" => state[ses[h]] = "greet"
        /\ pc[h] = "checkDone" => state[ses[h]] # "greet"
        /\ pc[h] \in {"setState", "checkDone"} => next[h] \in StateFns

\* Nobody but the request that created a session can reach it before greet has
\* answered: its uuid has not been sent to the client.
GreetAloneInv ==
    /\ \A s \in live : state[s] \notin {"unused", "gone"}
    /\ \A s \in cookies : state[s] \notin {"unused", "greet"}
    /\ \A h, k \in Handler :
          (pc[h] # "idle" /\ ses[k] = ses[h] /\ state[ses[h]] = "greet") => k = h

\* A session still to be greeted has done nothing yet.
Untouched(s) ==
    /\ failed[s] = {} /\ applied[s] = {} /\ flushed[s] = {} /\ acked[s] = {}
    /\ expected[s] = {} /\ s \notin rejected

FreshInv ==
    /\ \A s \in Sid : state[s] = "unused" => Untouched(s)
    /\ \A h \in Handler :
          /\ (pc[h] = "dispatch" /\ state[ses[h]] = "greet") => Untouched(ses[h])
          /\ pc[h] = "greetLoop" =>
                /\ applied[ses[h]] = {} /\ flushed[ses[h]] = {} /\ acked[ses[h]] = {}
                /\ expected[ses[h]] = {} /\ ses[h] \notin rejected

StructInv == TypeOK /\ HandlersInv /\ GreetAloneInv /\ FreshInv

\* In the window between its checks and its write saveRefs holds a commit that
\* the database has.
WindowInv ==
    \A h \in Handler :
        pc[h] = "write" => ~CommitMissing(ses[h], cur[h])

StoreInv == RefsPointToCommits /\ WindowInv

\* saveRefs only runs once the receiver waits for nothing.
ReceivedInv ==
    /\ NoRefBeforeAllObjects
    /\ \A h \in Handler : InSaveRefs(h) => expected[ses[h]] = {}

\* Every update the loop of saveRefs has left behind was written or has an
\* ErrMsg, until the status is reported.
LoopInv ==
    \A h \in Handler :
        (pc[h] \in {"saveLoop", "write", "report"} /\ ses[h] \notin rejected) =>
            /\ DOMAIN updates[ses[h]] \subseteq
                  todo[h] \cup {cur[h]} \cup applied[ses[h]] \cup failed[ses[h]]
            /\ pc[h] = "report" => todo[h] = {}

\* A session that greet rejected is on its way out, unknown to its client.
RejectedInv ==
    /\ rejected \cap cookies = {}
    /\ \A h \in Handler : ses[h] \in rejected =>
          \/ pc[h] = "report" /\ state[ses[h]] = "greet"
          \/ pc[h] = "setState" /\ next[h] = "nil" /\ state[ses[h]] = "greet"
          \/ pc[h] = "checkDone" /\ state[ses[h]] = "nil"

OutcomeInv ==
    /\ SavedPushReportsTruly
    /\ RejectedPushWritesNothing
    /\ LoopInv
    /\ RejectedInv

IInv ==
    /\ StructInv
    /\ GCPolicy # "anytime" => StoreInv
    /\ ReceivedInv
    /\ FinishedSessionsLeave
    /\ OutcomeInv
    /\ EveryChangeIsFlushed

-----------------------------------------------------------------------------
(* What holds on top when one request is served at a time and refs can be    *)
(* read *)

OneRequestAtATime == \A h, k \in Handler : h = k

\* The handler has run saveRefs for its session, or is running it.
Saving(h) ==
    \/ pc[h] \in {"saveLoop", "write", "report"}
    \/ pc[h] = "setState" /\ next[h] = "nil"
    \/ pc[h] = "checkDone" /\ state[ses[h]] = "nil"

\* A session is greeted once and saves its refs once, each update at most once;
\* between its checks and its write saveRefs is alone with the ref.
SerialInv ==
    /\ \A s \in Sid : state[s] = "unused" => updates[s] = NoUpdates
    /\ \A s \in live : applied[s] # {} => \E h \in Handler : ses[h] = s /\ Saving(h)
    /\ \A h \in Handler :
          /\ pc[h] = "dispatch" => applied[ses[h]] = {}
          /\ (pc[h] = "dispatch" /\ state[ses[h]] = "greet") => updates[ses[h]] = NoUpdates
          /\ pc[h] \in {"saveLoop", "write"} => todo[h] \cap applied[ses[h]] = {}
          /\ pc[h] = "write" =>
                /\ cur[h] \notin applied[ses[h]] \cup todo[h]
                /\ ~Outdated(ses[h], cur[h], refs[cur[h]])
                /\ updates[ses[h]][cur[h]].sum = None => ~DenyDeletes
                /\ ~NotFastForward(ses[h], cur[h], refs[cur[h]])
=============================================================================
