------------------------------- MODULE Server -------------------------------
(***************************************************************************)
(* The process: it opens the stores, makes the session maps, serves         *)
(* requests, and takes everything down again when the listener fails.  The  *)
(* map of receive-pack sessions is the TTLMap below; of the map of          *)
(* upload-pack sessions only Stop matters here, and it is a TTLMap too.     *)
(*                                                                         *)
(* Sources: cmd/root.go (RunE), cmd/server.go (NewServer, Close).  No       *)
(* signal is handled: a killed process runs none of this.                   *)
(***************************************************************************)
EXTENDS TTLMap

CONSTANT Request  \* connections that may carry requests

VARIABLES
    main,      \* where the main goroutine is
    requests,  \* the requests being handled
    up,        \* upSessions: "running", "stopping", "stopped"
    open       \* the stores that are open

processVars == <<main, requests, up, open>>
serverVars == <<vars, processVars>>

ServerTypeOK ==
    /\ TypeOK
    /\ main \in {"starting", "serving", "shutdown", "stopUp", "stopRp", "closing",
                 "deferred", "ended"}
    /\ requests \subseteq Request
    /\ up \in {"running", "stopping", "stopped"}
    /\ open \subseteq {"repo", "objects"}

\* NewServer has opened the stores and made both maps.
ServerInit ==
    /\ Init
    /\ main = "starting" /\ requests = {} /\ up = "running"
    /\ open = {"repo", "objects"}

Goto(label) == main' = label

-----------------------------------------------------------------------------
(* The main goroutine *)

\* Keycloak, the base URL or the resource: NewServer returns an error, and only
\* the deferred rd.Close of RunE is left.
StartError ==
    /\ main = "starting"
    /\ Goto("deferred")
    /\ UNCHANGED <<vars, requests, up, open>>

Serve ==
    /\ main = "starting"
    /\ Goto("serving")
    /\ UNCHANGED <<vars, requests, up, open>>

\* ListenAndServe returns, which it only does with an error of the listener;
\* the deferred calls run: Shutdown, Close, rd.Close.
ListenError ==
    /\ main = "serving"
    /\ Goto("shutdown")
    /\ UNCHANGED <<vars, requests, up, open>>

\* Mutant: Shutdown has a deadline and its error is ignored.
ShutdownGivesUp ==
    /\ main = "shutdown"
    /\ up' = "stopping"
    /\ Goto("stopUp")
    /\ UNCHANGED <<vars, requests, open>>

\* Shutdown waits for all requests; Close begins with upSessions.Stop.
ShutdownReturns ==
    /\ main = "shutdown"
    /\ requests = {}
    /\ up' = "stopping"
    /\ Goto("stopUp")
    /\ UNCHANGED <<vars, requests, open>>

StopRp ==
    /\ main = "stopUp"
    /\ up = "stopped"
    /\ Stop
    /\ Goto("stopRp")
    /\ UNCHANGED <<requests, up, open>>

\* Mutant: Close stops at the first cleanup.
CloseObjectsOnly ==
    /\ main = "stopRp"
    /\ stop = "returned"
    /\ open' = open \ {"objects"}
    /\ Goto("ended")
    /\ UNCHANGED <<vars, requests, up>>

\* The cleanups run from the last to the first.
CloseObjects ==
    /\ main = "stopRp"
    /\ stop = "returned"
    /\ open' = open \ {"objects"}
    /\ Goto("closing")
    /\ UNCHANGED <<vars, requests, up>>

CloseRepo ==
    /\ main = "closing"
    /\ open' = open \ {"repo"}
    /\ Goto("deferred")
    /\ UNCHANGED <<vars, requests, up>>

\* RunE closes the repository as well; the process ends with its goroutines.
Exit ==
    /\ main = "deferred"
    /\ open' = open \ {"repo"}
    /\ Goto("ended")
    /\ UNCHANGED <<vars, requests, up>>

-----------------------------------------------------------------------------
(* The other goroutines *)

\* A request arrives.  One on a connection that is open when the listener
\* fails is taken to have arrived before.
Accept(r) ==
    /\ main = "serving"
    /\ r \notin requests
    /\ requests' = requests \cup {r}
    /\ UNCHANGED <<vars, main, up, open>>

Finish(r) ==
    /\ r \in requests
    /\ requests' = requests \ {r}
    /\ UNCHANGED <<vars, main, up, open>>

\* Sessions come and go while requests are handled.
UseSessions ==
    /\ requests # {}
    /\ \E k \in Key : Add(k) \/ Pop(k)
    /\ UNCHANGED processVars

\* The cleanup goroutine of upSessions takes the message of Stop.
UpReceiveDone ==
    /\ up = "stopping"
    /\ up' = "stopped"
    /\ UNCHANGED <<vars, main, requests, open>>

RpCleanup == main # "ended" /\ Cleanup /\ UNCHANGED processVars
Clock == main # "ended" /\ Tick /\ UNCHANGED processVars

GoOn == ShutdownReturns \/ StopRp \/ CloseObjects \/ CloseRepo \/ Exit \/ UpReceiveDone

ServerNext ==
    \/ StartError \/ Serve \/ ListenError \/ GoOn
    \/ \E r \in Request : Accept(r) \/ Finish(r)
    \/ UseSessions \/ RpCleanup \/ Clock

ServerSpec == ServerInit /\ [][ServerNext]_serverVars

\* Goroutines are scheduled, time goes on and every request ends.  Nothing has
\* to arrive or to fail.
ServerFairSpec ==
    /\ ServerSpec
    /\ WF_serverVars(GoOn) /\ WF_serverVars(RpCleanup) /\ WF_serverVars(Clock)
    /\ \A r \in Request : WF_serverVars(Finish(r))

-----------------------------------------------------------------------------
(* Properties *)

\* No request is being handled when a session map is stopped or a store closed,
\* whatever was under way when the listener failed: Shutdown is deferred after
\* Close and so runs before it.  (RunE, cmd/root.go:113-128; Close)
StoresOutliveRequests ==
    requests # {} => open = {"repo", "objects"} /\ up = "running" /\ stop = "none"

\* The shutdown comes to its end with both stores closed: it waits for the
\* requests and for both cleanup goroutines to come back from their sleep, and
\* no one waits for ever.  (Close, Stop)
ShutdownCompletes == (main = "shutdown") ~> (main = "ended" /\ open = {})
=============================================================================
