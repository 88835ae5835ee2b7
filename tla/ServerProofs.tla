---------------------------- MODULE ServerProofs ----------------------------
(***************************************************************************)
(* The server uses its session map the way TTLMap says a map is used, so    *)
(* that what is proved of the map holds in the server; and its stores and   *)
(* maps outlive the requests.                                              *)
(***************************************************************************)
EXTENDS Server, TTLMapProofs

\* Nothing is stopped or closed before Shutdown has returned, and no request is
\* handled afterwards.
LifeInv ==
    /\ main \in {"starting", "serving", "shutdown"} =>
          open = {"repo", "objects"} /\ up = "running" /\ stop = "none"
    /\ main \notin {"serving", "shutdown"} => requests = {}

ServerInv == ServerTypeOK /\ LifeInv

\* Every step of the server is a step of the map or leaves it alone.
LEMMA MapStep == [ServerNext]_serverVars => [Next]_vars
<1> SUFFICES ASSUME [ServerNext]_serverVars PROVE [Next]_vars
  OBVIOUS
<1> USE DEF serverVars, vars
<1>1. CASE GoOn
  BY <1>1 DEF GoOn, ShutdownReturns, StopRp, CloseObjects, CloseRepo, Exit, UpReceiveDone, Next
<1>2. CASE StartError \/ Serve \/ ListenError
  BY <1>2 DEF StartError, Serve, ListenError
<1>3. CASE \E r \in Request : Accept(r) \/ Finish(r)
  BY <1>3 DEF Accept, Finish
<1>4. CASE UseSessions \/ RpCleanup \/ Clock
  BY <1>4 DEF UseSessions, RpCleanup, Clock, Next
<1>5. CASE UNCHANGED serverVars
  BY <1>5
<1> QED
  BY <1>1, <1>2, <1>3, <1>4, <1>5 DEF ServerNext

\* The session map of the server is a TTLMap: what is proved of one, whatever
\* its users do, holds for it.
THEOREM ServerImplementsTTLMap == ServerSpec => Spec
<1>1. ServerInit => Init
  BY DEF ServerInit
<1> QED
  BY <1>1, MapStep, PTL DEF ServerSpec, Spec

\* Every action keeps the invariant.
LEMMA ServerStep ==
    ASSUME ServerInv, [ServerNext]_serverVars
    PROVE  LifeInv' /\ main' \in {"starting", "serving", "shutdown", "stopUp", "stopRp",
                                  "closing", "deferred", "ended"}
           /\ requests' \subseteq Request /\ up' \in {"running", "stopping", "stopped"}
           /\ open' \subseteq {"repo", "objects"}
<1> USE DEF ServerInv, ServerTypeOK, LifeInv, vars, serverVars, processVars, Goto
<1>1. CASE GoOn
  BY <1>1 DEF GoOn, ShutdownReturns, StopRp, CloseObjects, CloseRepo, Exit, UpReceiveDone, Stop
<1>2. CASE StartError \/ Serve \/ ListenError
  BY <1>2 DEF StartError, Serve, ListenError
<1>3. ASSUME NEW r \in Request, Accept(r) \/ Finish(r)
      PROVE  LifeInv' /\ requests' \subseteq Request /\ UNCHANGED <<main, up, open>>
  BY <1>3 DEF Accept, Finish
<1>4. CASE UseSessions
  <2>1. UNCHANGED <<processVars, stop>>
    BY <1>4 DEF UseSessions, Add, Pop
  <2> QED
    BY <2>1
<1>5. CASE RpCleanup
  <2>1. UNCHANGED processVars /\ (stop' = stop \/ stop = "waiting")
    BY <1>5 DEF RpCleanup, Cleanup, SweepAll, SweepToFirst, WakeUp, ReceiveDone
  <2> QED
    BY <2>1
<1>6. CASE Clock
  BY <1>6 DEF Clock, Tick
<1>7. CASE UNCHANGED serverVars
  BY <1>7
<1> QED
  BY <1>1, <1>2, <1>3, <1>4, <1>5, <1>6, <1>7 DEF ServerNext

\* The invariant holds in every reachable state.
LEMMA ServerInvariance == ServerSpec => []ServerInv
<1>1. ServerInit /\ IInv => ServerInv
  BY DEF ServerInit, Init, IInv, ServerInv, ServerTypeOK, LifeInv
<1>2. ServerInv /\ IInv' /\ [ServerNext]_serverVars => ServerInv'
  BY ServerStep DEF IInv, ServerInv, ServerTypeOK
<1> QED
  BY <1>1, <1>2, ServerImplementsTTLMap, MapInvariance, PTL DEF ServerSpec

\* Every variable of the process and of its session map keeps its type.
THEOREM TypeCorrect == ServerSpec => []ServerTypeOK
<1>1. ServerInv => ServerTypeOK
  BY DEF ServerInv
<1> QED
  BY <1>1, ServerInvariance, PTL

\* However many requests there are, none is being handled when a store is
\* closed or a session map stopped.
THEOREM RequestsEndFirst == ServerSpec => []StoresOutliveRequests
<1>1. ServerInv => StoresOutliveRequests
  BY DEF ServerInv, LifeInv, ServerTypeOK, StoresOutliveRequests
<1> QED
  BY <1>1, ServerInvariance, PTL
=============================================================================
