-------------------------- MODULE UploadPackProofs --------------------------
(***************************************************************************)
(* Proofs about UploadPack for every history, every client and every batch *)
(* size: its safety properties, and that every session is a pull as Pull   *)
(* promises it.                                                            *)
(*                                                                         *)
(* A session is alive while a request may still reach it or is using it.   *)
(* An alive session is in one of three phases, told by state and pc; what  *)
(* it has found, offered, struck and sent so far is tied together          *)
(* differently in each.                                                    *)
(***************************************************************************)
EXTENDS UploadPack, TLAPS, FiniteSetTheorems

Alive == live \/ pc # "idle"

InNegotiation == Alive /\ pc \in {"idle", "dispatch"} /\ state \in {"greet", "negotiate"}
InTables ==
    Alive /\ (pc = "tables" \/ (pc \in {"idle", "dispatch"} /\ state = "negotiateTables"))
InPackfiles ==
    Alive /\ (pc = "packfile" \/ (pc \in {"idle", "dispatch"} /\ state = "sendPackfile"))

\* Nothing was found, offered or sent yet.
Untouched ==
    /\ candidates = {} /\ toSend = {} /\ offered = {} /\ struck = {}
    /\ commitsLeft = {} /\ tablesLeft = {} /\ got = {}

\* What is left to send is what was found, less what the client struck.
StrikesAreRespected == toSend = TablesToSend \ struck

\* Every table found is offered once: it is a candidate until it is offered.
OfferingInv ==
    /\ StrikesAreRespected
    /\ TablesToSend \subseteq candidates \cup offered
    /\ candidates \cap offered = {}
    /\ commitsLeft = {} /\ tablesLeft = {} /\ got = {}

\* What the sender has left is what was found, less what the client has and
\* what was sent.
SendingInv ==
    /\ TablesToSend \subseteq offered
    /\ commitsLeft = CommitsToSend \ got
    /\ tablesLeft = TablesToSend \ (struck \cup got)
    /\ got \subseteq CommitsToSend \cup TablesToSend

\* The client is only ever found to have what it has.
FinderInv == common \subseteq ClientHas

\* Which states a request can be in while it is served, and that no request
\* reaches a session that ended.
ControlInv ==
    /\ pc = "tables" => state \in {"greet", "negotiate", "negotiateTables"}
    /\ state = "nil" => pc = "idle" /\ ~live

IInv ==
    /\ TypeOK
    /\ ControlInv
    /\ FinderInv
    /\ InNegotiation => Untouched
    /\ InTables => OfferingInv
    /\ InPackfiles => SendingInv
    /\ OfferedBeforeSent
    /\ PullIsComplete

-----------------------------------------------------------------------------
(* Facts about the operators *)

\* What is found to send comes from the history of the wants, and leaves out
\* only what the client has.
LEMMA FoundFacts ==
    ASSUME TypeOK, FinderInv
    PROVE  /\ AncestorsOf(wants) \subseteq Commit
           /\ CommitsToSend \subseteq AncestorsOf(wants)
           /\ AncestorsOf(wants) \ ClientHas \subseteq CommitsToSend
           /\ TablesToSend \subseteq Table
           /\ \A c \in CommitsToSend \ Deep : TableOf[c] \in TablesToSend
<1> USE AncestorsAssumption, TableOfAssumption, ClientAssumption DEF TypeOK, FinderInv
<1>1. AncestorsOf(wants) \subseteq Commit
  BY DEF AncestorsOf
<1>2. AncestorsOf(common) \subseteq ClientHas
  BY DEF AncestorsOf
<1>3. CommitsToSend \subseteq Commit
  BY <1>1 DEF CommitsToSend
<1> QED
  BY <1>1, <1>2, <1>3 DEF CommitsToSend, TablesToSend

\* A batch offers something whenever something is left to offer.
LEMMA BatchesAreNotEmpty ==
    ASSUME candidates # {}, NEW b, IsBatch(b)
    PROVE  b # {}
<1>1. Cardinality({}) = 0
  BY FS_EmptySet
<1> QED
  BY <1>1, BatchSizeAssumption DEF IsBatch

\* What finder.Process leaves behind.
LEMMA ProcessFacts ==
    ASSUME TypeOK, FinderInv, Process
    PROVE  /\ pc = "dispatch" /\ state \in {"greet", "negotiate"}
           /\ wants' \subseteq Commit /\ common' \subseteq Commit
           /\ FinderInv'
BY ClientAssumption DEF TypeOK, FinderInv, Process

\* When everything that was found and not struck has been sent, the pull is
\* complete.
LEMMA AllSentIsComplete ==
    ASSUME TypeOK, FinderInv, NEW sent,
           CommitsToSend \subseteq sent,
           TablesToSend \ struck \subseteq sent
    PROVE  /\ AncestorsOf(wants) \subseteq sent \cup ClientHas
           /\ {TableOf[c] : c \in AncestorsOf(wants) \ (Deep \cup ClientHas)}
                 \subseteq sent \cup struck
BY FoundFacts

-----------------------------------------------------------------------------
(* The inductive invariant *)

\* The invariant holds at the start.
LEMMA InitIInv == Init => IInv
BY DEF Init, IInv, TypeOK, States, ControlInv, FinderInv, InNegotiation, InTables, InPackfiles,
       Alive, OfferedBeforeSent, PullIsComplete, Untouched

\* The actions that keep what was found, offered, struck and sent.
LEMMA ControlStep ==
    ASSUME IInv,
           UNCHANGED <<finderVars, tableVars, senderVars>>,
           \/ Resume \/ Expire \/ UnsupportedMediaType \/ BadBody \/ RefuseWants
           \/ TablesError \/ ContinueSending \/ WriteError \/ Vanish
    PROVE  IInv'
<1> USE DEF IInv, finderVars, tableVars, senderVars
<1>1. UNCHANGED <<CommitsToSend, TablesToSend, AncestorsOf(wants)>>
  BY DEF CommitsToSend, TablesToSend, AncestorsOf
<1>2. TypeOK'
  <2>1. store' \subseteq Commit \cup Table
    BY DEF Resume, Expire, UnsupportedMediaType, BadBody, RefuseWants, TablesError,
           ContinueSending, WriteError, Vanish, TypeOK
  <2>2. live' \in BOOLEAN
    BY DEF Resume, Expire, UnsupportedMediaType, BadBody, RefuseWants, TablesError,
           ContinueSending, WriteError, Vanish, Panic, Finish, TypeOK
  <2>3. state' \in States /\ pc' \in {"idle", "dispatch", "tables", "packfile"}
    BY DEF Resume, Expire, UnsupportedMediaType, BadBody, RefuseWants, TablesError,
           ContinueSending, WriteError, Vanish, Panic, Finish, TypeOK, States
  <2> QED
    BY <2>1, <2>2, <2>3 DEF TypeOK
<1>8. ControlInv'
  <2>1. CASE RefuseWants
    BY <2>1 DEF RefuseWants, Finish, ControlInv
  <2>2. CASE ~RefuseWants
    BY <2>2 DEF Resume, Expire, UnsupportedMediaType, BadBody, TablesError, ContinueSending,
                WriteError, Vanish, Panic, ControlInv
  <2> QED
    BY <2>1, <2>2
<1>3. FinderInv' /\ OfferedBeforeSent'
  BY DEF FinderInv, OfferedBeforeSent
<1>4. /\ InNegotiation' => InNegotiation
      /\ InTables' => InTables
      /\ InPackfiles' => InPackfiles
  BY DEF Resume, Expire, UnsupportedMediaType, BadBody, RefuseWants, TablesError, ContinueSending,
         WriteError, Vanish, Panic, Finish, InNegotiation, InTables, InPackfiles, Alive, ControlInv
<1>5. /\ InNegotiation' => Untouched'
      /\ InTables' => OfferingInv'
      /\ InPackfiles' => SendingInv'
  BY <1>1, <1>4 DEF Untouched, OfferingInv, SendingInv, StrikesAreRespected
<1>6. state' = "nil" => state = "nil" \/ InNegotiation
  BY DEF Resume, Expire, UnsupportedMediaType, BadBody, RefuseWants, TablesError, ContinueSending,
         WriteError, Vanish, Panic, Finish, InNegotiation, Alive
<1>7. PullIsComplete'
  BY <1>1, <1>6 DEF PullIsComplete, Untouched, AncestorsOf
<1> QED
  BY <1>2, <1>3, <1>5, <1>7, <1>8

\* No request in progress, no session in the map: a new one starts empty.
LEMMA NewSessionStep == IInv /\ NewSession => IInv'
BY DEF IInv, NewSession, TypeOK, States, ControlInv, FinderInv, InNegotiation, InTables,
       InPackfiles, Alive, OfferedBeforeSent, PullIsComplete, Untouched

\* Finding commits touches a session that has found no tables.
LEMMA ProcessStep ==
    ASSUME IInv, KeepNegotiating \/ FindTables \/ FindError
    PROVE  IInv'
<1> USE DEF IInv
<1>1. Process /\ Untouched /\ state \in {"greet", "negotiate"} /\ pc = "dispatch"
  BY DEF KeepNegotiating, FindTables, FindError, Process, InNegotiation, Alive
<1>2. wants' \subseteq Commit /\ common' \subseteq Commit /\ FinderInv'
  BY <1>1, ProcessFacts
<1>3. CASE KeepNegotiating \/ FindError
  <2>1. Untouched'
    BY <1>1, <1>3 DEF KeepNegotiating, FindError, Untouched, tableVars, senderVars
  <2>2. state' \in {"greet", "negotiate"} /\ pc' = "idle" /\ live' \in BOOLEAN
    BY <1>1, <1>3 DEF KeepNegotiating, FindError, Finish, Panic, TypeOK
  <2>3. TypeOK'
    BY <1>2, <1>3, <2>1, <2>2 DEF KeepNegotiating, FindError, TypeOK, States, Untouched
  <2> QED
    BY <1>2, <2>1, <2>2, <2>3
    DEF ControlInv, InTables, InPackfiles, OfferedBeforeSent, PullIsComplete, Untouched
<1>4. CASE FindTables
  <2>1. /\ toSend' = TablesToSend' /\ candidates' = TablesToSend'
        /\ offered' = {} /\ struck' = {}
        /\ commitsLeft' = {} /\ tablesLeft' = {} /\ got' = {}
        /\ pc' = "tables"
        /\ UNCHANGED <<store, live, state>>
    BY <1>1, <1>4 DEF FindTables, Untouched, senderVars
  <2>2. TablesToSend' \subseteq Table
    <3>1. AncestorsOf(wants)' \subseteq Commit
      BY <1>2, AncestorsAssumption DEF AncestorsOf
    <3> QED
      BY <3>1, TableOfAssumption DEF TablesToSend, CommitsToSend
  <2>3. TypeOK'
    BY <1>2, <2>1, <2>2 DEF TypeOK
  <2>4. OfferingInv'
    BY <2>1 DEF OfferingInv, StrikesAreRespected
  <2> QED
    BY <1>1, <1>2, <2>1, <2>3, <2>4
    DEF ControlInv, InNegotiation, InPackfiles, OfferedBeforeSent, PullIsComplete
<1> QED
  BY <1>3, <1>4

\* Striking a table strikes it from what is to be sent.
LEMMA NegotiateTablesStep == IInv /\ NegotiateTables => IInv'
<1> SUFFICES ASSUME IInv, NegotiateTables PROVE IInv'
  OBVIOUS
<1> USE DEF IInv
<1>1. pc = "dispatch" /\ state = "negotiateTables" /\ OfferingInv
  BY DEF NegotiateTables, InTables, Alive
<1>2. PICK acks \in SUBSET Table : toSend' = toSend \ acks /\ struck' = struck \cup acks
  BY DEF NegotiateTables
<1>3. /\ pc' = "tables"
      /\ UNCHANGED <<store, live, state, wants, common, candidates, offered, commitsLeft,
                     tablesLeft, got>>
  BY DEF NegotiateTables, finderVars, senderVars
<1>4. UNCHANGED <<CommitsToSend, TablesToSend>>
  BY <1>3 DEF CommitsToSend, TablesToSend, AncestorsOf
<1>5. OfferingInv'
  BY <1>1, <1>2, <1>3, <1>4 DEF OfferingInv, StrikesAreRespected
<1>6. TypeOK'
  BY <1>2, <1>3 DEF TypeOK
<1> QED
  BY <1>1, <1>3, <1>5, <1>6
  DEF ControlInv, FinderInv, InNegotiation, InPackfiles, OfferedBeforeSent, PullIsComplete

\* A batch moves candidates to the tables offered.
LEMMA OfferTablesStep == IInv /\ OfferTables => IInv'
<1> SUFFICES ASSUME IInv, OfferTables PROVE IInv'
  OBVIOUS
<1> USE DEF IInv
<1>1. pc = "tables" /\ OfferingInv
  BY DEF OfferTables, InTables, Alive
<1>2. PICK b \in SUBSET candidates : candidates' = candidates \ b /\ offered' = offered \cup b
  BY DEF OfferTables
<1>3. /\ pc' = "idle" /\ state' = "negotiateTables" /\ live' \in BOOLEAN
      /\ UNCHANGED <<store, wants, common, toSend, struck, commitsLeft, tablesLeft, got>>
  BY DEF OfferTables, Finish, finderVars, senderVars, TypeOK
<1>4. UNCHANGED <<CommitsToSend, TablesToSend>>
  BY <1>3 DEF CommitsToSend, TablesToSend, AncestorsOf
<1>5. OfferingInv'
  BY <1>1, <1>2, <1>3, <1>4 DEF OfferingInv, StrikesAreRespected
<1>6. TypeOK'
  BY <1>2, <1>3 DEF TypeOK, States
<1> QED
  BY <1>1, <1>2, <1>3, <1>5, <1>6
  DEF ControlInv, FinderInv, InNegotiation, InPackfiles, OfferedBeforeSent, PullIsComplete

\* The sender starts when every table it may send was offered.
LEMMA StartSendingStep == IInv /\ StartSending => IInv'
<1> SUFFICES ASSUME IInv, StartSending PROVE IInv'
  OBVIOUS
<1> USE DEF IInv
<1>1. pc = "tables" /\ OfferingInv /\ candidates = {} /\ state # "nil"
  BY DEF StartSending, InTables, Alive, ControlInv
<1>2. /\ commitsLeft' = CommitsToSend /\ pc' = "packfile"
      /\ UNCHANGED <<store, live, state, wants, common, candidates, toSend, offered, got>>
  BY DEF StartSending, finderVars
<1>7. PICK known \in SUBSET KnownTables :
          tablesLeft' = toSend \ known /\ struck' = struck \cup known
  BY DEF StartSending
<1>8. known \subseteq Table
  BY TableOfAssumption DEF KnownTables, TypeOK
<1>3. UNCHANGED <<CommitsToSend, TablesToSend>>
  BY <1>2 DEF CommitsToSend, TablesToSend, AncestorsOf
<1>4. SendingInv'
  BY <1>1, <1>2, <1>3, <1>7 DEF OfferingInv, SendingInv, StrikesAreRespected
<1>5. TypeOK'
  <2>1. CommitsToSend \subseteq Commit
    BY FoundFacts
  <2> QED
    BY <1>2, <1>7, <1>8, <2>1 DEF TypeOK
<1>6. OfferedBeforeSent'
  BY <1>1, <1>2, <1>7 DEF OfferingInv, StrikesAreRespected, OfferedBeforeSent
<1> QED
  BY <1>1, <1>2, <1>4, <1>5, <1>6
  DEF ControlInv, FinderInv, InNegotiation, InTables, PullIsComplete

\* A packfile takes its objects from what the sender has left; when nothing is
\* left after it the pull is complete.
LEMMA WritePackfileStep == IInv /\ WritePackfile => IInv'
<1> SUFFICES ASSUME IInv, WritePackfile PROVE IInv'
  OBVIOUS
<1> USE DEF IInv
<1>1. pc = "packfile" /\ SendingInv
  BY DEF WritePackfile, InPackfiles, Alive
<1>2. PICK cs \in SUBSET commitsLeft, ts \in SUBSET tablesLeft :
          /\ commitsLeft' = commitsLeft \ cs
          /\ tablesLeft' = tablesLeft \ ts
          /\ got' = got \cup cs \cup ts
          /\ Finish(IF SendDone(cs, ts) THEN "nil" ELSE "sendPackfile")
  BY DEF WritePackfile
<1>3. UNCHANGED <<store, wants, common, candidates, toSend, offered, struck>>
  BY DEF WritePackfile, finderVars, tableVars
<1>4. UNCHANGED <<CommitsToSend, TablesToSend, AncestorsOf(wants)>>
  BY <1>3 DEF CommitsToSend, TablesToSend, AncestorsOf
<1>5. /\ pc' = "idle" /\ live' \in BOOLEAN
      /\ state' = IF SendDone(cs, ts) THEN "nil" ELSE "sendPackfile"
      /\ state' = "nil" => ~live'
  BY <1>2 DEF Finish, TypeOK
<1>6. TypeOK'
  BY <1>2, <1>3, <1>5 DEF TypeOK, States
<1>7. SendingInv'
  <2>1. CommitsToSend \subseteq Commit /\ TablesToSend \subseteq Table
    BY FoundFacts
  <2>2. commitsLeft' = CommitsToSend \ got'
    BY <1>1, <1>2, <2>1, ObjectsAssumption DEF SendingInv
  <2>3. tablesLeft' = TablesToSend \ (struck \cup got')
    BY <1>1, <1>2, <2>1, ObjectsAssumption DEF SendingInv
  <2> QED
    BY <1>1, <1>2, <1>3, <1>4, <2>2, <2>3 DEF SendingInv, StrikesAreRespected
<1>8. OfferedBeforeSent'
  <2>1. cs \cap Table = {}
    BY <1>2, ObjectsAssumption DEF TypeOK
  <2> QED
    BY <1>2, <1>3, <2>1 DEF OfferedBeforeSent
<1>9. PullIsComplete'
  <2>1. SUFFICES ASSUME state' = "nil" PROVE PullIsComplete'
    BY DEF PullIsComplete
  <2>2. cs = commitsLeft /\ ts = tablesLeft
    BY <1>5, <2>1 DEF SendDone
  <2>3. CommitsToSend \subseteq got' /\ TablesToSend \ struck \subseteq got'
    BY <1>1, <1>2, <2>2 DEF SendingInv
  <2>4. /\ AncestorsOf(wants) \subseteq got' \cup ClientHas
        /\ {TableOf[c] : c \in AncestorsOf(wants) \ (Deep \cup ClientHas)}
              \subseteq got' \cup struck
    BY <2>3, AllSentIsComplete
  <2> QED
    BY <1>3, <1>4, <2>4 DEF PullIsComplete, AncestorsOf
<1> QED
  BY <1>3, <1>5, <1>6, <1>7, <1>8, <1>9
  DEF ControlInv, FinderInv, InNegotiation, InTables

\* Every action keeps the invariant.
LEMMA Step == IInv /\ [Next]_vars => IInv'
<1> SUFFICES ASSUME IInv, [Next]_vars PROVE IInv'
  OBVIOUS
<1>1. CASE UNCHANGED vars
  BY <1>1 DEF vars, finderVars, tableVars, senderVars, IInv, TypeOK, ControlInv, FinderInv,
      InNegotiation, InTables, InPackfiles, Alive, Untouched, OfferingInv, SendingInv,
      StrikesAreRespected, OfferedBeforeSent, PullIsComplete, CommitsToSend, TablesToSend,
      AncestorsOf
<1>2. CASE \/ Resume \/ Expire \/ UnsupportedMediaType \/ BadBody \/ RefuseWants
           \/ TablesError \/ ContinueSending \/ WriteError \/ Vanish
  <2>1. UNCHANGED <<finderVars, tableVars, senderVars>>
    BY <1>2 DEF Resume, Expire, UnsupportedMediaType, BadBody, RefuseWants, TablesError,
                ContinueSending, WriteError, Vanish
  <2> QED
    BY <1>2, <2>1, ControlStep
<1>3. CASE KeepNegotiating \/ FindTables \/ FindError
  BY <1>3, ProcessStep
<1> QED
  BY <1>1, <1>2, <1>3, NewSessionStep, NegotiateTablesStep, OfferTablesStep, StartSendingStep,
     WritePackfileStep
  DEF Next

\* The invariant holds in every reachable state.
LEMMA Invariance == Spec => []IInv
BY InitIInv, Step, PTL DEF Spec

-----------------------------------------------------------------------------
(* The properties *)

\* Every variable of a pull keeps its type, whatever a prune removes and
\* whenever the session expires.
THEOREM TypeCorrect == Spec => []TypeOK
<1>1. IInv => TypeOK
  BY DEF IInv
<1> QED
  BY <1>1, Invariance, PTL

\* A pull that ended well, after whatever rounds, batches and packfiles, has
\* left the client with the history of its wants and every table of it within
\* the depth that it did not strike.
THEOREM PullsAreComplete == Spec => []PullIsComplete
<1>1. IInv => PullIsComplete
  BY DEF IInv
<1> QED
  BY <1>1, Invariance, PTL

\* No table is sent, or about to be sent, that was not offered before.
THEOREM TablesAreOfferedFirst == Spec => []OfferedBeforeSent
<1>1. IInv => OfferedBeforeSent
  BY DEF IInv
<1> QED
  BY <1>1, Invariance, PTL

\* A round of table negotiation that leaves the session alive has offered
\* tables that were not offered before, and has not kept them to offer again.
THEOREM RoundsMakeProgress == Spec => EveryRoundOffersMore
<1>1. ASSUME IInv, Next, pc = "tables", pc' = "idle", live'
      PROVE  offered' # offered /\ candidates' \cap offered' = {}
  <2>1. OfferTables
    BY <1>1 DEF Next, NewSession, Resume, Expire, UnsupportedMediaType, BadBody, RefuseWants,
                KeepNegotiating, FindTables, FindError, Process, NegotiateTables, StartSending,
                TablesError, ContinueSending, WritePackfile, WriteError, Vanish, Panic
  <2>2. PICK b \in SUBSET candidates :
            /\ IsBatch(b)
            /\ candidates' = candidates \ b
            /\ offered' = offered \cup b
    BY <2>1 DEF OfferTables
  <2>3. b # {}
    BY <2>1, <2>2, BatchesAreNotEmpty DEF OfferTables
  <2>4. candidates \cap offered = {}
    BY <1>1 DEF IInv, InTables, Alive, OfferingInv
  <2> QED
    BY <2>2, <2>3, <2>4
<1>2. IInv /\ [Next]_vars =>
         [(pc = "tables" /\ pc' = "idle" /\ live')
            => offered' # offered /\ candidates' \cap offered' = {}]_vars
  BY <1>1
<1> QED
  BY <1>2, Invariance, PTL DEF Spec, EveryRoundOffersMore

-----------------------------------------------------------------------------
(* The refinement of Pull *)

\* Each step of a session is a step of Pull or changes nothing Pull speaks of.
LEMMA SimulationStep ==
    ASSUME IInv, [Next]_vars
    PROVE  [Promise!Next]_(Promise!vars)
<1> USE DEF IInv, Promise!vars
<1>1. CASE UNCHANGED <<wants, struck, got, state>>
  BY <1>1
<1>2. CASE NewSession
  BY <1>2 DEF NewSession, Promise!Next, Promise!StartOver
<1>3. CASE RefuseWants
  <2>1. got = {} /\ UNCHANGED <<wants, struck, got>>
    BY <1>3 DEF RefuseWants, InNegotiation, Alive, Untouched, finderVars, tableVars, senderVars
  <2> QED
    BY <2>1
<1>4. CASE KeepNegotiating \/ FindTables \/ FindError
  <2>1. got = {} /\ UNCHANGED <<struck, got>>
    BY <1>4 DEF KeepNegotiating, FindTables, FindError, Process, InNegotiation, Alive, Untouched,
                tableVars, senderVars
  <2>2. \E ws \in ClientWants : wants' = wants \cup ws
    BY <1>4 DEF KeepNegotiating, FindTables, FindError, Process
  <2> QED
    BY <2>1, <2>2 DEF Promise!Next, Promise!Ask
<1>5. CASE NegotiateTables
  <2>1. got = {} /\ UNCHANGED <<wants, got>>
    BY <1>5 DEF NegotiateTables, InTables, Alive, OfferingInv, finderVars, senderVars
  <2>2. \E ts \in SUBSET Table : struck' = struck \cup ts
    BY <1>5 DEF NegotiateTables
  <2> QED
    BY <2>1, <2>2 DEF Promise!Next, Promise!Strike
<1>6. CASE OfferTables
  <2>1. got = {} /\ UNCHANGED <<wants, struck, got>>
    BY <1>6 DEF OfferTables, InTables, Alive, OfferingInv, finderVars, senderVars
  <2> QED
    BY <2>1
<1>7. CASE WritePackfile
  <2>1. SendingInv /\ state # "nil"
    BY <1>7 DEF WritePackfile, InPackfiles, Alive, ControlInv
  <2>2. PICK cs \in SUBSET commitsLeft, ts \in SUBSET tablesLeft :
            /\ got' = got \cup cs \cup ts
            /\ Finish(IF SendDone(cs, ts) THEN "nil" ELSE "sendPackfile")
    BY <1>7 DEF WritePackfile
  <2>3. UNCHANGED <<wants, struck>>
    BY <1>7 DEF WritePackfile, finderVars, tableVars
  <2>4. cs \cup ts \in SUBSET (Promise!Allowed \ got)
    <3>1. cs \cup ts \subseteq (CommitsToSend \cup (TablesToSend \ struck)) \ got
      BY <2>1 DEF SendingInv, StrikesAreRespected
    <3>2. CommitsToSend \subseteq Promise!History
      BY FoundFacts DEF Promise!History, AncestorsOf
    <3>3. TablesToSend \subseteq Promise!TablesOf(Promise!History)
      BY <3>2 DEF TablesToSend, Promise!TablesOf
    <3> QED
      BY <3>1, <3>2, <3>3 DEF Promise!Allowed
  <2>5. state' = "nil" => Promise!Owed \subseteq got'
    <3>1. SUFFICES ASSUME state' = "nil" PROVE Promise!Owed \subseteq got'
      OBVIOUS
    <3>2. CommitsToSend \subseteq got' /\ TablesToSend \ struck \subseteq got'
      BY <2>1, <2>2, <3>1 DEF SendingInv, StrikesAreRespected, Finish, SendDone
    <3>3. Promise!History \ ClientHas \subseteq CommitsToSend
      BY FoundFacts DEF Promise!History, AncestorsOf
    <3>4. Promise!TablesOf(Promise!History \ ClientHas) \subseteq TablesToSend
      BY <3>3 DEF TablesToSend, Promise!TablesOf
    <3> QED
      BY <3>2, <3>3, <3>4 DEF Promise!Owed
  <2> QED
    BY <2>1, <2>2, <2>3, <2>4, <2>5 DEF Promise!Next, Promise!Send
<1>8. CASE \/ Resume \/ Expire \/ UnsupportedMediaType \/ BadBody
           \/ TablesError \/ ContinueSending \/ WriteError \/ Vanish
  BY <1>1, <1>8
  DEF Resume, Expire, UnsupportedMediaType, BadBody, TablesError, ContinueSending,
      WriteError, Vanish, Panic, finderVars, tableVars, senderVars
<1>10. CASE StartSending
  <2>1. got = {} /\ UNCHANGED <<wants, got, state>> /\ state # "nil"
    BY <1>10 DEF StartSending, InTables, Alive, OfferingInv, ControlInv, finderVars
  <2>2. PICK known \in SUBSET KnownTables : struck' = struck \cup known
    BY <1>10 DEF StartSending
  <2>3. known \in SUBSET Table
    BY TableOfAssumption DEF KnownTables, TypeOK
  <2> QED
    BY <2>1, <2>2, <2>3 DEF Promise!Next, Promise!Strike
<1>9. CASE UNCHANGED vars
  BY <1>1, <1>9 DEF vars, finderVars, tableVars, senderVars
<1> QED
  BY <1>2, <1>3, <1>4, <1>5, <1>6, <1>7, <1>8, <1>9, <1>10 DEF Next

\* Every behaviour of the endpoint is a behaviour of Pull: wants, then strikes,
\* then each object at most once and nothing that was struck, and no end while
\* something is missing.
THEOREM Refinement == Spec => ImplementsPull
<1>1. Init => Promise!Init
  BY DEF Init, Promise!Init
<1> QED
  BY <1>1, SimulationStep, Invariance, PTL DEF Spec, ImplementsPull, Promise!Spec
=============================================================================
