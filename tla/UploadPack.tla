----------------------------- MODULE UploadPack -----------------------------
(***************************************************************************)
(* The upload-pack endpoint of wrgld: one client pulls commits over several *)
(* requests.  It negotiates common commits, is offered the tables it would *)
(* get in batches, strikes those it has, and receives the rest in one or    *)
(* more packfiles.  Sessions share nothing but the stores, so one client    *)
(* is enough; it sends one request at a time.  Prunes of the stores may run *)
(* between any two steps.                                                  *)
(*                                                                         *)
(* Sources: pkg/server/upload_pack_session.go, upload_pack_handler.go,     *)
(* upload_pack_session_map.go.  ClosedSetsFinder and ObjectSender belong to *)
(* github.com/wrgl/wrgl and are modelled from how the session uses them.   *)
(***************************************************************************)
EXTENDS FiniteSets, Naturals

CONSTANTS
    Commit,       \* commits of the repository
    Table,        \* their tables
    Ancestors,    \* Ancestors[c]: c and every commit reachable from c
    TableOf,      \* the table of each commit
    Deep,         \* commits beyond the depth the client asks for
    ClientHas,    \* commits the client has, with their ancestors
    ClientWants,  \* sets of commits the client may ask for
    BatchSize     \* tables offered in one response: 256 in the code

ASSUME ObjectsAssumption == Commit \cap Table = {}
ASSUME AncestorsAssumption ==
    /\ Ancestors \in [Commit -> SUBSET Commit]
    /\ \A c \in Commit : c \in Ancestors[c]
ASSUME TableOfAssumption == TableOf \in [Commit -> Table]
ASSUME ClientAssumption ==
    /\ Deep \subseteq Commit
    /\ ClientHas \subseteq Commit
    /\ \A c \in ClientHas : Ancestors[c] \subseteq ClientHas
    /\ ClientWants \subseteq SUBSET Commit
ASSUME BatchSizeAssumption == BatchSize \in Nat \ {0}

VARIABLES
    store,       \* commits and tables in the objects database
    live,        \* the client's session is in UploadPackSessionMap
    state,       \* UploadPackSession.state
    pc,          \* where the request in progress is
    wants,       \* commits the finder was asked for
    common,      \* commits the finder knows both sides have
    candidates,  \* candidateTables: tables not offered yet
    toSend,      \* tablesToSend
    commitsLeft, \* commits the ObjectSender has not written
    tablesLeft,  \* tables the ObjectSender has not written
    offered,     \* (history) tables offered to the client
    struck,      \* (history) tables the client has: it struck them, or see KnownTables
    got          \* (history) objects written to the client

finderVars == <<wants, common>>
tableVars == <<candidates, toSend, offered, struck>>
senderVars == <<commitsLeft, tablesLeft, got>>
vars == <<store, live, state, pc, finderVars, tableVars, senderVars>>

States == {"greet", "negotiate", "negotiateTables", "sendPackfile", "nil"}

TypeOK ==
    /\ store \subseteq Commit \cup Table
    /\ live \in BOOLEAN
    /\ state \in States
    /\ pc \in {"idle", "dispatch", "tables", "packfile"}
    /\ wants \subseteq Commit
    /\ common \subseteq Commit
    /\ candidates \subseteq Table
    /\ toSend \subseteq Table
    /\ commitsLeft \subseteq Commit
    /\ tablesLeft \subseteq Table
    /\ offered \subseteq Table
    /\ struck \subseteq Table
    /\ got \subseteq Commit \cup Table

-----------------------------------------------------------------------------
(* Helpers *)

AncestorsOf(cs) == UNION {Ancestors[c] : c \in cs}

\* External: what ClosedSetsFinder finds out the client lacks.
CommitsToSend == AncestorsOf(wants) \ AncestorsOf(common)
TablesToSend == {TableOf[c] : c \in CommitsToSend \ Deep}

\* External: the sender is given the common commits, and may leave out what the
\* client has with them.
KnownTables == {TableOf[c] : c \in common}

\* One response offers BatchSize tables, or all that are left.
IsBatch(b) ==
    /\ b \subseteq candidates
    /\ Cardinality(b) = BatchSize \/ (b = candidates /\ Cardinality(b) < BatchSize)

\* The request ends in this state; handleUploadPack deletes a finished session.
Finish(fn) ==
    /\ state' = fn
    /\ live' = (live /\ fn # "nil")
    /\ pc' = "idle"

\* A panic: the session is deleted, s.state keeps its value.
Panic ==
    /\ live' = FALSE
    /\ pc' = "idle"
    /\ UNCHANGED state

Init ==
    /\ store = Commit \cup Table
    /\ live = FALSE
    /\ pc = "idle"
    /\ state = "greet"
    /\ wants = {} /\ common = {}
    /\ candidates = {} /\ toSend = {} /\ offered = {} /\ struck = {}
    /\ commitsLeft = {} /\ tablesLeft = {} /\ got = {}

-----------------------------------------------------------------------------
(* A request reaches its session *)

\* No cookie, or one whose session is gone.
NewSession ==
    /\ pc = "idle"
    /\ ~live
    /\ live' = TRUE
    /\ pc' = "dispatch"
    /\ state' = "greet"
    /\ wants' = {} /\ common' = {}
    /\ candidates' = {} /\ toSend' = {} /\ offered' = {} /\ struck' = {}
    /\ commitsLeft' = {} /\ tablesLeft' = {} /\ got' = {}
    /\ UNCHANGED store

Resume ==
    /\ pc = "idle"
    /\ live
    /\ pc' = "dispatch"
    /\ UNCHANGED <<store, live, state, finderVars, tableVars, senderVars>>

\* The TTL map drops the session, in use or not.
Expire ==
    /\ live
    /\ live' = FALSE
    /\ UNCHANGED <<store, state, pc, finderVars, tableVars, senderVars>>

\* Any other content type than JSON: the session is deleted in mid-air, as if
\* it were completed.
UnsupportedMediaType ==
    /\ pc = "dispatch"
    /\ Panic
    /\ UNCHANGED <<store, finderVars, tableVars, senderVars>>

\* The body does not parse.
BadBody ==
    /\ pc = "dispatch"
    /\ state \in {"greet", "negotiate", "negotiateTables"}
    /\ Panic
    /\ UNCHANGED <<store, finderVars, tableVars, senderVars>>

-----------------------------------------------------------------------------
(* greet and negotiate: find the commits both sides have *)

\* No wants in greet, or wants that no ref reaches in either state: 400.
RefuseWants ==
    /\ pc = "dispatch"
    /\ state \in {"greet", "negotiate"}
    /\ Finish("nil")
    /\ UNCHANGED <<store, finderVars, tableVars, senderVars>>

\* finder.Process: wants are added, haves that exist here become common.
Process ==
    /\ pc = "dispatch"
    /\ state \in {"greet", "negotiate"}
    /\ \E ws \in ClientWants :
          /\ state = "greet" => ws # {}
          /\ ws \subseteq store
          /\ wants' = wants \cup ws
    /\ \E hs \in SUBSET (ClientHas \cap store) : common' = common \cup hs

\* Some wants have not met a common commit and the client is not done.
KeepNegotiating ==
    /\ Process
    /\ Finish("negotiate")
    /\ UNCHANGED <<store, tableVars, senderVars>>

\* Mutant: commits are offered in place of their tables.
FindCommits ==
    /\ Process
    /\ toSend' = CommitsToSend'
    /\ candidates' = candidates \cup CommitsToSend'
    /\ pc' = "tables"
    /\ UNCHANGED <<store, live, state, offered, struck, senderVars>>

\* Negotiation is over: every table to send becomes a candidate to offer.
FindTables ==
    /\ Process
    /\ toSend' = TablesToSend'
    /\ candidates' = candidates \cup TablesToSend'
    /\ pc' = "tables"
    /\ UNCHANGED <<store, live, state, offered, struck, senderVars>>

\* Walking the commits fails on one that was pruned, or the client is gone.
FindError ==
    /\ Process
    /\ Panic
    /\ UNCHANGED <<store, tableVars, senderVars>>

-----------------------------------------------------------------------------
(* negotiateTables and sendTableHaves *)

\* Mutant: TableACKs are ignored.
NegotiateTablesNoDelete ==
    /\ pc = "dispatch"
    /\ state = "negotiateTables"
    /\ \E acks \in SUBSET Table : struck' = struck \cup acks
    /\ pc' = "tables"
    /\ UNCHANGED <<store, live, state, finderVars, candidates, toSend, offered, senderVars>>

\* The client strikes the tables it has.
NegotiateTables ==
    /\ pc = "dispatch"
    /\ state = "negotiateTables"
    /\ \E acks \in SUBSET Table :
          /\ toSend' = toSend \ acks
          /\ struck' = struck \cup acks
    /\ pc' = "tables"
    /\ UNCHANGED <<store, live, state, finderVars, candidates, offered, senderVars>>

\* Mutant: the tables offered stay candidates.
OfferTablesAgain ==
    /\ pc = "tables"
    /\ candidates # {}
    /\ \E b \in SUBSET candidates : IsBatch(b) /\ offered' = offered \cup b
    /\ Finish("negotiateTables")
    /\ UNCHANGED <<store, finderVars, candidates, toSend, struck, senderVars>>

OfferTables ==
    /\ pc = "tables"
    /\ candidates # {}
    /\ \E b \in SUBSET candidates :
          /\ IsBatch(b)
          /\ candidates' = candidates \ b
          /\ offered' = offered \cup b
    /\ Finish("negotiateTables")
    /\ UNCHANGED <<store, finderVars, toSend, struck, senderVars>>

\* Mutant: the sender is made while candidates are left.
StartSendingEarly ==
    /\ pc = "tables"
    /\ commitsLeft' = CommitsToSend
    /\ \E known \in SUBSET KnownTables :
          /\ tablesLeft' = toSend \ known
          /\ struck' = struck \cup known
    /\ pc' = "packfile"
    /\ UNCHANGED <<store, live, state, finderVars, candidates, toSend, offered, got>>

\* No candidate is left: the sender is made from what was found in this very
\* session, whatever was pruned since.
StartSending ==
    /\ pc = "tables"
    /\ candidates = {}
    /\ commitsLeft' = CommitsToSend
    /\ \E known \in SUBSET KnownTables :
          /\ tablesLeft' = toSend \ known
          /\ struck' = struck \cup known
    /\ pc' = "packfile"
    /\ UNCHANGED <<store, live, state, finderVars, candidates, toSend, offered, got>>

\* Writing the answer fails, or the sender cannot be made.
TablesError ==
    /\ pc = "tables"
    /\ Panic
    /\ UNCHANGED <<store, finderVars, tableVars, senderVars>>

-----------------------------------------------------------------------------
(* sendPackfile *)

ContinueSending ==
    /\ pc = "dispatch"
    /\ state = "sendPackfile"
    /\ pc' = "packfile"
    /\ UNCHANGED <<store, live, state, finderVars, tableVars, senderVars>>

\* External: done of ObjectSender.WriteObjects.
SendDone(cs, ts) == cs = commitsLeft /\ ts = tablesLeft

\* Mutant: done is not looked at, the first packfile is taken for the last.
WritePackfileOnce ==
    /\ pc = "packfile"
    /\ \E cs \in SUBSET commitsLeft, ts \in SUBSET tablesLeft :
          /\ cs \cup ts = {} => commitsLeft \cup tablesLeft = {}
          /\ cs \cup ts \subseteq store
          /\ commitsLeft' = commitsLeft \ cs
          /\ tablesLeft' = tablesLeft \ ts
          /\ got' = got \cup cs \cup ts
          /\ Finish("nil")
    /\ UNCHANGED <<store, finderVars, tableVars>>

\* WriteObjects reads what it writes from the store, and fills the packfile up
\* to its maximum size; at least one object fits.
WritePackfile ==
    /\ pc = "packfile"
    /\ \E cs \in SUBSET commitsLeft, ts \in SUBSET tablesLeft :
          /\ cs \cup ts = {} => commitsLeft \cup tablesLeft = {}
          /\ cs \cup ts \subseteq store
          /\ commitsLeft' = commitsLeft \ cs
          /\ tablesLeft' = tablesLeft \ ts
          /\ got' = got \cup cs \cup ts
          /\ Finish(IF SendDone(cs, ts) THEN "nil" ELSE "sendPackfile")
    /\ UNCHANGED <<store, finderVars, tableVars>>

\* An object was pruned or the client is gone.
WriteError ==
    /\ pc = "packfile"
    /\ Panic
    /\ UNCHANGED <<store, finderVars, tableVars, senderVars>>

\* External: refs are deleted and a prune removes what they reached.
Vanish ==
    /\ \E o \in store : store' = store \ {o}
    /\ UNCHANGED <<live, state, pc, finderVars, tableVars, senderVars>>

Next ==
    \/ NewSession \/ Resume \/ Expire \/ UnsupportedMediaType \/ BadBody
    \/ RefuseWants \/ KeepNegotiating \/ FindTables \/ FindError
    \/ NegotiateTables \/ OfferTables \/ StartSending \/ TablesError
    \/ ContinueSending \/ WritePackfile \/ WriteError
    \/ Vanish

Spec == Init /\ [][Next]_vars

-----------------------------------------------------------------------------
(* Properties *)

\* The last packfile completes the pull: the client then has every commit it
\* wanted, with its history, and every table of these within the depth that
\* it did not say it had, by a TableACK or by naming a commit with that table
\* among its haves, however many rounds, batches and packfiles it took
\* and whatever was pruned in between.
PullIsComplete ==
    (state = "nil" /\ got # {}) =>
        /\ AncestorsOf(wants) \subseteq got \cup ClientHas
        /\ {TableOf[c] : c \in AncestorsOf(wants) \ (Deep \cup ClientHas)}
              \subseteq got \cup struck

\* Nothing is sent before it was offered, so that the client had the chance to
\* strike it.  (sendTableHaves)
OfferedBeforeSent == (got \cup tablesLeft) \cap Table \subseteq offered

\* Every round of table negotiation offers new tables: a client that keeps
\* answering gets to the packfiles.  (sendTableHaves, the loop over batches)
EveryRoundOffersMore ==
    [][(pc = "tables" /\ pc' = "idle" /\ live')
          => /\ offered' # offered
             /\ candidates' \cap offered' = {}]_vars

\* Every session is a pull as Pull promises it: all strikes come before the
\* first packfile and are respected, no object is sent twice, and the end is
\* only announced when nothing is missing.  (findClosedSets to sendPackfile)
Promise == INSTANCE Pull WITH done <- state = "nil" /\ got # {}
ImplementsPull == Promise!Spec
=============================================================================
