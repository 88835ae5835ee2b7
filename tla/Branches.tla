------------------------------ MODULE Branches ------------------------------
(***************************************************************************)
(* Commits and transactions over HTTP: POST /commits ingests a table, reads *)
(* the head of the branch, saves a commit and moves the branch or a ref of  *)
(* a transaction; the transaction endpoints create, commit and discard; GC  *)
(* drops old transactions and prunes what no ref reaches.  Requests run     *)
(* concurrently and share nothing but the stores, which they do not lock.   *)
(*                                                                         *)
(* Sources: pkg/server/commit_handler.go, create_transaction_handler.go,   *)
(* update_transaction_handler.go, get_transaction_handler.go,              *)
(* gc_handler.go.  The stores and the transaction and prune packages belong *)
(* to github.com/wrgl/wrgl: each call into them is one step here.  Requests *)
(* refused before their first write change nothing and are no action.      *)
(***************************************************************************)
EXTENDS FiniteSets

CONSTANTS
    Branch,      \* branch names
    Commit,      \* sums of commits yet to be made
    Table,       \* sums of the tables clients upload
    Tid,         \* transaction ids
    Handler,     \* goroutines serving requests at the same time
    None,        \* the nil sum, an absent field
    ReadErrors,  \* the ref store may fail to read a branch
    GCPolicy     \* when POST /gc may prune: see PruneAllowed

ASSUME NoneAssumption ==
    None \notin Branch \cup Commit \cup Table \cup Tid \cup {"inProgress", "committed"}
ASSUME ReadErrorsAssumption == ReadErrors \in BOOLEAN
ASSUME GCPolicyAssumption == GCPolicy \in {"betweenWrites", "anytime"}

VARIABLES
    head,       \* refs/heads/<branch>
    tx,         \* status of each transaction, "absent" when there is none
    txRef,      \* refs/txs/<tid>/<branch>
    commits,    \* commits present in the objects database
    tables,     \* tables present in the objects database
    tableOf,    \* Commit.Table, None for a sum nobody has made yet
    parentOf,   \* Commit.Parents, at most one
    pc,         \* where each handler is
    req,        \* what its request asks for
    parent,     \* the head it has read
    new,        \* the commit it has saved
    todo,       \* refs of the transaction it commits, those still to apply
    moved       \* commits it has moved branches to for the transaction

\* History, which properties speak of and no action reads.
VARIABLES
    announced,  \* commits in an event that a Flush covers
    silent,     \* commits of transaction.Commits that then failed
    acked,      \* commits to a branch that a response confirmed
    misread,    \* branches whose head a handler failed to read
    racedHead,  \* branches that moved between the read and the write of another
    racedTx     \* transactions that changed while another relied on them

storeVars == <<head, tx, txRef, commits, tables, tableOf, parentOf>>
outVars == <<announced, silent, acked>>
raceVars == <<misread, racedHead, racedTx>>
historyVars == <<outVars, raceVars>>
txVars == <<todo, moved>>
handlerVars == <<pc, req, parent, new, txVars>>
vars == <<storeVars, historyVars, handlerVars>>

Sum == Commit \cup {None}
Status == {"inProgress", "committed"}
NoRequest == [branch |-> None, table |-> None, tid |-> None, status |-> None]
Request == [branch : Branch \cup {None}, table : Table \cup {None},
            tid : Tid \cup {None}, status : Status \cup {None}]
Labels == {"idle", "ingest", "read", "save", "ref", "respond", "newTx", "txCommit", "prune"}

TypeOK ==
    /\ head \in [Branch -> Sum]
    /\ tx \in [Tid -> Status \cup {"absent"}]
    /\ txRef \in [Tid -> [Branch -> Sum]]
    /\ commits \subseteq Commit
    /\ tables \subseteq Table
    /\ tableOf \in [Commit -> Table \cup {None}]
    /\ parentOf \in [Commit -> Sum]
    /\ pc \in [Handler -> Labels]
    /\ req \in [Handler -> Request]
    /\ parent \in [Handler -> Sum]
    /\ new \in [Handler -> Sum]
    /\ todo \in [Handler -> [Branch -> Sum]]
    /\ moved \in [Handler -> SUBSET Commit]
    /\ announced \subseteq Commit /\ silent \subseteq Commit
    /\ acked \subseteq [commit : Commit, branch : Branch]
    /\ misread \subseteq Branch /\ racedHead \subseteq Branch /\ racedTx \subseteq Tid

-----------------------------------------------------------------------------
(* Helpers *)

NoRefs == [b \in Branch |-> None]
Roots == {head[b] : b \in Branch} \cup {txRef[x][b] : x \in Tid, b \in Branch}

\* The commits reached from some sums through parents: the least set that has
\* the sums and is closed.
Closed(S) == \A c \in S : parentOf[c] # None => parentOf[c] \in S
ReachableFrom(sums) ==
    {c \in Commit : \A S \in SUBSET Commit : (sums \subseteq S /\ Closed(S)) => c \in S}
Reachable == ReachableFrom(Roots \ {None})

Fresh == {c \in Commit : tableOf[c] = None}

Goto(h, label) == pc' = [pc EXCEPT ![h] = label]

EndRequest(h) ==
    /\ Goto(h, "idle")
    /\ req' = [req EXCEPT ![h] = NoRequest]
    /\ parent' = [parent EXCEPT ![h] = None]
    /\ new' = [new EXCEPT ![h] = None]
    /\ todo' = [todo EXCEPT ![h] = NoRefs]
    /\ moved' = [moved EXCEPT ![h] = {}]

\* Between the moment it saves its table and the moment a ref reaches its
\* commit, a handler's objects are garbage to Prune.
Writing(h) == pc[h] \in {"read", "save", "ref"}
PruneAllowed == GCPolicy = "anytime" \/ \A h \in Handler : ~Writing(h)

\* What a handler has read and is going to act on: the head of the branch it
\* commits to; that its transaction is there, or that the id is free.
ReliesOnHead(k, b) ==
    pc[k] \in {"save", "ref"} /\ req[k].branch = b /\ req[k].tid = None
ReliesOnTx(k, x) ==
    pc[k] \in {"ingest", "read", "save", "ref", "newTx"} /\ req[k].tid = x

\* The step of h changes what another handler relies on.
NoteRaces(h) ==
    /\ racedHead' = racedHead \cup
          {b \in Branch : head'[b] # head[b] /\ \E k \in Handler \ {h} : ReliesOnHead(k, b)}
    /\ racedTx' = racedTx \cup
          {x \in Tid : tx'[x] # tx[x] /\ \E k \in Handler \ {h} : ReliesOnTx(k, x)}
    /\ UNCHANGED misread

Init ==
    /\ head = NoRefs
    /\ tx = [x \in Tid |-> "absent"]
    /\ txRef = [x \in Tid |-> NoRefs]
    /\ commits = {}
    /\ tables = {}
    /\ tableOf = [c \in Commit |-> None]
    /\ parentOf = [c \in Commit |-> None]
    /\ announced = {} /\ silent = {} /\ acked = {}
    /\ misread = {} /\ racedHead = {} /\ racedTx = {}
    /\ pc = [h \in Handler |-> "idle"]
    /\ req = [h \in Handler |-> NoRequest]
    /\ parent = [h \in Handler |-> None]
    /\ new = [h \in Handler |-> None]
    /\ todo = [h \in Handler |-> NoRefs]
    /\ moved = [h \in Handler |-> {}]

-----------------------------------------------------------------------------
(* POST /commits *)

\* Mutant: the transaction is not looked up.
BeginCommitAnyTx(h) ==
    /\ pc[h] = "idle"
    /\ \E b \in Branch, t \in Table, x \in Tid \cup {None} :
          req' = [req EXCEPT ![h] = [NoRequest EXCEPT !.branch = b, !.table = t, !.tid = x]]
    /\ Goto(h, "ingest")
    /\ UNCHANGED <<storeVars, historyVars, parent, new, txVars>>

\* The form is valid and its transaction, if it names one, exists.
BeginCommit(h) ==
    /\ pc[h] = "idle"
    /\ \E b \in Branch, t \in Table, x \in {y \in Tid : tx[y] # "absent"} \cup {None} :
          req' = [req EXCEPT ![h] = [NoRequest EXCEPT !.branch = b, !.table = t, !.tid = x]]
    /\ Goto(h, "ingest")
    /\ UNCHANGED <<storeVars, historyVars, parent, new, txVars>>

IngestTable(h) ==
    /\ pc[h] = "ingest"
    /\ tables' = tables \cup {req[h].table}
    /\ Goto(h, "read")
    /\ UNCHANGED <<head, tx, txRef, commits, tableOf, parentOf, historyVars,
                   req, parent, new, txVars>>

\* Mutant: the new commit does not get the head as its parent.
GetHeadIgnored(h) ==
    /\ pc[h] = "read"
    /\ Goto(h, "save")
    /\ UNCHANGED <<storeVars, historyVars, req, parent, new, txVars>>

\* The head of the branch, in a transaction too; an error of the store is
\* taken for an absent branch.
GetHead(h) ==
    /\ pc[h] = "read"
    /\ \/ parent' = [parent EXCEPT ![h] = head[req[h].branch]] /\ UNCHANGED misread
       \/ ReadErrors /\ UNCHANGED parent /\ misread' = misread \cup {req[h].branch}
    /\ Goto(h, "save")
    /\ UNCHANGED <<storeVars, outVars, racedHead, racedTx, req, new, txVars>>

\* Mutant: an error of SaveCommit is ignored.
SaveCommitUnchecked(h) ==
    /\ pc[h] = "save"
    /\ \E c \in Fresh :
          /\ commits' \in {commits, commits \cup {c}}
          /\ tableOf' = [tableOf EXCEPT ![c] = req[h].table]
          /\ parentOf' = [parentOf EXCEPT ![c] = parent[h]]
          /\ new' = [new EXCEPT ![h] = c]
    /\ Goto(h, "ref")
    /\ UNCHANGED <<head, tx, txRef, tables, historyVars, req, parent, txVars>>

\* The commit carries its time, so its sum is new.
SaveCommit(h) ==
    /\ pc[h] = "save"
    /\ \E c \in Fresh :
          /\ commits' = commits \cup {c}
          /\ tableOf' = [tableOf EXCEPT ![c] = req[h].table]
          /\ parentOf' = [parentOf EXCEPT ![c] = parent[h]]
          /\ new' = [new EXCEPT ![h] = c]
    /\ Goto(h, "ref")
    /\ UNCHANGED <<head, tx, txRef, tables, historyVars, req, parent, txVars>>

\* Whatever became of the transaction since it was looked up.
SaveTransactionRef(h) ==
    /\ pc[h] = "ref"
    /\ req[h].tid # None
    /\ txRef' = [txRef EXCEPT ![req[h].tid][req[h].branch] = new[h]]
    /\ Goto(h, "respond")
    /\ UNCHANGED <<head, tx, commits, tables, tableOf, parentOf, historyVars,
                   req, parent, new, txVars>>

\* Whatever the branch holds by now.
CommitHead(h) ==
    /\ pc[h] = "ref"
    /\ req[h].tid = None
    /\ head' = [head EXCEPT ![req[h].branch] = new[h]]
    /\ Goto(h, "respond")
    /\ UNCHANGED <<tx, txRef, commits, tables, tableOf, parentOf, outVars, req,
                   parent, new, txVars>>
    /\ NoteRaces(h)

Announce(h) ==
    announced' = IF req[h].tid = None THEN announced \cup {new[h]} ELSE announced

Respond(h) ==
    /\ pc[h] = "respond"
    /\ acked' = IF req[h].tid = None
                THEN acked \cup {[commit |-> new[h], branch |-> req[h].branch]}
                ELSE acked
    /\ Announce(h)
    /\ EndRequest(h)
    /\ UNCHANGED <<storeVars, silent, raceVars>>

\* Mutant: Flush is called after the answer instead of being deferred.
RespondErrorNoFlush(h) ==
    /\ pc[h] = "respond"
    /\ EndRequest(h)
    /\ UNCHANGED <<storeVars, historyVars>>

\* postCommit or writing the answer panics; the deferred Flush runs.
RespondError(h) ==
    /\ pc[h] = "respond"
    /\ Announce(h)
    /\ EndRequest(h)
    /\ UNCHANGED <<storeVars, silent, acked, raceVars>>

\* A call of the stores fails: the handler panics or answers with an error and
\* leaves what it has saved so far.
StoreError(h) ==
    /\ pc[h] \in {"ingest", "save", "ref", "newTx", "prune"}
    /\ EndRequest(h)
    /\ UNCHANGED <<storeVars, historyVars>>

-----------------------------------------------------------------------------
(* POST /transactions *)

\* uuid.New: an id nothing knows.
NewIds ==
    {x \in Tid : tx[x] = "absent" /\ txRef[x] = NoRefs /\ \A k \in Handler : req[k].tid # x}

\* No payload: a new transaction with a new id.
CreateTransaction(h) ==
    /\ pc[h] = "idle"
    /\ \E x \in NewIds : tx' = [tx EXCEPT ![x] = "inProgress"]
    /\ UNCHANGED <<head, txRef, commits, tables, tableOf, parentOf, outVars,
                   handlerVars>>
    /\ NoteRaces(h)

\* Mutant: any status is accepted.
CheckNewTransactionAnyStatus(h) ==
    /\ pc[h] = "idle"
    /\ \E x \in {y \in Tid : tx[y] = "absent"}, st \in Status \cup {"absent", "aborted"} :
          req' = [req EXCEPT ![h] = [NoRequest EXCEPT !.tid = x, !.status = st]]
    /\ Goto(h, "newTx")
    /\ UNCHANGED <<storeVars, historyVars, parent, new, txVars>>

\* Mutant: the id may be taken.
CheckNewTransactionAnyId(h) ==
    /\ pc[h] = "idle"
    /\ \E x \in Tid, st \in Status :
          req' = [req EXCEPT ![h] = [NoRequest EXCEPT !.tid = x, !.status = st]]
    /\ Goto(h, "newTx")
    /\ UNCHANGED <<storeVars, historyVars, parent, new, txVars>>

\* A payload brings its id, which must be free, and its status.
CheckNewTransaction(h) ==
    /\ pc[h] = "idle"
    /\ \E x \in {y \in Tid : tx[y] = "absent"}, st \in Status :
          req' = [req EXCEPT ![h] = [NoRequest EXCEPT !.tid = x, !.status = st]]
    /\ Goto(h, "newTx")
    /\ UNCHANGED <<storeVars, historyVars, parent, new, txVars>>

\* Should the id be taken by now, the store may also refuse: StoreError.
NewTransaction(h) ==
    /\ pc[h] = "newTx"
    /\ tx' = [tx EXCEPT ![req[h].tid] = req[h].status]
    /\ EndRequest(h)
    /\ UNCHANGED <<head, txRef, commits, tables, tableOf, parentOf, outVars>>
    /\ NoteRaces(h)

-----------------------------------------------------------------------------
(* POST /transactions/{id} *)

\* The transaction is there; transaction.Commit reads its refs.
BeginCommitTransaction(h, x) ==
    /\ pc[h] = "idle"
    /\ tx[x] # "absent"
    /\ req' = [req EXCEPT ![h] = [NoRequest EXCEPT !.tid = x]]
    /\ todo' = [todo EXCEPT ![h] = txRef[x]]
    /\ Goto(h, "txCommit")
    /\ UNCHANGED <<storeVars, historyVars, parent, new, moved>>

\* External: transaction.Commit takes the branches in any order, one step for
\* each: a commit of its own, with the same table and on top of the head.
CommitTxBranch(h) ==
    /\ pc[h] = "txCommit"
    /\ \E b \in Branch, c \in Fresh :
          /\ todo[h][b] \in commits
          /\ commits' = commits \cup {c}
          /\ tableOf' = [tableOf EXCEPT ![c] = tableOf[todo[h][b]]]
          /\ parentOf' = [parentOf EXCEPT ![c] = head[b]]
          /\ head' = [head EXCEPT ![b] = c]
          /\ todo' = [todo EXCEPT ![h][b] = None]
          /\ moved' = [moved EXCEPT ![h] = moved[h] \cup {c}]
    /\ UNCHANGED <<tx, txRef, tables, outVars, pc, req, parent, new>>
    /\ NoteRaces(h)

\* It marks the transaction and returns; one event has all its commits.
FinishCommitTransaction(h) ==
    /\ pc[h] = "txCommit"
    /\ todo[h] = NoRefs
    /\ tx' = [tx EXCEPT ![req[h].tid] = "committed"]
    /\ announced' = announced \cup moved[h]
    /\ EndRequest(h)
    /\ UNCHANGED <<head, txRef, commits, tables, tableOf, parentOf, silent, acked>>
    /\ NoteRaces(h)

\* It fails anywhere, on a commit that was pruned say: the handler panics
\* before it has a sender, and the branches moved so far stay moved.
CommitTransactionError(h) ==
    /\ pc[h] = "txCommit"
    /\ silent' = silent \cup moved[h]
    /\ EndRequest(h)
    /\ UNCHANGED <<storeVars, announced, acked, raceVars>>

\* External: transaction.Discard.
DiscardTransaction(h, x) ==
    /\ pc[h] = "idle"
    /\ tx[x] # "absent"
    /\ tx' = [tx EXCEPT ![x] = "absent"]
    /\ txRef' = [txRef EXCEPT ![x] = NoRefs]
    /\ UNCHANGED <<head, commits, tables, tableOf, parentOf, outVars, handlerVars>>
    /\ NoteRaces(h)

-----------------------------------------------------------------------------
(* POST /gc *)

\* External: transaction.GarbageCollect drops transactions in progress that are
\* older than the configured time to live, with their refs.
CollectTransactions(h) ==
    /\ pc[h] = "idle"
    /\ \E old \in SUBSET {x \in Tid : tx[x] = "inProgress"} :
          /\ tx' = [x \in Tid |-> IF x \in old THEN "absent" ELSE tx[x]]
          /\ txRef' = [x \in Tid |-> IF x \in old THEN NoRefs ELSE txRef[x]]
    /\ Goto(h, "prune")
    /\ UNCHANGED <<head, commits, tables, tableOf, parentOf, outVars, req,
                   parent, new, txVars>>
    /\ NoteRaces(h)

\* External: prune.Prune keeps what a ref reaches.
Prune(h) ==
    /\ pc[h] = "prune"
    /\ PruneAllowed
    /\ commits' = commits \cap Reachable
    /\ tables' = tables \cap {tableOf[c] : c \in commits'}
    /\ EndRequest(h)
    /\ UNCHANGED <<head, tx, txRef, tableOf, parentOf, historyVars>>

HandlerStep(h) ==
    \/ BeginCommit(h) \/ IngestTable(h) \/ GetHead(h) \/ SaveCommit(h)
    \/ SaveTransactionRef(h) \/ CommitHead(h) \/ Respond(h) \/ RespondError(h)
    \/ StoreError(h)
    \/ CreateTransaction(h) \/ CheckNewTransaction(h) \/ NewTransaction(h)
    \/ \E x \in Tid : BeginCommitTransaction(h, x) \/ DiscardTransaction(h, x)
    \/ CommitTxBranch(h) \/ FinishCommitTransaction(h) \/ CommitTransactionError(h)
    \/ CollectTransactions(h) \/ Prune(h)

Next == \E h \in Handler : HandlerStep(h)

Spec == Init /\ [][Next]_vars

-----------------------------------------------------------------------------
(* Properties *)

\* Every commit of the database has its table and its parent there, and every
\* branch and transaction names a commit of the database, whatever handlers
\* were interrupted and collections ran between their requests.
\* (handleCommit, handleGC)
DatabaseClosed ==
    /\ \A c \in commits : tableOf[c] \in tables
    /\ Closed(commits)
    /\ Roots \ {None} \subseteq commits

\* No branch moves silently but in one case: the commit a branch holds is in a
\* flushed event, or its handler is still about to flush, on the error paths
\* after CommitHead too (handleCommit, commit_handler.go:133-152); or a
\* transaction.Commit made it and then failed on another branch or at its end,
\* where handleUpdateTransaction panics before it has a sender
\* (update_transaction_handler.go:49-52).
EveryHeadAnnounced ==
    \A b \in Branch : head[b] # None =>
        \/ head[b] \in announced \cup silent
        \/ \E h \in Handler : pc[h] = "respond" /\ new[h] = head[b]
        \/ \E h \in Handler : pc[h] = "txCommit" /\ head[b] \in moved[h]

\* A branch only grows: it moves to a commit whose parent is the commit the
\* branch held.  (handleCommit, commit_handler.go:115-135)
HeadExtendsHead ==
    [][\A b \in Branch : head'[b] # head[b] => parentOf'[head'[b]] = head[b]]_vars

\* Branches that no commit or transaction of another request moved between the
\* read of the head and the write, and whose head was never misread.
Undisturbed == Branch \ (racedHead \cup misread)

\* Nothing but these two disturbances lets a branch drop its head: whatever else
\* runs beside it, store errors, other branches, transactions that fail half-way
\* and collections, it only moves to a commit on top of its head.
\* (handleCommit, commit_handler.go:115-135; transaction.Commit)
UndisturbedBranchesGrow ==
    [][\A b \in Undisturbed : head'[b] # head[b] => parentOf'[head'[b]] = head[b]]_vars

\* A commit that a client was told of stays in the history of its branch as long
\* as that is undisturbed.  (handleCommit, commit_handler.go:133-164)
AckedCommitsStay ==
    \A a \in acked : a.branch \in Undisturbed =>
        a.commit \in ReachableFrom({head[a.branch]} \ {None})

\* No ref of a transaction outlives it: a commit request looks its transaction
\* up before it adds to it.  (handleCommit, commit_handler.go:85-88)
TxRefsHaveTx ==
    \A x \in Tid : tx[x] = "absent" => txRef[x] = NoRefs

\* No ref of a transaction outlives it, unless the transaction changed between
\* the look-up of a commit request and its write: no other order of commits,
\* uploads, discards and collections leaves one.  (handleCommit, lines 85-131)
UnracedTxRefsHaveTx ==
    \A x \in Tid \ racedTx : tx[x] = "absent" => txRef[x] = NoRefs

\* A committed transaction is never in progress again, unless it was created
\* between the look-up of another upload with its id and its write.
\* (handleCreateTransaction, lines 32-52)
UnracedCommittedStays ==
    [][\A x \in Tid \ racedTx : tx[x] = "committed" => tx'[x] # "inProgress"]_vars
=============================================================================
