--------------------------- MODULE BranchesProofs ---------------------------
(***************************************************************************)
(* Proofs about Branches for every set of branches, commits, tables,       *)
(* transactions and handlers.  The invariants come from BranchesInv; each  *)
(* is proved to survive every action, given the ones before it.            *)
(***************************************************************************)
EXTENDS BranchesInv, TLAPS

-----------------------------------------------------------------------------
(* Facts about the operators and the largest action *)

\* What the refs reach contains what they name and the parents of its members.
LEMMA ReachableFacts ==
    ASSUME TypeOK
    PROVE  /\ Reachable \subseteq Commit
           /\ Roots \ {None} \subseteq Reachable
           /\ Closed(Reachable)
<1>1. Roots \ {None} \subseteq Commit
  BY DEF TypeOK, Roots, Sum
<1>2. Reachable \subseteq Commit
  BY DEF Reachable, ReachableFrom
<1>3. Roots \ {None} \subseteq Reachable
  BY <1>1 DEF Reachable, ReachableFrom
<1>4. ASSUME NEW c \in Reachable, parentOf[c] # None PROVE parentOf[c] \in Reachable
  <2>1. parentOf[c] \in Commit
    BY <1>2, <1>4 DEF TypeOK, Sum
  <2>2. ASSUME NEW S \in SUBSET Commit, Roots \ {None} \subseteq S, Closed(S)
        PROVE  parentOf[c] \in S
    <3>1. c \in S
      BY <2>2 DEF Reachable, ReachableFrom
    <3> QED
      BY <3>1, <2>2, <1>4 DEF Closed
  <2> QED
    BY <2>1, <2>2 DEF Reachable, ReachableFrom
<1> QED
  BY <1>2, <1>3, <1>4 DEF Closed

-----------------------------------------------------------------------------
(* The invariants, action by action *)

\* Types, and what a handler holds at each place of the code.
LEMMA RequestStep ==
    ASSUME TypeOK, RequestInv, [Next]_vars
    PROVE  TypeOK' /\ RequestInv'
<1> USE NoneAssumption DEF TypeOK, RequestInv, Sum, Request, NoRequest, Status, Labels,
     NoRefs, NoteRaces, storeVars, historyVars, outVars, raceVars, txVars, handlerVars
<1>1. ASSUME NEW h \in Handler, BeginCommit(h) PROVE TypeOK' /\ RequestInv'
  <2>1. PICK b \in Branch, t \in Table, y \in {z \in Tid : tx[z] # "absent"} \cup {None} :
            req' = [req EXCEPT ![h] = [NoRequest EXCEPT !.branch = b, !.table = t, !.tid = y]]
    BY <1>1, Zenon DEF BeginCommit
  <2> DEFINE r == [NoRequest EXCEPT !.branch = b, !.table = t, !.tid = y]
  <2>2. r \in Request /\ r.branch # None /\ r.table # None
    OBVIOUS
  <2> HIDE DEF r
  <2> QED
    BY <1>1, <2>1, <2>2 DEF BeginCommit, Goto, r
<1>2. ASSUME NEW h \in Handler, IngestTable(h) PROVE TypeOK' /\ RequestInv'
  BY <1>2 DEF IngestTable, Goto
<1>3. ASSUME NEW h \in Handler, GetHead(h) PROVE TypeOK' /\ RequestInv'
  <2>1. req[h].branch \in Branch /\ head[req[h].branch] \in Sum
    BY <1>3 DEF GetHead
  <2>2. parent' \in [Handler -> Sum] /\ misread' \subseteq Branch
    BY <1>3, <2>1 DEF GetHead
  <2>3. TypeOK'
    BY <1>3, <2>2 DEF GetHead, Goto
  <2>4. RequestInv'
    BY <1>3 DEF GetHead, Goto
  <2> QED
    BY <2>3, <2>4
<1>4. ASSUME NEW h \in Handler, SaveCommit(h) PROVE TypeOK' /\ RequestInv'
  <2>1. PICK c \in Commit :
            /\ commits' = commits \cup {c}
            /\ tableOf' = [tableOf EXCEPT ![c] = req[h].table]
            /\ parentOf' = [parentOf EXCEPT ![c] = parent[h]]
            /\ new' = [new EXCEPT ![h] = c]
    BY <1>4 DEF SaveCommit, Fresh
  <2>2. req[h].table \in Table /\ c # None
    BY <1>4 DEF SaveCommit
  <2>3. TypeOK'
    BY <1>4, <2>1, <2>2 DEF SaveCommit, Goto
  <2>4. RequestInv'
    BY <1>4, <2>1, <2>2 DEF SaveCommit, Goto
  <2> QED
    BY <2>3, <2>4
<1>5. ASSUME NEW h \in Handler, SaveTransactionRef(h) PROVE TypeOK' /\ RequestInv'
  BY <1>5 DEF SaveTransactionRef, Goto
<1>6. ASSUME NEW h \in Handler, CommitHead(h) PROVE TypeOK' /\ RequestInv'
  BY <1>6 DEF CommitHead, Goto
<1>7. ASSUME NEW h \in Handler, Respond(h) PROVE TypeOK' /\ RequestInv'
  BY <1>7 DEF Respond, Goto, EndRequest, Announce
<1>8. ASSUME NEW h \in Handler, RespondError(h) PROVE TypeOK' /\ RequestInv'
  BY <1>8 DEF RespondError, Goto, EndRequest, Announce
<1>9. ASSUME NEW h \in Handler, StoreError(h) PROVE TypeOK' /\ RequestInv'
  BY <1>9 DEF StoreError, Goto, EndRequest
<1>10. ASSUME NEW h \in Handler, CreateTransaction(h) PROVE TypeOK' /\ RequestInv'
  <2>1. tx' \in [Tid -> Status \cup {"absent"}]
    BY <1>10 DEF CreateTransaction, NewIds
  <2>2. racedHead' \subseteq Branch /\ racedTx' \subseteq Tid
    BY <1>10 DEF CreateTransaction
  <2> QED
    BY <1>10, <2>1, <2>2 DEF CreateTransaction
<1>11. ASSUME NEW h \in Handler, CheckNewTransaction(h) PROVE TypeOK' /\ RequestInv'
  <2>1. PICK y \in Tid, st \in Status :
            req' = [req EXCEPT ![h] = [NoRequest EXCEPT !.tid = y, !.status = st]]
    BY <1>11 DEF CheckNewTransaction
  <2> DEFINE r == [NoRequest EXCEPT !.tid = y, !.status = st]
  <2>2. r \in Request /\ r.tid # None /\ r.status # None
    OBVIOUS
  <2> HIDE DEF r
  <2> QED
    BY <1>11, <2>1, <2>2 DEF CheckNewTransaction, Goto, r
<1>12. ASSUME NEW h \in Handler, NewTransaction(h) PROVE TypeOK' /\ RequestInv'
  BY <1>12 DEF NewTransaction, Goto, EndRequest
<1>13. ASSUME NEW h \in Handler, NEW x \in Tid, BeginCommitTransaction(h, x)
       PROVE  TypeOK' /\ RequestInv'
  <2> DEFINE r == [NoRequest EXCEPT !.tid = x]
  <2>1. r \in Request /\ r.tid # None /\ req' = [req EXCEPT ![h] = r]
    BY <1>13 DEF BeginCommitTransaction
  <2> HIDE DEF r
  <2> QED
    BY <1>13, <2>1 DEF BeginCommitTransaction, Goto
<1>14. ASSUME NEW h \in Handler, CommitTxBranch(h) PROVE TypeOK' /\ RequestInv'
  <2>1. PICK b \in Branch, c \in Fresh :
            /\ todo[h][b] \in commits
            /\ commits' = commits \cup {c}
            /\ tableOf' = [tableOf EXCEPT ![c] = tableOf[todo[h][b]]]
            /\ parentOf' = [parentOf EXCEPT ![c] = head[b]]
            /\ head' = [head EXCEPT ![b] = c]
            /\ todo' = [todo EXCEPT ![h][b] = None]
            /\ moved' = [moved EXCEPT ![h] = moved[h] \cup {c}]
    BY <1>14 DEF CommitTxBranch
  <2>2. c \in Commit /\ tableOf[todo[h][b]] \in Table \cup {None} /\ head[b] \in Sum
    BY <2>1 DEF Fresh
  <2>3. TypeOK'
    BY <1>14, <2>1, <2>2 DEF CommitTxBranch
  <2>4. RequestInv'
    BY <1>14, <2>1 DEF CommitTxBranch
  <2> QED
    BY <2>3, <2>4
<1>15. ASSUME NEW h \in Handler, FinishCommitTransaction(h) PROVE TypeOK' /\ RequestInv'
  BY <1>15 DEF FinishCommitTransaction, Goto, EndRequest
<1>16. ASSUME NEW h \in Handler, CommitTransactionError(h) PROVE TypeOK' /\ RequestInv'
  BY <1>16 DEF CommitTransactionError, Goto, EndRequest
<1>17. ASSUME NEW h \in Handler, NEW x \in Tid, DiscardTransaction(h, x) PROVE TypeOK' /\
     RequestInv'
  BY <1>17 DEF DiscardTransaction, Goto
<1>18. ASSUME NEW h \in Handler, CollectTransactions(h) PROVE TypeOK' /\ RequestInv'
  BY <1>18 DEF CollectTransactions, Goto
<1>19. ASSUME NEW h \in Handler, Prune(h) PROVE TypeOK' /\ RequestInv'
  BY <1>19 DEF Prune, Goto, EndRequest
<1>20. CASE UNCHANGED vars
  BY <1>20 DEF vars
<1> QED
  BY <1>1, <1>2, <1>3, <1>4, <1>5, <1>6, <1>7, <1>8, <1>9, <1>10, <1>11, <1>12, <1>13,
     <1>14, <1>15, <1>16, <1>17, <1>18, <1>19, <1>20 DEF Next, HandlerStep

\* Stored commits were made, and what was not made has no parent.
LEMMA MadeStep ==
    ASSUME TypeOK, RequestInv, MadeInv, [Next]_vars
    PROVE  MadeInv'
<1> USE NoneAssumption DEF TypeOK, RequestInv, MadeInv, Sum, storeVars, historyVars, outVars,
        raceVars, txVars, handlerVars
<1>1. ASSUME NEW h \in Handler, BeginCommit(h) PROVE MadeInv'
  BY <1>1 DEF BeginCommit, Goto
<1>2. ASSUME NEW h \in Handler, IngestTable(h) PROVE MadeInv'
  BY <1>2 DEF IngestTable, Goto
<1>3. ASSUME NEW h \in Handler, GetHead(h) PROVE MadeInv'
  BY <1>3 DEF GetHead, Goto
<1>4. ASSUME NEW h \in Handler, SaveCommit(h) PROVE MadeInv'
  <2>1. PICK c \in Fresh :
            /\ commits' = commits \cup {c}
            /\ tableOf' = [tableOf EXCEPT ![c] = req[h].table]
            /\ parentOf' = [parentOf EXCEPT ![c] = parent[h]]
            /\ new' = [new EXCEPT ![h] = c]
    BY <1>4 DEF SaveCommit
  <2>2. req[h].table # None /\ c \in Commit /\ tableOf[c] = None
    BY <1>4 DEF SaveCommit, Fresh
  <2>3. ASSUME NEW k \in Handler, pc'[k] \in {"ref", "respond"} PROVE tableOf'[new'[k]] # None
    BY <1>4, <2>1, <2>2, <2>3 DEF SaveCommit, Goto
  <2> QED
    BY <2>1, <2>2, <2>3
<1>5. ASSUME NEW h \in Handler, SaveTransactionRef(h) PROVE MadeInv'
  BY <1>5 DEF SaveTransactionRef, Goto
<1>6. ASSUME NEW h \in Handler, CommitHead(h) PROVE MadeInv'
  BY <1>6 DEF CommitHead, Goto
<1>7. ASSUME NEW h \in Handler, Respond(h) PROVE MadeInv'
  BY <1>7 DEF Respond, Goto, EndRequest, Announce
<1>8. ASSUME NEW h \in Handler, RespondError(h) PROVE MadeInv'
  BY <1>8 DEF RespondError, Goto, EndRequest, Announce
<1>9. ASSUME NEW h \in Handler, StoreError(h) PROVE MadeInv'
  BY <1>9 DEF StoreError, Goto, EndRequest
<1>10. ASSUME NEW h \in Handler, CreateTransaction(h) PROVE MadeInv'
  BY <1>10 DEF CreateTransaction, Goto
<1>11. ASSUME NEW h \in Handler, CheckNewTransaction(h) PROVE MadeInv'
  BY <1>11 DEF CheckNewTransaction, Goto
<1>12. ASSUME NEW h \in Handler, NewTransaction(h) PROVE MadeInv'
  BY <1>12 DEF NewTransaction, Goto, EndRequest
<1>13. ASSUME NEW h \in Handler, NEW x \in Tid, BeginCommitTransaction(h, x)
       PROVE  MadeInv'
  BY <1>13 DEF BeginCommitTransaction, Goto
<1>14. ASSUME NEW h \in Handler, CommitTxBranch(h) PROVE MadeInv'
  <2>1. PICK b \in Branch, c \in Fresh :
            /\ todo[h][b] \in commits
            /\ commits' = commits \cup {c}
            /\ tableOf' = [tableOf EXCEPT ![c] = tableOf[todo[h][b]]]
            /\ parentOf' = [parentOf EXCEPT ![c] = head[b]]
            /\ head' = [head EXCEPT ![b] = c]
            /\ todo' = [todo EXCEPT ![h][b] = None]
            /\ moved' = [moved EXCEPT ![h] = moved[h] \cup {c}]
    BY <1>14 DEF CommitTxBranch
  <2>2. c \in Commit /\ tableOf[c] = None /\ tableOf[todo[h][b]] # None
    BY <2>1 DEF Fresh
  <2> QED
    BY <1>14, <2>1, <2>2 DEF CommitTxBranch
<1>15. ASSUME NEW h \in Handler, FinishCommitTransaction(h) PROVE MadeInv'
  BY <1>15 DEF FinishCommitTransaction, Goto, EndRequest
<1>16. ASSUME NEW h \in Handler, CommitTransactionError(h) PROVE MadeInv'
  BY <1>16 DEF CommitTransactionError, Goto, EndRequest
<1>17. ASSUME NEW h \in Handler, NEW x \in Tid, DiscardTransaction(h, x) PROVE MadeInv'
  BY <1>17 DEF DiscardTransaction, Goto
<1>18. ASSUME NEW h \in Handler, CollectTransactions(h) PROVE MadeInv'
  BY <1>18 DEF CollectTransactions, Goto
<1>19. ASSUME NEW h \in Handler, Prune(h) PROVE MadeInv'
  BY <1>19 DEF Prune, Goto, EndRequest
<1>20. CASE UNCHANGED vars
  BY <1>20 DEF vars
<1> QED
  BY <1>1, <1>2, <1>3, <1>4, <1>5, <1>6, <1>7, <1>8, <1>9, <1>10, <1>11, <1>12, <1>13,
     <1>14, <1>15, <1>16, <1>17, <1>18, <1>19, <1>20 DEF Next, HandlerStep

\* A head is announced, or a handler is on its way to announce it.
LEMMA HeadStep ==
    ASSUME TypeOK, HeadInv, [Next]_vars
    PROVE  HeadInv'
<1> USE NoneAssumption DEF TypeOK, HeadInv, Sum, storeVars, historyVars, outVars,
        raceVars, txVars, handlerVars
<1>1. ASSUME NEW h \in Handler, BeginCommit(h) PROVE HeadInv'
  BY <1>1 DEF BeginCommit, Goto
<1>2. ASSUME NEW h \in Handler, IngestTable(h) PROVE HeadInv'
  BY <1>2 DEF IngestTable, Goto
<1>3. ASSUME NEW h \in Handler, GetHead(h) PROVE HeadInv'
  BY <1>3 DEF GetHead, Goto
<1>4. ASSUME NEW h \in Handler, SaveCommit(h) PROVE HeadInv'
  BY <1>4 DEF SaveCommit, Goto
<1>5. ASSUME NEW h \in Handler, SaveTransactionRef(h) PROVE HeadInv'
  BY <1>5 DEF SaveTransactionRef, Goto
<1>6. ASSUME NEW h \in Handler, CommitHead(h) PROVE HeadInv'
  BY <1>6 DEF CommitHead, Goto
<1>7. ASSUME NEW h \in Handler, Respond(h) PROVE HeadInv'
  BY <1>7 DEF Respond, Goto, EndRequest, Announce
<1>8. ASSUME NEW h \in Handler, RespondError(h) PROVE HeadInv'
  BY <1>8 DEF RespondError, Goto, EndRequest, Announce
<1>9. ASSUME NEW h \in Handler, StoreError(h) PROVE HeadInv'
  BY <1>9 DEF StoreError, Goto, EndRequest
<1>10. ASSUME NEW h \in Handler, CreateTransaction(h) PROVE HeadInv'
  BY <1>10 DEF CreateTransaction, Goto
<1>11. ASSUME NEW h \in Handler, CheckNewTransaction(h) PROVE HeadInv'
  BY <1>11 DEF CheckNewTransaction, Goto
<1>12. ASSUME NEW h \in Handler, NewTransaction(h) PROVE HeadInv'
  BY <1>12 DEF NewTransaction, Goto, EndRequest
<1>13. ASSUME NEW h \in Handler, NEW x \in Tid, BeginCommitTransaction(h, x)
       PROVE  HeadInv'
  BY <1>13 DEF BeginCommitTransaction, Goto
<1>14. ASSUME NEW h \in Handler, CommitTxBranch(h) PROVE HeadInv'
  <2>1. PICK b \in Branch, c \in Fresh :
            /\ todo[h][b] \in commits
            /\ commits' = commits \cup {c}
            /\ tableOf' = [tableOf EXCEPT ![c] = tableOf[todo[h][b]]]
            /\ parentOf' = [parentOf EXCEPT ![c] = head[b]]
            /\ head' = [head EXCEPT ![b] = c]
            /\ todo' = [todo EXCEPT ![h][b] = None]
            /\ moved' = [moved EXCEPT ![h] = moved[h] \cup {c}]
    BY <1>14 DEF CommitTxBranch
  <2>2. UNCHANGED <<pc, req, new, announced, silent>> /\ pc[h] = "txCommit" /\ c # None
    BY <1>14 DEF CommitTxBranch, Fresh
  <2>3. \A k \in Handler : moved[k] \subseteq moved'[k]
    BY <2>1
  <2>4. ASSUME NEW a \in Branch, head'[a] # None
        PROVE  \/ head'[a] \in announced \cup silent
               \/ \E k \in Handler : pc[k] = "respond" /\ new[k] = head'[a] /\ req[k].tid = None
               \/ \E k \in Handler : pc[k] = "txCommit" /\ head'[a] \in moved'[k]
    <3>1. CASE a = b
      BY <3>1, <2>1, <2>2
    <3>2. CASE a # b
      BY <3>2, <2>1, <2>3, <2>4
    <3> QED
      BY <3>1, <3>2
  <2> QED
    BY <2>2, <2>4
<1>15. ASSUME NEW h \in Handler, FinishCommitTransaction(h) PROVE HeadInv'
  BY <1>15 DEF FinishCommitTransaction, Goto, EndRequest
<1>16. ASSUME NEW h \in Handler, CommitTransactionError(h) PROVE HeadInv'
  BY <1>16 DEF CommitTransactionError, Goto, EndRequest
<1>17. ASSUME NEW h \in Handler, NEW x \in Tid, DiscardTransaction(h, x) PROVE HeadInv'
  BY <1>17 DEF DiscardTransaction, Goto
<1>18. ASSUME NEW h \in Handler, CollectTransactions(h) PROVE HeadInv'
  BY <1>18 DEF CollectTransactions, Goto
<1>19. ASSUME NEW h \in Handler, Prune(h) PROVE HeadInv'
  BY <1>19 DEF Prune, Goto, EndRequest
<1>20. CASE UNCHANGED vars
  BY <1>20 DEF vars
<1> QED
  BY <1>1, <1>2, <1>3, <1>4, <1>5, <1>6, <1>7, <1>8, <1>9, <1>10, <1>11, <1>12, <1>13,
     <1>14, <1>15, <1>16, <1>17, <1>18, <1>19, <1>20 DEF Next, HandlerStep

\* The database stays closed, given that Prune stays out of the write windows.
LEMMA StoreStep ==
    ASSUME TypeOK, RequestInv, StoreInv, GCPolicy = "betweenWrites", [Next]_vars
    PROVE  StoreInv'
<1> USE NoneAssumption DEF TypeOK, RequestInv, StoreInv, WritingInv, DatabaseClosed,
     Closed, Roots, Sum, storeVars, historyVars, outVars, raceVars, txVars, handlerVars
<1>1. ASSUME NEW h \in Handler, BeginCommit(h) PROVE StoreInv'
  BY <1>1 DEF BeginCommit, Goto
<1>2. ASSUME NEW h \in Handler, IngestTable(h) PROVE StoreInv'
  BY <1>2 DEF IngestTable, Goto
<1>3. ASSUME NEW h \in Handler, GetHead(h) PROVE StoreInv'
  <2>1. head[req[h].branch] \in commits \cup {None}
    BY <1>3 DEF GetHead, Request
  <2>2. WritingInv'
    BY <1>3, <2>1 DEF GetHead, Goto
  <2>3. DatabaseClosed'
    BY <1>3 DEF GetHead
  <2> QED
    BY <2>2, <2>3
<1>4. ASSUME NEW h \in Handler, SaveCommit(h) PROVE StoreInv'
  <2>1. PICK c \in Fresh :
            /\ commits' = commits \cup {c}
            /\ tableOf' = [tableOf EXCEPT ![c] = req[h].table]
            /\ parentOf' = [parentOf EXCEPT ![c] = parent[h]]
            /\ new' = [new EXCEPT ![h] = c]
    BY <1>4 DEF SaveCommit
  <2>2. c \in Commit /\ c \notin commits
    BY DEF Fresh
  <2>3. WritingInv'
    BY <1>4, <2>1, <2>2 DEF SaveCommit, Goto
  <2>4. DatabaseClosed'
    BY <1>4, <2>1, <2>2 DEF SaveCommit
  <2> QED
    BY <2>3, <2>4
<1>5. ASSUME NEW h \in Handler, SaveTransactionRef(h) PROVE StoreInv'
  <2>1. Roots' \subseteq Roots \cup {new[h]}
    BY <1>5 DEF SaveTransactionRef
  <2> QED
    BY <1>5, <2>1 DEF SaveTransactionRef, Goto
<1>6. ASSUME NEW h \in Handler, CommitHead(h) PROVE StoreInv'
  <2>1. Roots' \subseteq Roots \cup {new[h]}
    BY <1>6 DEF CommitHead
  <2> QED
    BY <1>6, <2>1 DEF CommitHead, Goto
<1>7. ASSUME NEW h \in Handler, Respond(h) PROVE StoreInv'
  BY <1>7 DEF Respond, Goto, EndRequest, Announce
<1>8. ASSUME NEW h \in Handler, RespondError(h) PROVE StoreInv'
  BY <1>8 DEF RespondError, Goto, EndRequest, Announce
<1>9. ASSUME NEW h \in Handler, StoreError(h) PROVE StoreInv'
  BY <1>9 DEF StoreError, Goto, EndRequest
<1>10. ASSUME NEW h \in Handler, CreateTransaction(h) PROVE StoreInv'
  BY <1>10 DEF CreateTransaction, Goto
<1>11. ASSUME NEW h \in Handler, CheckNewTransaction(h) PROVE StoreInv'
  BY <1>11 DEF CheckNewTransaction, Goto
<1>12. ASSUME NEW h \in Handler, NewTransaction(h) PROVE StoreInv'
  BY <1>12 DEF NewTransaction, Goto, EndRequest
<1>13. ASSUME NEW h \in Handler, NEW x \in Tid, BeginCommitTransaction(h, x)
       PROVE  StoreInv'
  BY <1>13 DEF BeginCommitTransaction, Goto
<1>14. ASSUME NEW h \in Handler, CommitTxBranch(h) PROVE StoreInv'
  <2>1. PICK b \in Branch, c \in Fresh :
            /\ todo[h][b] \in commits
            /\ commits' = commits \cup {c}
            /\ tableOf' = [tableOf EXCEPT ![c] = tableOf[todo[h][b]]]
            /\ parentOf' = [parentOf EXCEPT ![c] = head[b]]
            /\ head' = [head EXCEPT ![b] = c]
            /\ todo' = [todo EXCEPT ![h][b] = None]
            /\ moved' = [moved EXCEPT ![h] = moved[h] \cup {c}]
    BY <1>14 DEF CommitTxBranch
  <2>2. c \in Commit /\ c \notin commits
    BY DEF Fresh
  <2>3. tableOf[todo[h][b]] \in tables /\ head[b] \in commits \cup {None}
    BY <2>1
  <2>4. WritingInv'
    BY <1>14, <2>1, <2>2 DEF CommitTxBranch
  <2>5. \A d \in commits' : tableOf'[d] \in tables
    BY <2>1, <2>2, <2>3
  <2>6. Closed(commits)'
    BY <2>1, <2>2, <2>3
  <2>7. Roots' \subseteq Roots \cup {c}
    BY <1>14, <2>1 DEF CommitTxBranch
  <2>8. (Roots \ {None})' \subseteq commits'
    <3> HIDE DEF Roots
    <3> QED
      BY <2>1, <2>7
  <2> QED
    BY <1>14, <2>4, <2>5, <2>6, <2>8 DEF CommitTxBranch
<1>15. ASSUME NEW h \in Handler, FinishCommitTransaction(h) PROVE StoreInv'
  BY <1>15 DEF FinishCommitTransaction, Goto, EndRequest
<1>16. ASSUME NEW h \in Handler, CommitTransactionError(h) PROVE StoreInv'
  BY <1>16 DEF CommitTransactionError, Goto, EndRequest
<1>17. ASSUME NEW h \in Handler, NEW x \in Tid, DiscardTransaction(h, x) PROVE StoreInv'
  <2>1. Roots' \subseteq Roots \cup {None}
    BY <1>17 DEF DiscardTransaction, NoRefs
  <2> HIDE DEF Roots
  <2>2. (Roots \ {None})' \subseteq commits'
    BY <1>17, <2>1 DEF DiscardTransaction
  <2> QED
    BY <1>17, <2>2 DEF DiscardTransaction, Goto
<1>18. ASSUME NEW h \in Handler, CollectTransactions(h) PROVE StoreInv'
  <2>1. Roots' \subseteq Roots \cup {None}
    BY <1>18 DEF CollectTransactions, NoRefs
  <2> HIDE DEF Roots
  <2>2. (Roots \ {None})' \subseteq commits'
    BY <1>18, <2>1 DEF CollectTransactions
  <2> QED
    BY <1>18, <2>2 DEF CollectTransactions, Goto
<1>19. ASSUME NEW h \in Handler, Prune(h) PROVE StoreInv'
  <2>1. \A k \in Handler : ~Writing(k)
    BY <1>19 DEF Prune, PruneAllowed
  <2>2. commits' = commits \cap Reachable /\ Roots' = Roots
    BY <1>19 DEF Prune
  <2>3. \A c \in commits' : tableOf'[c] \in tables'
    BY <1>19, <2>2 DEF Prune
  <2>4. (Roots \ {None})' \subseteq commits'
    <3> HIDE DEF Roots
    <3> QED
      BY <2>2, ReachableFacts
  <2>5. Closed(commits)'
    BY <1>19, <2>2, ReachableFacts DEF Prune
  <2>6. WritingInv'
    BY <1>19, <2>1 DEF Prune, EndRequest, Goto, Writing
  <2> QED
    BY <2>3, <2>4, <2>5, <2>6
<1>20. CASE UNCHANGED vars
  BY <1>20 DEF vars
<1> QED
  BY <1>1, <1>2, <1>3, <1>4, <1>5, <1>6, <1>7, <1>8, <1>9, <1>10, <1>11, <1>12, <1>13,
     <1>14, <1>15, <1>16, <1>17, <1>18, <1>19, <1>20 DEF Next, HandlerStep

-----------------------------------------------------------------------------
(* What handlers have read holds until they write, but for the races *)

\* A step of one handler leaves the others where they are; when it changes what
\* one of them relies on, that is a race.
LEMMA OthersStep ==
    ASSUME TypeOK, NEW h \in Handler, HandlerStep(h), NEW k \in Handler \ {h}
    PROVE  /\ pc'[k] = pc[k] /\ req'[k] = req[k] /\ parent'[k] = parent[k] /\ new'[k] = new[k]
           /\ \A b \in Branch : ReliesOnHead(k, b) => head'[b] = head[b] \/ b \in racedHead'
           /\ \A x \in Tid : ReliesOnTx(k, x) => tx'[x] = tx[x] \/ x \in racedTx'
<1> USE DEF TypeOK, storeVars, historyVars, outVars, raceVars, txVars, handlerVars, Goto,
     EndRequest
<1>1. pc'[k] = pc[k] /\ req'[k] = req[k] /\ parent'[k] = parent[k] /\ new'[k] = new[k]
  BY DEF HandlerStep, BeginCommit, IngestTable, GetHead, SaveCommit, SaveTransactionRef,
     CommitHead, Respond, RespondError, StoreError, CreateTransaction, CheckNewTransaction,
     NewTransaction, BeginCommitTransaction, CommitTxBranch, FinishCommitTransaction,
     CommitTransactionError, DiscardTransaction, CollectTransactions, Prune
<1>2. (head' = head /\ tx' = tx) \/ NoteRaces(h)
  BY DEF HandlerStep, BeginCommit, IngestTable, GetHead, SaveCommit, SaveTransactionRef,
     CommitHead, Respond, RespondError, StoreError, CreateTransaction, CheckNewTransaction,
     NewTransaction, BeginCommitTransaction, CommitTxBranch, FinishCommitTransaction,
     CommitTransactionError, DiscardTransaction, CollectTransactions, Prune
<1>3. \A b \in Branch : ReliesOnHead(k, b) => head'[b] = head[b] \/ b \in racedHead'
  BY <1>2 DEF NoteRaces
<1>4. \A x \in Tid : ReliesOnTx(k, x) => tx'[x] = tx[x] \/ x \in racedTx'
  BY <1>2 DEF NoteRaces
<1> QED
  BY <1>1, <1>3, <1>4

\* A race stays recorded.
LEMMA RacesKept ==
    ASSUME [Next]_vars
    PROVE  Undisturbed' \subseteq Undisturbed /\ racedTx \subseteq racedTx'
<1>1. ASSUME NEW h \in Handler, HandlerStep(h)
      PROVE  UNCHANGED raceVars \/ NoteRaces(h)
             \/ (UNCHANGED <<racedHead, racedTx>> /\ misread \subseteq misread')
  BY <1>1 DEF HandlerStep, BeginCommit, IngestTable, GetHead, SaveCommit, SaveTransactionRef,
     CommitHead, Respond, RespondError, StoreError, CreateTransaction, CheckNewTransaction,
     NewTransaction, BeginCommitTransaction, CommitTxBranch, FinishCommitTransaction,
     CommitTransactionError, DiscardTransaction, CollectTransactions, Prune, historyVars,
     raceVars
<1>2. racedHead \subseteq racedHead' /\ racedTx \subseteq racedTx' /\ misread \subseteq misread'
  BY <1>1 DEF Next, vars, historyVars, raceVars, NoteRaces
<1> QED
  BY <1>2 DEF Undisturbed

\* Commits are immutable: only what was not made yet gets a parent.
LEMMA ParentsStep ==
    ASSUME TypeOK, [Next]_vars
    PROVE  \A d \in Commit : tableOf[d] # None => parentOf'[d] = parentOf[d]
<1> USE DEF TypeOK, Sum, Fresh
<1>1. ASSUME NEW h \in Handler, SaveCommit(h)
      PROVE  \A d \in Commit : tableOf[d] # None => parentOf'[d] = parentOf[d]
  BY <1>1 DEF SaveCommit
<1>2. ASSUME NEW h \in Handler, CommitTxBranch(h)
      PROVE  \A d \in Commit : tableOf[d] # None => parentOf'[d] = parentOf[d]
  BY <1>2 DEF CommitTxBranch
<1>3. ASSUME ~ \E h \in Handler : SaveCommit(h) \/ CommitTxBranch(h)
      PROVE  parentOf' = parentOf
  BY <1>3 DEF Next, HandlerStep, vars, storeVars, BeginCommit, IngestTable, GetHead,
     CommitHead, SaveTransactionRef, Respond, RespondError, StoreError, CreateTransaction,
     CheckNewTransaction, NewTransaction, BeginCommitTransaction, FinishCommitTransaction,
     CommitTransactionError, DiscardTransaction, CollectTransactions, Prune
<1> QED
  BY <1>1, <1>2, <1>3

\* Which step brings a handler to each place.
LEMMA CameFrom ==
    ASSUME TypeOK, NEW h \in Handler, HandlerStep(h)
    PROVE  /\ pc'[h] = "ingest" => BeginCommit(h)
           /\ pc'[h] = "read" => IngestTable(h)
           /\ pc'[h] = "save" => GetHead(h)
           /\ pc'[h] = "ref" => SaveCommit(h)
           /\ pc'[h] = "respond" => SaveTransactionRef(h) \/ CommitHead(h)
           /\ pc'[h] = "newTx" => CheckNewTransaction(h)
<1> USE DEF TypeOK, txVars, handlerVars, Goto, EndRequest
<1>1. ASSUME BeginCommit(h) \/ IngestTable(h) \/ GetHead(h) \/ SaveCommit(h)
             \/ SaveTransactionRef(h) \/ CommitHead(h) \/ CheckNewTransaction(h)
      PROVE  /\ pc'[h] = "ingest" => BeginCommit(h)
             /\ pc'[h] = "read" => IngestTable(h)
             /\ pc'[h] = "save" => GetHead(h)
             /\ pc'[h] = "ref" => SaveCommit(h)
             /\ pc'[h] = "respond" => SaveTransactionRef(h) \/ CommitHead(h)
             /\ pc'[h] = "newTx" => CheckNewTransaction(h)
  BY <1>1 DEF BeginCommit, IngestTable, GetHead, SaveCommit, SaveTransactionRef, CommitHead,
     CheckNewTransaction
<1>2. ASSUME Respond(h) \/ RespondError(h) \/ StoreError(h) \/ CreateTransaction(h)
             \/ NewTransaction(h) \/ CommitTxBranch(h) \/ FinishCommitTransaction(h)
             \/ CommitTransactionError(h) \/ CollectTransactions(h) \/ Prune(h)
             \/ \E x \in Tid : BeginCommitTransaction(h, x) \/ DiscardTransaction(h, x)
      PROVE  pc'[h] \in {"idle", "txCommit", "prune"}
  BY <1>2 DEF Respond, RespondError, StoreError, CreateTransaction, NewTransaction,
     BeginCommitTransaction, CommitTxBranch, FinishCommitTransaction, CommitTransactionError,
     DiscardTransaction, CollectTransactions, Prune
<1> QED
  BY <1>1, <1>2 DEF HandlerStep

\* The head a handler has read stays the head until it writes.
LEMMA CurrentHeadStep ==
    ASSUME TypeOK, RequestInv, MadeInv, CurrentHeadInv, [Next]_vars
    PROVE  CurrentHeadInv'
<1>1. ASSUME NEW h \in Handler, HandlerStep(h), NEW k \in Handler,
             (req[k].tid = None /\ req[k].branch \in Undisturbed)'
      PROVE  /\ (pc[k] = "save" => parent[k] = head[req[k].branch])'
             /\ (pc[k] = "ref" => parentOf[new[k]] = head[req[k].branch])'
  <2>1. CASE k # h
    <3>1. /\ pc'[k] = pc[k] /\ req'[k] = req[k] /\ parent'[k] = parent[k] /\ new'[k] = new[k]
          /\ \A b \in Branch : ReliesOnHead(k, b) => head'[b] = head[b] \/ b \in racedHead'
      BY <1>1, <2>1, OthersStep
    <3>2. req[k].branch \in Undisturbed /\ req[k].branch \in Branch \ racedHead'
      BY <1>1, <3>1, RacesKept DEF Undisturbed
    <3>3. pc[k] \in {"save", "ref"} => head'[req[k].branch] = head[req[k].branch]
      BY <1>1, <3>1, <3>2 DEF ReliesOnHead
    <3>4. pc[k] = "ref" => parentOf'[new[k]] = parentOf[new[k]]
      BY ParentsStep DEF RequestInv, MadeInv, TypeOK, Sum
    <3> QED
      BY <1>1, <3>1, <3>2, <3>3, <3>4 DEF CurrentHeadInv
  <2>2. CASE k = h /\ pc'[h] = "save"
    <3>1. GetHead(h)
      BY <1>1, <2>2, CameFrom
    <3>2. req' = req /\ head' = head /\ req[h].branch \notin misread'
      BY <1>1, <2>2, <3>1 DEF GetHead, storeVars, Undisturbed
    <3>3. req[h].branch \in Branch
      BY <3>1, <1>1, <2>2, <3>2 DEF Undisturbed
    <3>4. parent' = [parent EXCEPT ![h] = head[req[h].branch]]
      BY <3>1, <3>2, <3>3 DEF GetHead
    <3> QED
      BY <2>2, <3>2, <3>4 DEF TypeOK
  <2>3. CASE k = h /\ pc'[h] = "ref"
    <3>1. SaveCommit(h)
      BY <1>1, <2>3, CameFrom
    <3>2. pc[h] = "save" /\ req' = req /\ head' = head /\ parentOf'[new'[h]] = parent[h]
      BY <3>1 DEF SaveCommit, Fresh, TypeOK
    <3>3. req[h].branch \in Undisturbed
      BY <1>1, <2>3, <3>2, RacesKept
    <3> QED
      BY <1>1, <2>3, <3>2, <3>3 DEF CurrentHeadInv
  <2> QED
    BY <2>1, <2>2, <2>3
<1>2. CASE UNCHANGED vars
  BY <1>2 DEF vars, storeVars, historyVars, raceVars, handlerVars, CurrentHeadInv, Undisturbed
<1> QED
  BY <1>1, <1>2 DEF CurrentHeadInv, Next

\* The transaction a handler has looked up stays as it was until it writes.
LEMMA CurrentTxStep ==
    ASSUME TypeOK, RequestInv, CurrentTxInv, [Next]_vars
    PROVE  CurrentTxInv'
<1>1. ASSUME NEW h \in Handler, HandlerStep(h), NEW k \in Handler,
             (req[k].tid # None /\ req[k].tid \notin racedTx)'
      PROVE  /\ (pc[k] \in {"ingest", "read", "save", "ref"} => tx[req[k].tid] # "absent")'
             /\ (pc[k] = "newTx" => tx[req[k].tid] = "absent")'
  <2>1. CASE k # h
    <3>1. /\ pc'[k] = pc[k] /\ req'[k] = req[k]
          /\ \A x \in Tid : ReliesOnTx(k, x) => tx'[x] = tx[x] \/ x \in racedTx'
      BY <1>1, <2>1, OthersStep
    <3>2. req[k].tid \in Tid /\ req[k].tid \notin racedTx
      BY <1>1, <3>1, RacesKept DEF TypeOK, Request
    <3>3. pc[k] \in {"ingest", "read", "save", "ref", "newTx"} => tx'[req[k].tid] = tx[req[k].tid]
      BY <1>1, <3>1, <3>2 DEF ReliesOnTx
    <3> QED
      BY <1>1, <3>1, <3>2, <3>3 DEF CurrentTxInv
  <2>2. CASE k = h /\ pc'[h] = "ingest"
    <3>1. BeginCommit(h)
      BY <1>1, <2>2, CameFrom
    <3>2. PICK b \in Branch, t \in Table, x \in {y \in Tid : tx[y] # "absent"} \cup {None} :
              req' = [req EXCEPT ![h] = [NoRequest EXCEPT !.branch = b, !.table = t, !.tid = x]]
      BY <3>1, Zenon DEF BeginCommit
    <3> DEFINE r == [NoRequest EXCEPT !.branch = b, !.table = t, !.tid = x]
    <3>3. r.tid = x
      BY DEF NoRequest
    <3> HIDE DEF r
    <3>4. req'[h] = r
      BY <3>2 DEF r, TypeOK
    <3>5. tx' = tx
      BY <3>1 DEF BeginCommit, storeVars
    <3> QED
      BY <1>1, <2>2, <3>3, <3>4, <3>5
  <2>3. CASE k = h /\ pc'[h] \in {"read", "save", "ref"}
    <3>1. IngestTable(h) \/ GetHead(h) \/ SaveCommit(h)
      BY <1>1, <2>3, CameFrom
    <3>2. pc[h] \in {"ingest", "read", "save"} /\ req' = req /\ tx' = tx
      BY <3>1 DEF IngestTable, GetHead, SaveCommit, storeVars
    <3>3. req[h].tid \notin racedTx
      BY <1>1, <2>3, <3>2, RacesKept
    <3> QED
      BY <1>1, <2>3, <3>2, <3>3 DEF CurrentTxInv
  <2>4. CASE k = h /\ pc'[h] = "newTx"
    <3>1. CheckNewTransaction(h)
      BY <1>1, <2>4, CameFrom
    <3>2. PICK x \in {y \in Tid : tx[y] = "absent"}, st \in Status :
              req' = [req EXCEPT ![h] = [NoRequest EXCEPT !.tid = x, !.status = st]]
      BY <3>1, Zenon DEF CheckNewTransaction
    <3> DEFINE r == [NoRequest EXCEPT !.tid = x, !.status = st]
    <3>3. r.tid = x
      BY DEF NoRequest
    <3> HIDE DEF r
    <3>4. req'[h] = r
      BY <3>2 DEF r, TypeOK
    <3>5. tx' = tx
      BY <3>1 DEF CheckNewTransaction, storeVars
    <3> QED
      BY <1>1, <2>4, <3>3, <3>4, <3>5
  <2> QED
    BY <2>1, <2>2, <2>3, <2>4
<1>2. CASE UNCHANGED vars
  BY <1>2 DEF vars, storeVars, historyVars, raceVars, handlerVars, CurrentTxInv
<1> QED
  BY <1>1, <1>2 DEF CurrentTxInv, Next

\* No step leaves a ref to a transaction that is not there.
LEMMA TxRefsStep ==
    ASSUME TypeOK, RequestInv, CurrentTxInv, UnracedTxRefsHaveTx, [Next]_vars
    PROVE  UnracedTxRefsHaveTx'
<1> SUFFICES ASSUME NEW x \in Tid, x \notin racedTx', tx'[x] = "absent"
             PROVE  txRef'[x] = NoRefs
  BY DEF UnracedTxRefsHaveTx, NoRefs
<1>1. tx[x] = "absent" => txRef[x] = NoRefs
  BY RacesKept DEF UnracedTxRefsHaveTx
<1> USE DEF TypeOK, storeVars
<1>2. ASSUME NEW h \in Handler, SaveTransactionRef(h) PROVE txRef'[x] = NoRefs
  <2>1. x # req[h].tid /\ tx' = tx
    BY <1>2, RacesKept DEF SaveTransactionRef, CurrentTxInv
  <2> QED
    BY <1>1, <1>2, <2>1 DEF SaveTransactionRef
<1>3. ASSUME NEW h \in Handler, CollectTransactions(h) PROVE txRef'[x] = NoRefs
  BY <1>1, <1>3 DEF CollectTransactions
<1>4. ASSUME NEW h \in Handler, NEW y \in Tid, DiscardTransaction(h, y)
      PROVE  txRef'[x] = NoRefs
  BY <1>1, <1>4 DEF DiscardTransaction
<1>5. ASSUME NEW h \in Handler,
             CreateTransaction(h) \/ NewTransaction(h) \/ FinishCommitTransaction(h)
      PROVE  txRef'[x] = NoRefs
  <2>1. tx[x] = "absent" /\ txRef' = txRef
    BY <1>5, NoneAssumption DEF CreateTransaction, NewTransaction, FinishCommitTransaction,
       RequestInv, Request, Status
  <2> QED
    BY <1>1, <2>1
<1>6. ASSUME ~ \E h \in Handler :
                \/ SaveTransactionRef(h) \/ CollectTransactions(h)
                \/ \E y \in Tid : DiscardTransaction(h, y)
                \/ CreateTransaction(h) \/ NewTransaction(h) \/ FinishCommitTransaction(h)
      PROVE  tx' = tx /\ txRef' = txRef
  BY <1>6 DEF Next, HandlerStep, vars, BeginCommit, IngestTable, GetHead, SaveCommit,
     CommitHead, Respond, RespondError, StoreError, CheckNewTransaction,
     BeginCommitTransaction, CommitTxBranch, CommitTransactionError, Prune
<1> QED
  BY <1>1, <1>2, <1>3, <1>4, <1>5, <1>6

\* An undisturbed branch moves to a stored commit on top of the head it had.
LEMMA GrowStep ==
    ASSUME TypeOK, RequestInv, CurrentHeadInv, [Next]_vars,
           NEW b \in Undisturbed, head'[b] # head[b]
    PROVE  head'[b] \in Commit /\ parentOf'[head'[b]] = head[b]
<1> USE NoneAssumption DEF TypeOK, Sum, storeVars
<1>1. ASSUME NEW h \in Handler, CommitHead(h)
      PROVE  head'[b] \in Commit /\ parentOf'[head'[b]] = head[b]
  BY <1>1 DEF CommitHead, RequestInv, CurrentHeadInv, Undisturbed
<1>2. ASSUME NEW h \in Handler, CommitTxBranch(h)
      PROVE  head'[b] \in Commit /\ parentOf'[head'[b]] = head[b]
  BY <1>2 DEF CommitTxBranch, Fresh, Undisturbed
<1>3. ASSUME ~ \E h \in Handler : CommitHead(h) \/ CommitTxBranch(h)
      PROVE  head' = head
  BY <1>3 DEF Next, HandlerStep, vars, BeginCommit, IngestTable, GetHead, SaveCommit,
     SaveTransactionRef, Respond, RespondError, StoreError, CreateTransaction,
     CheckNewTransaction, NewTransaction, BeginCommitTransaction, FinishCommitTransaction,
     CommitTransactionError, DiscardTransaction, CollectTransactions, Prune
<1> QED
  BY <1>1, <1>2, <1>3

\* So the history of an undisturbed branch loses nothing.
LEMMA HistoryStep ==
    ASSUME TypeOK, RequestInv, MadeInv, CurrentHeadInv, [Next]_vars, NEW b \in Undisturbed
    PROVE  History(b) \subseteq History(b)'
<1> SUFFICES ASSUME NEW c \in History(b), NEW S \in SUBSET Commit,
                    ({head[b]} \ {None} \subseteq S)', Closed(S)'
             PROVE  c \in S
  BY DEF History, ReachableFrom
<1>1. head[b] \in S \cup {None}
  <2>1. CASE head'[b] = head[b]
    BY <2>1
  <2>2. CASE head'[b] # head[b]
    BY <2>2, GrowStep, NoneAssumption DEF Closed
  <2> QED
    BY <2>1, <2>2
<1>2. Closed(S)
  BY ParentsStep DEF Closed, MadeInv
<1> QED
  BY <1>1, <1>2 DEF History, ReachableFrom

\* What is or will be acknowledged is in the history of its undisturbed branch.
LEMMA AckStep ==
    ASSUME TypeOK, RequestInv, MadeInv, CurrentHeadInv, AckInv, AckedCommitsStay, [Next]_vars
    PROVE  AckInv' /\ AckedCommitsStay'
<1>1. /\ Undisturbed' \subseteq Undisturbed
      /\ \A b \in Undisturbed : History(b) \subseteq History(b)'
  BY RacesKept, HistoryStep
<1>2. ASSUME NEW h \in Handler, HandlerStep(h), NEW k \in Handler,
             (pc[k] = "respond" /\ req[k].tid = None /\ req[k].branch \in Undisturbed)'
      PROVE  (new[k] \in History(req[k].branch))'
  <2>1. CASE k # h
    <3>1. pc'[k] = pc[k] /\ req'[k] = req[k] /\ new'[k] = new[k]
      BY <1>2, <2>1, OthersStep
    <3>2. PICK b \in Undisturbed : b = req[k].branch
      BY <1>1, <1>2, <3>1
    <3>3. new[k] \in History(b)
      BY <1>2, <3>1, <3>2 DEF AckInv
    <3>4. new[k] \in History(b)'
      BY <1>1, <3>2, <3>3
    <3> QED
      BY <3>1, <3>2, <3>4 DEF History
  <2>2. CASE k = h
    <3>1. SaveTransactionRef(h) \/ CommitHead(h)
      BY <1>2, <2>2, CameFrom
    <3>2. CommitHead(h)
      BY <1>2, <2>2, <3>1 DEF SaveTransactionRef
    <3>3. /\ req[h].branch \in Branch /\ req' = req /\ new' = new
          /\ head'[req[h].branch] = new[h] /\ new[h] \in Commit
      BY <3>2, NoneAssumption DEF CommitHead, RequestInv, TypeOK, Request, Sum
    <3>4. new[h] \in ReachableFrom({head[req[h].branch]} \ {None})'
      BY <3>3, NoneAssumption DEF ReachableFrom
    <3> QED
      BY <2>2, <3>3, <3>4 DEF History
  <2> QED
    BY <2>1, <2>2
<1>3. AckInv'
  <2>1. CASE UNCHANGED vars
    BY <2>1 DEF vars, storeVars, historyVars, raceVars, handlerVars, AckInv, History,
       ReachableFrom, Closed, Undisturbed
  <2> QED
    BY <1>2, <2>1 DEF AckInv, Next
<1>4. ASSUME NEW a \in acked', a \notin acked, a.branch \in Undisturbed
      PROVE  a.commit \in History(a.branch)
  <2>1. PICK h \in Handler : Respond(h)
    BY <1>4 DEF Next, HandlerStep, vars, historyVars, outVars, BeginCommit, IngestTable,
       GetHead, SaveCommit, CommitHead, SaveTransactionRef, RespondError, StoreError,
       CreateTransaction, CheckNewTransaction, NewTransaction, BeginCommitTransaction,
       CommitTxBranch, FinishCommitTransaction, CommitTransactionError, DiscardTransaction,
       CollectTransactions, Prune
  <2>2. /\ pc[h] = "respond" /\ req[h].tid = None
        /\ a = [commit |-> new[h], branch |-> req[h].branch]
    BY <1>4, <2>1 DEF Respond
  <2> QED
    BY <1>4, <2>2 DEF AckInv
<1>5. ASSUME NEW a \in acked', a.branch \in Undisturbed' PROVE a.commit \in History(a.branch)'
  <2>1. a.commit \in History(a.branch)
    BY <1>1, <1>4, <1>5 DEF AckedCommitsStay, History
  <2> QED
    BY <1>1, <1>5, <2>1
<1>6. AckedCommitsStay'
  BY <1>5 DEF AckedCommitsStay, History
<1> QED
  BY <1>3, <1>6

\* What handlers rely on, and what they have told their clients, survives every
\* step but for the races.
LEMMA RaceStep ==
    ASSUME IInv, RaceInv, [Next]_vars
    PROVE  RaceInv'
<1>1. CurrentHeadInv' /\ CurrentTxInv'
  BY CurrentHeadStep, CurrentTxStep DEF IInv, RaceInv
<1>2. UnracedTxRefsHaveTx'
  BY TxRefsStep DEF IInv, RaceInv
<1>3. AckInv' /\ AckedCommitsStay'
  BY AckStep DEF IInv, RaceInv
<1> QED
  BY <1>1, <1>2, <1>3 DEF RaceInv

\* With one request at a time and a ref store that reads its refs, nothing races.
LEMMA NoRaceStep ==
    ASSUME OneRequestAtATime, ~ReadErrors, TypeOK, NoRace, [Next]_vars
    PROVE  NoRace'
<1>1. ASSUME NEW h \in Handler, HandlerStep(h) PROVE UNCHANGED raceVars \/ NoteRaces(h)
  BY <1>1 DEF HandlerStep, BeginCommit, IngestTable, GetHead, SaveCommit, SaveTransactionRef,
     CommitHead, Respond, RespondError, StoreError, CreateTransaction, CheckNewTransaction,
     NewTransaction, BeginCommitTransaction, CommitTxBranch, FinishCommitTransaction,
     CommitTransactionError, DiscardTransaction, CollectTransactions, Prune, historyVars,
     raceVars
<1>2. ASSUME NEW h \in Handler, NoteRaces(h) PROVE NoRace'
  BY <1>2 DEF NoteRaces, NoRace, OneRequestAtATime
<1> QED
  BY <1>1, <1>2 DEF Next, vars, historyVars, raceVars, NoRace

-----------------------------------------------------------------------------
(* The theorems *)

\* The invariants hold initially and every step keeps them.
THEOREM Invariance == Spec => []IInv
<1>1. Init => IInv
  <2> SUFFICES ASSUME Init PROVE IInv
    OBVIOUS
  <2> USE NoneAssumption DEF Init
  <2>1. TypeOK
    BY DEF TypeOK, Sum, Request, NoRequest, Labels, NoRefs
  <2>2. RequestInv
    BY DEF RequestInv
  <2>3. HeadInv /\ MadeInv
    BY DEF HeadInv, MadeInv, NoRefs
  <2>4. StoreInv
    BY DEF StoreInv, WritingInv, DatabaseClosed, Closed, Roots, NoRefs
  <2> QED
    BY <2>1, <2>2, <2>3, <2>4 DEF IInv
<1>2. IInv /\ [Next]_vars => IInv'
  BY RequestStep, MadeStep, HeadStep, StoreStep DEF IInv
<1> QED
  BY <1>1, <1>2, PTL DEF Spec

\* Every variable keeps its type: the refs hold sums, what a handler has read
\* and saved matches its place in the code.
THEOREM TypeCorrect == Spec => []TypeOK
<1>1. IInv => TypeOK
  BY DEF IInv
<1> QED
  BY <1>1, Invariance, PTL

\* Unless Prune enters a handler's write window, no interleaving of commits,
\* transactions, store errors and collections leaves a commit without its
\* table or its parent, or a ref without its commit.
THEOREM DatabaseStaysClosed ==
    ASSUME GCPolicy = "betweenWrites"
    PROVE  Spec => []DatabaseClosed
<1>1. IInv => DatabaseClosed
  BY DEF IInv, StoreInv
<1> QED
  BY <1>1, Invariance, PTL

\* The only branches that move without an event that is, or is about to be,
\* flushed are those a transaction.Commit moved before it failed.
THEOREM HeadsAreAnnounced == Spec => []EveryHeadAnnounced
<1>1. IInv => EveryHeadAnnounced
  BY DEF IInv, HeadInv, EveryHeadAnnounced
<1> QED
  BY <1>1, Invariance, PTL

\* However many requests run, what a handler has read holds until it writes,
\* unless a race or a read error is on record for it.
THEOREM RaceInvariance == Spec => []RaceInv
<1>1. Init => RaceInv
  BY NoneAssumption DEF Init, RaceInv, CurrentHeadInv, CurrentTxInv, UnracedTxRefsHaveTx,
     AckInv, AckedCommitsStay
<1>2. IInv /\ RaceInv /\ [Next]_vars => RaceInv'
  BY RaceStep
<1> QED
  BY <1>1, <1>2, Invariance, PTL DEF Spec

\* However many requests run, a branch only moves to a commit on top of its
\* head, until another request moves it between a read of its head and the
\* write, or the store fails to read it.
THEOREM UndisturbedGrow == Spec => UndisturbedBranchesGrow
<1> DEFINE Grow ==
             \A b \in Undisturbed : head'[b] # head[b] => parentOf'[head'[b]] = head[b]
<1>1. IInv /\ RaceInv /\ [Next]_vars => [Grow]_vars
  BY GrowStep DEF IInv, RaceInv
<1> QED
  BY <1>1, Invariance, RaceInvariance, PTL DEF Spec, UndisturbedBranchesGrow

\* Until then, too, a commit that was acknowledged is in the history of its
\* branch.
THEOREM AcknowledgedCommitsStay == Spec => []AckedCommitsStay
<1>1. RaceInv => AckedCommitsStay
  BY DEF RaceInv
<1> QED
  BY <1>1, RaceInvariance, PTL

\* The only refs that outlive their transaction are those of a transaction that
\* changed between the look-up of another request and its write.
THEOREM TransactionsOwnTheirRefs == Spec => []UnracedTxRefsHaveTx
<1>1. RaceInv => UnracedTxRefsHaveTx
  BY DEF RaceInv
<1> QED
  BY <1>1, RaceInvariance, PTL

\* The only committed transactions that go back in progress are those created
\* between the look-up of another upload with their id and its write.
THEOREM CommittedTransactionsStay == Spec => UnracedCommittedStays
<1> DEFINE Stay ==
             \A x \in Tid \ racedTx : tx[x] = "committed" => tx'[x] # "inProgress"
<1>1. ASSUME IInv, RaceInv, [Next]_vars PROVE Stay
  <2> USE <1>1 DEF IInv, TypeOK, storeVars
  <2>1. ASSUME NEW h \in Handler, NewTransaction(h) PROVE Stay
    BY <2>1 DEF NewTransaction, RaceInv, CurrentTxInv, RequestInv
  <2>2. ASSUME NEW h \in Handler, CreateTransaction(h) PROVE Stay
    BY <2>2 DEF CreateTransaction, NewIds
  <2>3. ASSUME ~ \E h \in Handler : NewTransaction(h) \/ CreateTransaction(h) PROVE Stay
    BY <2>3 DEF Next, HandlerStep, vars, BeginCommit, IngestTable, GetHead, SaveCommit,
       SaveTransactionRef, CommitHead, Respond, RespondError, StoreError,
       CheckNewTransaction, BeginCommitTransaction, CommitTxBranch, FinishCommitTransaction,
       CommitTransactionError, DiscardTransaction, CollectTransactions, Prune
  <2> QED
    BY <2>1, <2>2, <2>3
<1>2. IInv /\ RaceInv /\ [Next]_vars => [Stay]_vars
  BY <1>1
<1> QED
  BY <1>2, Invariance, RaceInvariance, PTL DEF Spec, UnracedCommittedStays

\* Served one at a time by a store that reads its refs, requests never race.
THEOREM SerialRequestsDoNotRace ==
    ASSUME OneRequestAtATime, ~ReadErrors
    PROVE  Spec => []NoRace
<1>1. Init => NoRace
  BY DEF Init, NoRace
<1>2. IInv /\ NoRace /\ [Next]_vars => NoRace'
  BY NoRaceStep DEF IInv
<1> QED
  BY <1>1, <1>2, Invariance, PTL DEF Spec

\* So served, every branch only ever moves to a commit on top of its head.
THEOREM BranchesOnlyGrow ==
    ASSUME OneRequestAtATime, ~ReadErrors
    PROVE  Spec => HeadExtendsHead
<1> DEFINE Grow == \A b \in Branch : head'[b] # head[b] => parentOf'[head'[b]] = head[b]
<1>1. IInv /\ RaceInv /\ NoRace /\ [Next]_vars => [Grow]_vars
  BY GrowStep DEF IInv, RaceInv, NoRace, Undisturbed
<1> QED
  BY <1>1, Invariance, RaceInvariance, SerialRequestsDoNotRace, PTL DEF Spec, HeadExtendsHead
=============================================================================
