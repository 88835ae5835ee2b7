----------------------------- MODULE BranchesInv -----------------------------
(***************************************************************************)
(* What makes the properties of Branches inductive.  TLC checks these      *)
(* formulas on the instances of MCBranches, BranchesProofs proves them.    *)
(***************************************************************************)
EXTENDS Branches

\* What a handler holds at each place of the code.
RequestInv ==
    \A h \in Handler :
        /\ pc[h] \in {"ingest", "read", "save", "ref", "respond"} =>
              req[h].table # None /\ req[h].branch # None
        /\ pc[h] \notin {"save", "ref", "respond"} => parent[h] = None
        /\ pc[h] \in {"ref", "respond"} => new[h] # None
        /\ pc[h] \in {"newTx", "txCommit"} => req[h].tid # None
        /\ pc[h] = "newTx" => req[h].status # None

\* The handler about to announce a head committed to the branch itself, not to
\* a transaction.
HeadInv ==
    \A b \in Branch : head[b] # None =>
        \/ head[b] \in announced \cup silent
        \/ \E h \in Handler : pc[h] = "respond" /\ new[h] = head[b] /\ req[h].tid = None
        \/ \E h \in Handler : pc[h] = "txCommit" /\ head[b] \in moved[h]

\* A commit nobody made has no parent, and only made commits are stored or
\* about to be committed.
MadeInv ==
    /\ \A c \in commits : tableOf[c] # None
    /\ \A h \in Handler : pc[h] \in {"ref", "respond"} => tableOf[new[h]] # None
    /\ \A c \in Commit : tableOf[c] = None => parentOf[c] = None

\* A handler that writes has its table, the head it read and the commit it
\* saved in the database: nothing it is about to refer to has been pruned.
WritingInv ==
    \A h \in Handler :
        /\ pc[h] \in {"read", "save"} => req[h].table \in tables
        /\ pc[h] = "save" => parent[h] \in commits \cup {None}
        /\ pc[h] = "ref" => new[h] \in commits

StoreInv == WritingInv /\ DatabaseClosed

\* Only a Prune that stays out of the write windows spares what is being
\* written.
IInv ==
    /\ TypeOK
    /\ RequestInv
    /\ MadeInv
    /\ HeadInv
    /\ GCPolicy = "betweenWrites" => StoreInv

-----------------------------------------------------------------------------
(* What a handler has read still holds, but for the races *)

\* At the write the head is what it was at the read.
CurrentHeadInv ==
    \A h \in Handler : (req[h].tid = None /\ req[h].branch \in Undisturbed) =>
        /\ pc[h] = "save" => parent[h] = head[req[h].branch]
        /\ pc[h] = "ref" => parentOf[new[h]] = head[req[h].branch]

\* At the write the transaction is still there, or its id still free.
CurrentTxInv ==
    \A h \in Handler : (req[h].tid # None /\ req[h].tid \notin racedTx) =>
        /\ pc[h] \in {"ingest", "read", "save", "ref"} => tx[req[h].tid] # "absent"
        /\ pc[h] = "newTx" => tx[req[h].tid] = "absent"

History(b) == ReachableFrom({head[b]} \ {None})

\* The commit about to be acknowledged is in the history of its branch.
AckInv ==
    \A h \in Handler :
        (pc[h] = "respond" /\ req[h].tid = None /\ req[h].branch \in Undisturbed) =>
            new[h] \in History(req[h].branch)

RaceInv ==
    /\ CurrentHeadInv
    /\ CurrentTxInv
    /\ UnracedTxRefsHaveTx
    /\ AckInv
    /\ AckedCommitsStay

\* Where nothing can race.
OneRequestAtATime == \A h, k \in Handler : h = k
NoRace == racedHead = {} /\ racedTx = {} /\ misread = {}
=============================================================================
