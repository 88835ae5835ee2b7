------------------------- MODULE ReceivePackProofs -------------------------
(***************************************************************************)
(* Proofs about ReceivePack for every set of refs, commits, sessions and   *)
(* handlers, every history of pushes and every ancestry relation.  The     *)
(* invariants come from ReceivePackInv; each is proved to survive every    *)
(* action, given the ones before it.                                       *)
(***************************************************************************)
EXTENDS ReceivePackInv, TLAPS

\* What the elements of UpdateMap are made of.
LEMMA UpdateMapFacts ==
    ASSUME NEW u \in UpdateMap
    PROVE  /\ DOMAIN u \subseteq Ref
           /\ \A r \in DOMAIN u : u[r].old \in Sum /\ u[r].sum \in Sum
           /\ NewCommits(u) \subseteq Commit
<1>1. PICK S \in SUBSET Ref : u \in [S -> Update]
  BY DEF UpdateMap
<1>2. DOMAIN u \subseteq Ref /\ \A r \in DOMAIN u : u[r].old \in Sum /\ u[r].sum \in Sum
  BY <1>1 DEF Update
<1> QED
  BY <1>2 DEF NewCommits, Sum

\* A new session has an empty update map.
LEMMA NoUpdatesFacts == NoUpdates \in UpdateMap
<1>1. NoUpdates \in [{} -> Update]
  BY DEF NoUpdates
<1> QED
  BY <1>1 DEF UpdateMap

\* No session exists when the server starts.
LEMMA StructInit == Init => StructInv
  BY InitRefsAssumption, AncestorsAssumption, NoUpdatesFacts, NoneAssumption
  DEF Init, StructInv, TypeOK, HandlersInv, GreetAloneInv, FreshInv, Untouched, Reachable,
      States, Labels, StateFns, Sum

\* Types, who serves which session, and that greet has a session to itself.
LEMMA StructStep ==
    ASSUME StructInv, [Next]_vars
    PROVE  StructInv'
<1> USE NoneAssumption DEF StructInv, TypeOK, HandlersInv, storeVars, sessionVars, handlerVars
<1>0. \A s \in Sid : /\ DOMAIN updates[s] \subseteq Ref
                   /\ \A r \in DOMAIN updates[s] : updates[s][r].sum \in Sum
                   /\ NewCommits(updates[s]) \subseteq Commit
  BY UpdateMapFacts
<1>1. ASSUME NEW h \in Handler, Resume(h) PROVE StructInv'
  <2> USE <1>1 DEF Resume, Goto
  <2>1. TypeOK'
    BY <1>0 DEF States, StateFns, Labels
  <2>2. HandlersInv'
    BY DEF States, StateFns, Labels, GreetAloneInv
  <2>3. GreetAloneInv'
    BY DEF States, StateFns, GreetAloneInv
  <2>4. FreshInv'
    BY DEF States, StateFns, GreetAloneInv, FreshInv, Untouched
  <2> QED
    BY <2>1, <2>2, <2>3, <2>4 DEF StructInv
<1>2. ASSUME NEW h \in Handler, NewSession(h) PROVE StructInv'
  <2> USE <1>2 DEF NewSession, Goto
  <2>1. TypeOK'
    BY <1>0 DEF States, StateFns, Labels
  <2>2. HandlersInv'
    BY DEF States, StateFns, Labels, GreetAloneInv
  <2>3. GreetAloneInv'
    BY DEF States, StateFns, GreetAloneInv
  <2>4. FreshInv'
    BY DEF States, StateFns, GreetAloneInv, FreshInv, Untouched
  <2> QED
    BY <2>1, <2>2, <2>3, <2>4 DEF StructInv
<1>3. ASSUME NEW h \in Handler, NilState(h) PROVE StructInv'
  <2> USE <1>3 DEF NilState, Panic, EndRequest, Goto
  <2>1. TypeOK'
    BY <1>0 DEF States, StateFns, Labels
  <2>2. HandlersInv'
    BY DEF States, StateFns, Labels, GreetAloneInv
  <2>3. GreetAloneInv'
    BY DEF States, StateFns, GreetAloneInv
  <2>4. FreshInv'
    BY DEF States, StateFns, GreetAloneInv, FreshInv, Untouched
  <2> QED
    BY <2>1, <2>2, <2>3, <2>4 DEF StructInv
<1>4. ASSUME NEW h \in Handler, BadRequest(h) PROVE StructInv'
  <2> USE <1>4 DEF BadRequest, Return, Goto
  <2>1. TypeOK'
    BY <1>0 DEF States, StateFns, Labels
  <2>2. HandlersInv'
    BY DEF States, StateFns, Labels, GreetAloneInv
  <2>3. GreetAloneInv'
    BY DEF States, StateFns, GreetAloneInv
  <2>4. FreshInv'
    BY DEF States, StateFns, GreetAloneInv, FreshInv, Untouched
  <2> QED
    BY <2>1, <2>2, <2>3, <2>4 DEF StructInv
<1>5. ASSUME NEW h \in Handler, Greet(h) PROVE StructInv'
  <2> USE <1>5 DEF Greet, Goto
  <2>1. TypeOK'
    BY <1>0, PushesAssumption, UpdateMapFacts DEF States, StateFns, Labels
  <2>2. HandlersInv'
    BY DEF States, StateFns, Labels, GreetAloneInv
  <2>3. GreetAloneInv'
    BY DEF States, StateFns, GreetAloneInv
  <2>4. FreshInv'
    BY DEF States, StateFns, GreetAloneInv, FreshInv, Untouched
  <2> QED
    BY <2>1, <2>2, <2>3, <2>4 DEF StructInv
<1>6. ASSUME NEW h \in Handler, GreetCheck(h) PROVE StructInv'
  <2> USE <1>6 DEF GreetCheck
  <2>1. TypeOK'
    BY <1>0 DEF States, StateFns, Labels
  <2>2. HandlersInv'
    BY DEF States, StateFns, Labels, GreetAloneInv
  <2>3. GreetAloneInv'
    BY DEF States, StateFns, GreetAloneInv
  <2>4. FreshInv'
    BY DEF States, StateFns, GreetAloneInv, FreshInv, Untouched
  <2> QED
    BY <2>1, <2>2, <2>3, <2>4 DEF StructInv
<1>7. ASSUME NEW h \in Handler, GreetOutdated(h) PROVE StructInv'
  <2> USE <1>7 DEF GreetOutdated, Goto
  <2>1. TypeOK'
    BY <1>0 DEF States, StateFns, Labels
  <2>2. HandlersInv'
    BY DEF States, StateFns, Labels, GreetAloneInv
  <2>3. GreetAloneInv'
    BY DEF States, StateFns, GreetAloneInv
  <2>4. FreshInv'
    BY DEF States, StateFns, GreetAloneInv, FreshInv, Untouched
  <2> QED
    BY <2>1, <2>2, <2>3, <2>4 DEF StructInv
<1>8. ASSUME NEW h \in Handler, GreetNegotiate(h) PROVE StructInv'
  <2> USE <1>8 DEF GreetNegotiate, Return, Goto
  <2>a. ses[h] \in Sid /\ updates[ses[h]] \in UpdateMap
    OBVIOUS
  <2>b. NewCommits(updates[ses[h]]) \subseteq Commit
    BY ONLY <2>a, UpdateMapFacts
  <2>c. /\ expected \in [Sid -> SUBSET Commit]
        /\ expected' = [expected EXCEPT ![ses[h]] = NewCommits(updates[ses[h]])]
    OBVIOUS
  <2>0. expected' \in [Sid -> SUBSET Commit]
    BY ONLY <2>b, <2>c
  <2>1. TypeOK'
    BY <2>0, <1>0 DEF States, StateFns, Labels
  <2>2. HandlersInv'
    BY DEF States, StateFns, Labels, GreetAloneInv
  <2>3. GreetAloneInv'
    BY DEF States, StateFns, GreetAloneInv
  <2>4. FreshInv'
    BY DEF States, StateFns, GreetAloneInv, FreshInv, Untouched
  <2> QED
    BY <2>1, <2>2, <2>3, <2>4 DEF StructInv
<1>9. ASSUME NEW h \in Handler, GreetSave(h) PROVE StructInv'
  <2> USE <1>9 DEF GreetSave, Goto
  <2>1. TypeOK'
    BY <1>0 DEF States, StateFns, Labels
  <2>2. HandlersInv'
    BY DEF States, StateFns, Labels, GreetAloneInv
  <2>3. GreetAloneInv'
    BY DEF States, StateFns, GreetAloneInv
  <2>4. FreshInv'
    BY DEF States, StateFns, GreetAloneInv, FreshInv, Untouched
  <2> QED
    BY <2>1, <2>2, <2>3, <2>4 DEF StructInv
<1>10. ASSUME NEW h \in Handler, NegotiateTables(h) PROVE StructInv'
  <2> USE <1>10 DEF NegotiateTables, Return, Goto
  <2>1. TypeOK'
    BY <1>0 DEF States, StateFns, Labels
  <2>2. HandlersInv'
    BY DEF States, StateFns, Labels, GreetAloneInv
  <2>3. GreetAloneInv'
    BY DEF States, StateFns, GreetAloneInv
  <2>4. FreshInv'
    BY DEF States, StateFns, GreetAloneInv, FreshInv, Untouched
  <2> QED
    BY <2>1, <2>2, <2>3, <2>4 DEF StructInv
<1>11. ASSUME NEW h \in Handler, ReceiveSome(h) PROVE StructInv'
  <2> USE <1>11 DEF ReceiveSome, Return, Goto
  <2>1. TypeOK'
    BY <1>0, PacksAssumption DEF States, StateFns, Labels
  <2>2. HandlersInv'
    BY DEF States, StateFns, Labels, GreetAloneInv
  <2>3. GreetAloneInv'
    BY DEF States, StateFns, GreetAloneInv
  <2>4. FreshInv'
    BY DEF States, StateFns, GreetAloneInv, FreshInv, Untouched
  <2> QED
    BY <2>1, <2>2, <2>3, <2>4 DEF StructInv
<1>12. ASSUME NEW h \in Handler, ReceiveLast(h) PROVE StructInv'
  <2> USE <1>12 DEF ReceiveLast, Goto
  <2>1. TypeOK'
    BY <1>0, PacksAssumption DEF States, StateFns, Labels
  <2>2. HandlersInv'
    BY DEF States, StateFns, Labels, GreetAloneInv
  <2>3. GreetAloneInv'
    BY DEF States, StateFns, GreetAloneInv
  <2>4. FreshInv'
    BY DEF States, StateFns, GreetAloneInv, FreshInv, Untouched
  <2> QED
    BY <2>1, <2>2, <2>3, <2>4 DEF StructInv
<1>13. ASSUME NEW h \in Handler, ReceiveError(h) PROVE StructInv'
  <2> USE <1>13 DEF ReceiveError, Panic, EndRequest, Goto
  <2>1. TypeOK'
    BY <1>0, PacksAssumption DEF States, StateFns, Labels
  <2>2. HandlersInv'
    BY DEF States, StateFns, Labels, GreetAloneInv
  <2>3. GreetAloneInv'
    BY DEF States, StateFns, GreetAloneInv
  <2>4. FreshInv'
    BY DEF States, StateFns, GreetAloneInv, FreshInv, Untouched
  <2> QED
    BY <2>1, <2>2, <2>3, <2>4 DEF StructInv
<1>14. ASSUME NEW h \in Handler, SaveRefused(h) PROVE StructInv'
  <2> USE <1>14 DEF SaveRefused
  <2>1. TypeOK'
    BY <1>0 DEF States, StateFns, Labels
  <2>2. HandlersInv'
    BY DEF States, StateFns, Labels, GreetAloneInv
  <2>3. GreetAloneInv'
    BY DEF States, StateFns, GreetAloneInv
  <2>4. FreshInv'
    BY DEF States, StateFns, GreetAloneInv, FreshInv, Untouched
  <2> QED
    BY <2>1, <2>2, <2>3, <2>4 DEF StructInv
<1>15. ASSUME NEW h \in Handler, SaveChecked(h) PROVE StructInv'
  <2> USE <1>15 DEF SaveChecked, Goto
  <2>1. TypeOK'
    BY <1>0 DEF States, StateFns, Labels
  <2>2. HandlersInv'
    BY DEF States, StateFns, Labels, GreetAloneInv
  <2>3. GreetAloneInv'
    BY DEF States, StateFns, GreetAloneInv
  <2>4. FreshInv'
    BY DEF States, StateFns, GreetAloneInv, FreshInv, Untouched
  <2> QED
    BY <2>1, <2>2, <2>3, <2>4 DEF StructInv
<1>16. ASSUME NEW h \in Handler, SaveWalkError(h) PROVE StructInv'
  <2> USE <1>16 DEF SaveWalkError, Panic, EndRequest, Goto, Flush
  <2>1. TypeOK'
    BY <1>0 DEF States, StateFns, Labels
  <2>2. HandlersInv'
    BY DEF States, StateFns, Labels, GreetAloneInv
  <2>3. GreetAloneInv'
    BY DEF States, StateFns, GreetAloneInv
  <2>4. FreshInv'
    BY DEF States, StateFns, GreetAloneInv, FreshInv, Untouched
  <2> QED
    BY <2>1, <2>2, <2>3, <2>4 DEF StructInv
<1>17. ASSUME NEW h \in Handler, SaveRef(h) PROVE StructInv'
  <2> USE <1>17 DEF SaveRef, Goto
  <2>1. TypeOK'
    BY <1>0 DEF States, StateFns, Labels
  <2>2. HandlersInv'
    BY DEF States, StateFns, Labels, GreetAloneInv
  <2>3. GreetAloneInv'
    BY DEF States, StateFns, GreetAloneInv
  <2>4. FreshInv'
    BY DEF States, StateFns, GreetAloneInv, FreshInv, Untouched
  <2> QED
    BY <2>1, <2>2, <2>3, <2>4 DEF StructInv
<1>18. ASSUME NEW h \in Handler, SaveRefError(h) PROVE StructInv'
  <2> USE <1>18 DEF SaveRefError, Panic, EndRequest, Goto, Flush
  <2>1. TypeOK'
    BY <1>0 DEF States, StateFns, Labels
  <2>2. HandlersInv'
    BY DEF States, StateFns, Labels, GreetAloneInv
  <2>3. GreetAloneInv'
    BY DEF States, StateFns, GreetAloneInv
  <2>4. FreshInv'
    BY DEF States, StateFns, GreetAloneInv, FreshInv, Untouched
  <2> QED
    BY <2>1, <2>2, <2>3, <2>4 DEF StructInv
<1>19. ASSUME NEW h \in Handler, SaveDone(h) PROVE StructInv'
  <2> USE <1>19 DEF SaveDone, Goto, Flush
  <2>1. TypeOK'
    BY <1>0 DEF States, StateFns, Labels
  <2>2. HandlersInv'
    BY DEF States, StateFns, Labels, GreetAloneInv
  <2>3. GreetAloneInv'
    BY DEF States, StateFns, GreetAloneInv
  <2>4. FreshInv'
    BY DEF States, StateFns, GreetAloneInv, FreshInv, Untouched
  <2> QED
    BY <2>1, <2>2, <2>3, <2>4 DEF StructInv
<1>20. ASSUME NEW h \in Handler, ReportStatus(h) PROVE StructInv'
  <2> USE <1>20 DEF ReportStatus, Return, Goto
  <2>1. TypeOK'
    BY <1>0 DEF States, StateFns, Labels
  <2>2. HandlersInv'
    BY DEF States, StateFns, Labels, GreetAloneInv
  <2>3. GreetAloneInv'
    BY DEF States, StateFns, GreetAloneInv
  <2>4. FreshInv'
    BY DEF States, StateFns, GreetAloneInv, FreshInv, Untouched
  <2> QED
    BY <2>1, <2>2, <2>3, <2>4 DEF StructInv
<1>21. ASSUME NEW h \in Handler, ResponseError(h) PROVE StructInv'
  <2> USE <1>21 DEF ResponseError, Panic, EndRequest, Goto
  <2>1. TypeOK'
    BY <1>0 DEF States, StateFns, Labels
  <2>2. HandlersInv'
    BY DEF States, StateFns, Labels, GreetAloneInv
  <2>3. GreetAloneInv'
    BY DEF States, StateFns, GreetAloneInv
  <2>4. FreshInv'
    BY DEF States, StateFns, GreetAloneInv, FreshInv, Untouched
  <2> QED
    BY <2>1, <2>2, <2>3, <2>4 DEF StructInv
<1>22. ASSUME NEW h \in Handler, SetState(h) PROVE StructInv'
  <2> USE <1>22 DEF SetState, Goto
  <2>1. TypeOK'
    BY <1>0 DEF States, StateFns, Labels
  <2>2. HandlersInv'
    BY DEF States, StateFns, Labels, GreetAloneInv
  <2>3. GreetAloneInv'
    BY DEF States, StateFns, GreetAloneInv
  <2>4. FreshInv'
    BY DEF States, StateFns, GreetAloneInv, FreshInv, Untouched
  <2> QED
    BY <2>1, <2>2, <2>3, <2>4 DEF StructInv
<1>23. ASSUME NEW h \in Handler, CheckDone(h) PROVE StructInv'
  <2> USE <1>23 DEF CheckDone, EndRequest, Goto
  <2>1. TypeOK'
    BY <1>0 DEF States, StateFns, Labels
  <2>2. HandlersInv'
    BY DEF States, StateFns, Labels, GreetAloneInv
  <2>3. GreetAloneInv'
    BY DEF States, StateFns, GreetAloneInv
  <2>4. FreshInv'
    BY DEF States, StateFns, GreetAloneInv, FreshInv, Untouched
  <2> QED
    BY <2>1, <2>2, <2>3, <2>4 DEF StructInv
<1>24. ASSUME NEW s \in Sid, Expire(s) PROVE StructInv'
  <2> USE <1>24 DEF Expire
  <2>1. TypeOK'
    BY <1>0 DEF States, StateFns, Labels
  <2>2. HandlersInv'
    BY DEF States, StateFns, Labels, GreetAloneInv
  <2>3. GreetAloneInv'
    BY DEF States, StateFns, GreetAloneInv
  <2>4. FreshInv'
    BY DEF States, StateFns, GreetAloneInv, FreshInv, Untouched
  <2> QED
    BY <2>1, <2>2, <2>3, <2>4 DEF StructInv
<1>25. ASSUME Prune PROVE StructInv'
  <2> USE <1>25 DEF Prune
  <2>1. TypeOK'
    BY <1>0 DEF States, StateFns, Labels
  <2>2. HandlersInv'
    BY DEF States, StateFns, Labels, GreetAloneInv
  <2>3. GreetAloneInv'
    BY DEF States, StateFns, GreetAloneInv
  <2>4. FreshInv'
    BY DEF States, StateFns, GreetAloneInv, FreshInv, Untouched
  <2> QED
    BY <2>1, <2>2, <2>3, <2>4 DEF StructInv
<1>26. CASE UNCHANGED vars
  <2> USE <1>26 DEF vars
  <2>1. TypeOK'
    BY <1>0 DEF States, StateFns, Labels
  <2>2. HandlersInv'
    BY DEF States, StateFns, Labels, GreetAloneInv
  <2>3. GreetAloneInv'
    BY DEF States, StateFns, GreetAloneInv
  <2>4. FreshInv'
    BY DEF States, StateFns, GreetAloneInv, FreshInv, Untouched
  <2> QED
    BY <2>1, <2>2, <2>3, <2>4 DEF StructInv
<1>27. ASSUME Crash PROVE StructInv'
  <2> USE <1>27 DEF Crash
  <2>1. TypeOK'
    BY <1>0 DEF States, StateFns, Labels
  <2>2. HandlersInv'
    BY DEF States, StateFns, Labels, GreetAloneInv
  <2>3. GreetAloneInv'
    BY DEF States, StateFns, GreetAloneInv
  <2>4. FreshInv'
    BY DEF States, StateFns, GreetAloneInv, FreshInv, Untouched
  <2> QED
    BY <2>1, <2>2, <2>3, <2>4 DEF StructInv
<1> QED
  BY <1>1, <1>2, <1>3, <1>4, <1>5, <1>6, <1>7, <1>8, <1>9, <1>10, <1>11, <1>12, <1>13,
       <1>14, <1>15, <1>16, <1>17, <1>18, <1>19, <1>20, <1>21, <1>22, <1>23, <1>24, <1>25,
       <1>26, <1>27 DEF Next, HandlerStep

\* Refs name commits of the database, given that Prune stays out of the write
\* windows: the window invariant carries the answer of CommitExist to the write.
LEMMA StoreStep ==
    ASSUME StructInv, StoreInv, GCPolicy # "anytime", [Next]_vars
    PROVE  StoreInv'
<1> USE NoneAssumption DEF StructInv, TypeOK, HandlersInv, GreetAloneInv,
        StoreInv, RefsPointToCommits, WindowInv, CommitMissing, storeVars, sessionVars, handlerVars
<1>1. ASSUME NEW h \in Handler, Resume(h) PROVE StoreInv'
  BY <1>1 DEF Resume, Goto
<1>2. ASSUME NEW h \in Handler, NewSession(h) PROVE StoreInv'
  BY <1>2 DEF NewSession, Goto
<1>3. ASSUME NEW h \in Handler, NilState(h) PROVE StoreInv'
  BY <1>3 DEF NilState, Panic, EndRequest, Goto
<1>4. ASSUME NEW h \in Handler, BadRequest(h) PROVE StoreInv'
  BY <1>4 DEF BadRequest, Return, Goto
<1>5. ASSUME NEW h \in Handler, Greet(h) PROVE StoreInv'
  BY <1>5 DEF Greet, Goto
<1>6. ASSUME NEW h \in Handler, GreetCheck(h) PROVE StoreInv'
  BY <1>6 DEF GreetCheck
<1>7. ASSUME NEW h \in Handler, GreetOutdated(h) PROVE StoreInv'
  BY <1>7 DEF GreetOutdated, Goto
<1>8. ASSUME NEW h \in Handler, GreetNegotiate(h) PROVE StoreInv'
  BY <1>8 DEF GreetNegotiate, Return, Goto
<1>9. ASSUME NEW h \in Handler, GreetSave(h) PROVE StoreInv'
  BY <1>9 DEF GreetSave, Goto
<1>10. ASSUME NEW h \in Handler, NegotiateTables(h) PROVE StoreInv'
  BY <1>10 DEF NegotiateTables, Return, Goto
<1>11. ASSUME NEW h \in Handler, ReceiveSome(h) PROVE StoreInv'
  BY <1>11 DEF ReceiveSome, Return, Goto
<1>12. ASSUME NEW h \in Handler, ReceiveLast(h) PROVE StoreInv'
  BY <1>12 DEF ReceiveLast, Goto
<1>13. ASSUME NEW h \in Handler, ReceiveError(h) PROVE StoreInv'
  BY <1>13 DEF ReceiveError, Panic, EndRequest, Goto
<1>14. ASSUME NEW h \in Handler, SaveRefused(h) PROVE StoreInv'
  BY <1>14 DEF SaveRefused
<1>15. ASSUME NEW h \in Handler, SaveChecked(h) PROVE StoreInv'
  BY <1>15 DEF Refused, SaveChecked, Goto
<1>16. ASSUME NEW h \in Handler, SaveWalkError(h) PROVE StoreInv'
  BY <1>16 DEF SaveWalkError, Panic, EndRequest, Goto, Flush
<1>17. ASSUME NEW h \in Handler, SaveRef(h) PROVE StoreInv'
  BY <1>17 DEF SaveRef, Goto
<1>18. ASSUME NEW h \in Handler, SaveRefError(h) PROVE StoreInv'
  BY <1>18 DEF SaveRefError, Panic, EndRequest, Goto, Flush
<1>19. ASSUME NEW h \in Handler, SaveDone(h) PROVE StoreInv'
  BY <1>19 DEF SaveDone, Goto, Flush
<1>20. ASSUME NEW h \in Handler, ReportStatus(h) PROVE StoreInv'
  BY <1>20 DEF ReportStatus, Return, Goto
<1>21. ASSUME NEW h \in Handler, ResponseError(h) PROVE StoreInv'
  BY <1>21 DEF ResponseError, Panic, EndRequest, Goto
<1>22. ASSUME NEW h \in Handler, SetState(h) PROVE StoreInv'
  BY <1>22 DEF SetState, Goto
<1>23. ASSUME NEW h \in Handler, CheckDone(h) PROVE StoreInv'
  BY <1>23 DEF CheckDone, EndRequest, Goto
<1>24. ASSUME NEW s \in Sid, Expire(s) PROVE StoreInv'
  BY <1>24 DEF Expire
<1>25. ASSUME Prune PROVE StoreInv'
  BY <1>25, AncestorsAssumption, GCPolicyAssumption DEF PruneAllowed, Reachable, Sum, Prune
<1>26. CASE UNCHANGED vars
  BY <1>26 DEF vars
<1>27. ASSUME Crash PROVE StoreInv'
  BY <1>27 DEF Crash
<1> QED
  BY <1>1, <1>2, <1>3, <1>4, <1>5, <1>6, <1>7, <1>8, <1>9, <1>10, <1>11, <1>12, <1>13,
       <1>14, <1>15, <1>16, <1>17, <1>18, <1>19, <1>20, <1>21, <1>22, <1>23, <1>24, <1>25,
       <1>26, <1>27 DEF Next, HandlerStep

\* No ref moves before the receiver has everything.
LEMMA ReceivedStep ==
    ASSUME StructInv, ReceivedInv, [Next]_vars
    PROVE  ReceivedInv'
<1> USE NoneAssumption DEF StructInv, TypeOK, HandlersInv, GreetAloneInv,
        ReceivedInv, NoRefBeforeAllObjects, InSaveRefs, storeVars, sessionVars, handlerVars
<1>1. ASSUME NEW h \in Handler, Resume(h) PROVE ReceivedInv'
  BY <1>1 DEF Resume, Goto
<1>2. ASSUME NEW h \in Handler, NewSession(h) PROVE ReceivedInv'
  BY <1>2 DEF NewSession, Goto
<1>3. ASSUME NEW h \in Handler, NilState(h) PROVE ReceivedInv'
  BY <1>3 DEF NilState, Panic, EndRequest, Goto
<1>4. ASSUME NEW h \in Handler, BadRequest(h) PROVE ReceivedInv'
  BY <1>4 DEF BadRequest, Return, Goto
<1>5. ASSUME NEW h \in Handler, Greet(h) PROVE ReceivedInv'
  BY <1>5 DEF FreshInv, Untouched, Greet, Goto
<1>6. ASSUME NEW h \in Handler, GreetCheck(h) PROVE ReceivedInv'
  BY <1>6 DEF FreshInv, Untouched, GreetCheck
<1>7. ASSUME NEW h \in Handler, GreetOutdated(h) PROVE ReceivedInv'
  BY <1>7 DEF FreshInv, Untouched, GreetOutdated, Goto
<1>8. ASSUME NEW h \in Handler, GreetNegotiate(h) PROVE ReceivedInv'
  BY <1>8 DEF FreshInv, Untouched, GreetNegotiate, Return, Goto
<1>9. ASSUME NEW h \in Handler, GreetSave(h) PROVE ReceivedInv'
  BY <1>9 DEF FreshInv, Untouched, GreetSave, Goto
<1>10. ASSUME NEW h \in Handler, NegotiateTables(h) PROVE ReceivedInv'
  BY <1>10 DEF NegotiateTables, Return, Goto
<1>11. ASSUME NEW h \in Handler, ReceiveSome(h) PROVE ReceivedInv'
  <2> USE <1>11 DEF ReceiveSome, Return, Goto
  <2>1. applied' = applied /\ \A s \in Sid : expected'[s] \subseteq expected[s]
    OBVIOUS
  <2>2. NoRefBeforeAllObjects'
    BY <2>1
  <2>3. \A k \in Handler : InSaveRefs(k)' => expected'[ses'[k]] = {}
    BY <2>1
  <2> QED
    BY <2>2, <2>3
<1>12. ASSUME NEW h \in Handler, ReceiveLast(h) PROVE ReceivedInv'
  <2> USE <1>12 DEF ReceiveLast, Goto
  <2>1. /\ applied' = applied
        /\ \A s \in Sid : expected'[s] \subseteq expected[s]
        /\ expected'[ses[h]] = {}
    BY DEF ReceiverDone
  <2>2. NoRefBeforeAllObjects'
    BY <2>1
  <2>3. \A k \in Handler : InSaveRefs(k)' => expected'[ses'[k]] = {}
    BY <2>1
  <2> QED
    BY <2>2, <2>3
<1>13. ASSUME NEW h \in Handler, ReceiveError(h) PROVE ReceivedInv'
  <2> USE <1>13 DEF ReceiveError, Panic, EndRequest, Goto
  <2>1. applied' = applied /\ \A s \in Sid : expected'[s] \subseteq expected[s]
    OBVIOUS
  <2>2. NoRefBeforeAllObjects'
    BY <2>1
  <2>3. \A k \in Handler : InSaveRefs(k)' => expected'[ses'[k]] = {}
    BY <2>1
  <2> QED
    BY <2>2, <2>3
<1>14. ASSUME NEW h \in Handler, SaveRefused(h) PROVE ReceivedInv'
  BY <1>14 DEF SaveRefused
<1>15. ASSUME NEW h \in Handler, SaveChecked(h) PROVE ReceivedInv'
  BY <1>15 DEF SaveChecked, Goto
<1>16. ASSUME NEW h \in Handler, SaveWalkError(h) PROVE ReceivedInv'
  BY <1>16 DEF SaveWalkError, Panic, EndRequest, Goto, Flush
<1>17. ASSUME NEW h \in Handler, SaveRef(h) PROVE ReceivedInv'
  BY <1>17 DEF SaveRef, Goto
<1>18. ASSUME NEW h \in Handler, SaveRefError(h) PROVE ReceivedInv'
  BY <1>18 DEF SaveRefError, Panic, EndRequest, Goto, Flush
<1>19. ASSUME NEW h \in Handler, SaveDone(h) PROVE ReceivedInv'
  BY <1>19 DEF SaveDone, Goto, Flush
<1>20. ASSUME NEW h \in Handler, ReportStatus(h) PROVE ReceivedInv'
  BY <1>20 DEF ReportStatus, Return, Goto
<1>21. ASSUME NEW h \in Handler, ResponseError(h) PROVE ReceivedInv'
  BY <1>21 DEF ResponseError, Panic, EndRequest, Goto
<1>22. ASSUME NEW h \in Handler, SetState(h) PROVE ReceivedInv'
  BY <1>22 DEF SetState, Goto
<1>23. ASSUME NEW h \in Handler, CheckDone(h) PROVE ReceivedInv'
  BY <1>23 DEF CheckDone, EndRequest, Goto
<1>24. ASSUME NEW s \in Sid, Expire(s) PROVE ReceivedInv'
  BY <1>24 DEF Expire
<1>25. ASSUME Prune PROVE ReceivedInv'
  BY <1>25 DEF Prune
<1>26. CASE UNCHANGED vars
  BY <1>26 DEF vars
<1>27. ASSUME Crash PROVE ReceivedInv'
  BY <1>27 DEF Crash
<1> QED
  BY <1>1, <1>2, <1>3, <1>4, <1>5, <1>6, <1>7, <1>8, <1>9, <1>10, <1>11, <1>12, <1>13,
       <1>14, <1>15, <1>16, <1>17, <1>18, <1>19, <1>20, <1>21, <1>22, <1>23, <1>24, <1>25,
       <1>26, <1>27 DEF Next, HandlerStep

\* A finished session in the map has a handler about to delete it.
LEMMA FinishedStep ==
    ASSUME StructInv, FinishedSessionsLeave, [Next]_vars
    PROVE  FinishedSessionsLeave'
<1> USE NoneAssumption DEF StructInv, TypeOK, HandlersInv, FinishedSessionsLeave, storeVars,
     sessionVars, handlerVars
<1>1. ASSUME NEW h \in Handler, Resume(h) PROVE FinishedSessionsLeave'
  BY <1>1 DEF Resume, Goto
<1>2. ASSUME NEW h \in Handler, NewSession(h) PROVE FinishedSessionsLeave'
  BY <1>2 DEF NewSession, Goto
<1>3. ASSUME NEW h \in Handler, NilState(h) PROVE FinishedSessionsLeave'
  BY <1>3 DEF NilState, Panic, EndRequest, Goto
<1>4. ASSUME NEW h \in Handler, BadRequest(h) PROVE FinishedSessionsLeave'
  BY <1>4 DEF BadRequest, Return, Goto
<1>5. ASSUME NEW h \in Handler, Greet(h) PROVE FinishedSessionsLeave'
  BY <1>5 DEF Greet, Goto
<1>6. ASSUME NEW h \in Handler, GreetCheck(h) PROVE FinishedSessionsLeave'
  BY <1>6 DEF GreetCheck
<1>7. ASSUME NEW h \in Handler, GreetOutdated(h) PROVE FinishedSessionsLeave'
  BY <1>7 DEF GreetOutdated, Goto
<1>8. ASSUME NEW h \in Handler, GreetNegotiate(h) PROVE FinishedSessionsLeave'
  BY <1>8 DEF GreetNegotiate, Return, Goto
<1>9. ASSUME NEW h \in Handler, GreetSave(h) PROVE FinishedSessionsLeave'
  BY <1>9 DEF GreetSave, Goto
<1>10. ASSUME NEW h \in Handler, NegotiateTables(h) PROVE FinishedSessionsLeave'
  BY <1>10 DEF NegotiateTables, Return, Goto
<1>11. ASSUME NEW h \in Handler, ReceiveSome(h) PROVE FinishedSessionsLeave'
  BY <1>11 DEF ReceiveSome, Return, Goto
<1>12. ASSUME NEW h \in Handler, ReceiveLast(h) PROVE FinishedSessionsLeave'
  BY <1>12 DEF ReceiveLast, Goto
<1>13. ASSUME NEW h \in Handler, ReceiveError(h) PROVE FinishedSessionsLeave'
  BY <1>13 DEF ReceiveError, Panic, EndRequest, Goto
<1>14. ASSUME NEW h \in Handler, SaveRefused(h) PROVE FinishedSessionsLeave'
  BY <1>14 DEF SaveRefused
<1>15. ASSUME NEW h \in Handler, SaveChecked(h) PROVE FinishedSessionsLeave'
  BY <1>15 DEF SaveChecked, Goto
<1>16. ASSUME NEW h \in Handler, SaveWalkError(h) PROVE FinishedSessionsLeave'
  BY <1>16 DEF SaveWalkError, Panic, EndRequest, Goto, Flush
<1>17. ASSUME NEW h \in Handler, SaveRef(h) PROVE FinishedSessionsLeave'
  BY <1>17 DEF SaveRef, Goto
<1>18. ASSUME NEW h \in Handler, SaveRefError(h) PROVE FinishedSessionsLeave'
  BY <1>18 DEF SaveRefError, Panic, EndRequest, Goto, Flush
<1>19. ASSUME NEW h \in Handler, SaveDone(h) PROVE FinishedSessionsLeave'
  BY <1>19 DEF SaveDone, Goto, Flush
<1>20. ASSUME NEW h \in Handler, ReportStatus(h) PROVE FinishedSessionsLeave'
  BY <1>20 DEF ReportStatus, Return, Goto
<1>21. ASSUME NEW h \in Handler, ResponseError(h) PROVE FinishedSessionsLeave'
  BY <1>21 DEF ResponseError, Panic, EndRequest, Goto
<1>22. ASSUME NEW h \in Handler, SetState(h) PROVE FinishedSessionsLeave'
  BY <1>22 DEF SetState, Goto
<1>23. ASSUME NEW h \in Handler, CheckDone(h) PROVE FinishedSessionsLeave'
  BY <1>23 DEF CheckDone, EndRequest, Goto
<1>24. ASSUME NEW s \in Sid, Expire(s) PROVE FinishedSessionsLeave'
  BY <1>24 DEF Expire
<1>25. ASSUME Prune PROVE FinishedSessionsLeave'
  BY <1>25 DEF Prune
<1>26. CASE UNCHANGED vars
  BY <1>26 DEF vars
<1>27. ASSUME Crash PROVE FinishedSessionsLeave'
  BY <1>27 DEF Crash
<1> QED
  BY <1>1, <1>2, <1>3, <1>4, <1>5, <1>6, <1>7, <1>8, <1>9, <1>10, <1>11, <1>12, <1>13,
       <1>14, <1>15, <1>16, <1>17, <1>18, <1>19, <1>20, <1>21, <1>22, <1>23, <1>24, <1>25,
       <1>26, <1>27 DEF Next, HandlerStep

\* Reports tell the truth past greet, rejected pushes write nothing.
LEMMA OutcomeStep ==
    ASSUME StructInv, OutcomeInv, [Next]_vars
    PROVE  OutcomeInv'
<1> USE NoneAssumption DEF StructInv, TypeOK, HandlersInv, OutcomeInv, storeVars,
     sessionVars, handlerVars
<1>1. ASSUME NEW h \in Handler, Resume(h) PROVE OutcomeInv'
  <2> USE <1>1 DEF Resume, Goto
  <2>1. SavedPushReportsTruly'
    BY DEF GreetAloneInv, SavedPushReportsTruly
  <2>2. RejectedPushWritesNothing'
    BY DEF GreetAloneInv, RejectedPushWritesNothing, RejectedInv
  <2>3. LoopInv'
    BY DEF GreetAloneInv, LoopInv
  <2>4. RejectedInv'
    BY DEF GreetAloneInv, RejectedInv
  <2> QED
    BY <2>1, <2>2, <2>3, <2>4 DEF OutcomeInv
<1>2. ASSUME NEW h \in Handler, NewSession(h) PROVE OutcomeInv'
  <2> USE <1>2 DEF NewSession, Goto
  <2>1. SavedPushReportsTruly'
    BY DEF SavedPushReportsTruly
  <2>2. RejectedPushWritesNothing'
    BY DEF FreshInv, Untouched, RejectedPushWritesNothing, RejectedInv
  <2>3. LoopInv'
    BY DEF FreshInv, Untouched, LoopInv
  <2>4. RejectedInv'
    BY DEF FreshInv, Untouched, RejectedInv
  <2> QED
    BY <2>1, <2>2, <2>3, <2>4 DEF OutcomeInv
<1>3. ASSUME NEW h \in Handler, NilState(h) PROVE OutcomeInv'
  <2> USE <1>3 DEF NilState, Panic, EndRequest, Goto
  <2>1. SavedPushReportsTruly'
    BY DEF SavedPushReportsTruly
  <2>2. RejectedPushWritesNothing'
    BY DEF RejectedPushWritesNothing, RejectedInv
  <2>3. LoopInv'
    BY DEF LoopInv
  <2>4. RejectedInv'
    BY DEF RejectedInv
  <2> QED
    BY <2>1, <2>2, <2>3, <2>4 DEF OutcomeInv
<1>4. ASSUME NEW h \in Handler, BadRequest(h) PROVE OutcomeInv'
  <2> USE <1>4 DEF BadRequest, Return, Goto
  <2>1. SavedPushReportsTruly'
    BY DEF SavedPushReportsTruly
  <2>2. RejectedPushWritesNothing'
    BY DEF RejectedPushWritesNothing, RejectedInv
  <2>3. LoopInv'
    BY DEF LoopInv
  <2>4. RejectedInv'
    BY DEF RejectedInv
  <2> QED
    BY <2>1, <2>2, <2>3, <2>4 DEF OutcomeInv
<1>5. ASSUME NEW h \in Handler, Greet(h) PROVE OutcomeInv'
  <2> USE <1>5 DEF Greet, Goto
  <2>1. SavedPushReportsTruly'
    BY DEF GreetAloneInv, SavedPushReportsTruly
  <2>2. RejectedPushWritesNothing'
    BY DEF GreetAloneInv, FreshInv, Untouched, RejectedPushWritesNothing, RejectedInv
  <2>3. LoopInv'
    BY DEF GreetAloneInv, FreshInv, Untouched, LoopInv
  <2>4. RejectedInv'
    BY DEF GreetAloneInv, FreshInv, Untouched, RejectedInv
  <2> QED
    BY <2>1, <2>2, <2>3, <2>4 DEF OutcomeInv
<1>6. ASSUME NEW h \in Handler, GreetCheck(h) PROVE OutcomeInv'
  <2> USE <1>6 DEF GreetCheck
  <2>1. SavedPushReportsTruly'
    BY DEF SavedPushReportsTruly
  <2>2. RejectedPushWritesNothing'
    BY DEF RejectedPushWritesNothing, RejectedInv
  <2>3. LoopInv'
    BY DEF LoopInv
  <2>4. RejectedInv'
    BY DEF RejectedInv
  <2> QED
    BY <2>1, <2>2, <2>3, <2>4 DEF OutcomeInv
<1>7. ASSUME NEW h \in Handler, GreetOutdated(h) PROVE OutcomeInv'
  <2> USE <1>7 DEF GreetOutdated, Goto
  <2>1. SavedPushReportsTruly'
    BY DEF GreetAloneInv, SavedPushReportsTruly
  <2>2. RejectedPushWritesNothing'
    BY DEF GreetAloneInv, FreshInv, Untouched, RejectedPushWritesNothing, RejectedInv
  <2>3. LoopInv'
    BY DEF GreetAloneInv, FreshInv, Untouched, LoopInv
  <2>4. RejectedInv'
    BY DEF GreetAloneInv, FreshInv, Untouched, RejectedInv
  <2> QED
    BY <2>1, <2>2, <2>3, <2>4 DEF OutcomeInv
<1>8. ASSUME NEW h \in Handler, GreetNegotiate(h) PROVE OutcomeInv'
  <2> USE <1>8 DEF GreetNegotiate, Return, Goto
  <2>1. SavedPushReportsTruly'
    BY DEF SavedPushReportsTruly
  <2>2. RejectedPushWritesNothing'
    BY DEF RejectedPushWritesNothing, RejectedInv
  <2>3. LoopInv'
    BY DEF LoopInv
  <2>4. RejectedInv'
    BY DEF RejectedInv
  <2> QED
    BY <2>1, <2>2, <2>3, <2>4 DEF OutcomeInv
<1>9. ASSUME NEW h \in Handler, GreetSave(h) PROVE OutcomeInv'
  <2> USE <1>9 DEF GreetSave, Goto
  <2>1. SavedPushReportsTruly'
    BY DEF GreetAloneInv, SavedPushReportsTruly
  <2>2. RejectedPushWritesNothing'
    BY DEF GreetAloneInv, FreshInv, Untouched, RejectedPushWritesNothing, RejectedInv
  <2>3. LoopInv'
    BY DEF GreetAloneInv, FreshInv, Untouched, LoopInv
  <2>4. RejectedInv'
    BY DEF GreetAloneInv, FreshInv, Untouched, RejectedInv
  <2> QED
    BY <2>1, <2>2, <2>3, <2>4 DEF OutcomeInv
<1>10. ASSUME NEW h \in Handler, NegotiateTables(h) PROVE OutcomeInv'
  <2> USE <1>10 DEF NegotiateTables, Return, Goto
  <2>1. SavedPushReportsTruly'
    BY DEF SavedPushReportsTruly
  <2>2. RejectedPushWritesNothing'
    BY DEF RejectedPushWritesNothing, RejectedInv
  <2>3. LoopInv'
    BY DEF LoopInv
  <2>4. RejectedInv'
    BY DEF RejectedInv
  <2> QED
    BY <2>1, <2>2, <2>3, <2>4 DEF OutcomeInv
<1>11. ASSUME NEW h \in Handler, ReceiveSome(h) PROVE OutcomeInv'
  <2> USE <1>11 DEF ReceiveSome, Return, Goto
  <2>1. SavedPushReportsTruly'
    BY DEF SavedPushReportsTruly
  <2>2. RejectedPushWritesNothing'
    BY DEF RejectedPushWritesNothing, RejectedInv
  <2>3. LoopInv'
    BY DEF LoopInv
  <2>4. RejectedInv'
    BY DEF RejectedInv
  <2> QED
    BY <2>1, <2>2, <2>3, <2>4 DEF OutcomeInv
<1>12. ASSUME NEW h \in Handler, ReceiveLast(h) PROVE OutcomeInv'
  <2> USE <1>12 DEF ReceiveLast, Goto
  <2>1. SavedPushReportsTruly'
    BY DEF SavedPushReportsTruly
  <2>2. RejectedPushWritesNothing'
    BY DEF RejectedPushWritesNothing, RejectedInv
  <2>3. LoopInv'
    BY DEF LoopInv
  <2>4. RejectedInv'
    BY DEF RejectedInv
  <2> QED
    BY <2>1, <2>2, <2>3, <2>4 DEF OutcomeInv
<1>13. ASSUME NEW h \in Handler, ReceiveError(h) PROVE OutcomeInv'
  <2> USE <1>13 DEF ReceiveError, Panic, EndRequest, Goto
  <2>1. SavedPushReportsTruly'
    BY DEF SavedPushReportsTruly
  <2>2. RejectedPushWritesNothing'
    BY DEF RejectedPushWritesNothing, RejectedInv
  <2>3. LoopInv'
    BY DEF LoopInv
  <2>4. RejectedInv'
    BY DEF RejectedInv
  <2> QED
    BY <2>1, <2>2, <2>3, <2>4 DEF OutcomeInv
<1>14. ASSUME NEW h \in Handler, SaveRefused(h) PROVE OutcomeInv'
  <2> USE <1>14 DEF SaveRefused
  <2>1. SavedPushReportsTruly'
    BY DEF SavedPushReportsTruly
  <2>2. RejectedPushWritesNothing'
    BY DEF RejectedPushWritesNothing, RejectedInv
  <2>3. LoopInv'
    BY DEF LoopInv
  <2>4. RejectedInv'
    BY DEF RejectedInv
  <2> QED
    BY <2>1, <2>2, <2>3, <2>4 DEF OutcomeInv
<1>15. ASSUME NEW h \in Handler, SaveChecked(h) PROVE OutcomeInv'
  <2> USE <1>15 DEF SaveChecked, Goto
  <2>0. ses[h] \in Sid /\ DOMAIN updates[ses[h]] \subseteq Ref
    BY UpdateMapFacts
  <2>1. SavedPushReportsTruly'
    BY <2>0 DEF SavedPushReportsTruly
  <2>2. RejectedPushWritesNothing'
    BY DEF RejectedPushWritesNothing, RejectedInv
  <2>3. LoopInv'
    BY <2>0 DEF LoopInv
  <2>4. RejectedInv'
    BY DEF RejectedInv
  <2> QED
    BY <2>1, <2>2, <2>3, <2>4 DEF OutcomeInv
<1>16. ASSUME NEW h \in Handler, SaveWalkError(h) PROVE OutcomeInv'
  <2> USE <1>16 DEF SaveWalkError, Panic, EndRequest, Goto, Flush
  <2>1. SavedPushReportsTruly'
    BY DEF SavedPushReportsTruly
  <2>2. RejectedPushWritesNothing'
    BY DEF RejectedPushWritesNothing, RejectedInv
  <2>3. LoopInv'
    BY DEF LoopInv
  <2>4. RejectedInv'
    BY DEF RejectedInv
  <2> QED
    BY <2>1, <2>2, <2>3, <2>4 DEF OutcomeInv
<1>17. ASSUME NEW h \in Handler, SaveRef(h) PROVE OutcomeInv'
  <2> USE <1>17 DEF SaveRef, Goto
  <2>1. SavedPushReportsTruly'
    BY DEF SavedPushReportsTruly
  <2>2. RejectedPushWritesNothing'
    BY DEF RejectedPushWritesNothing, RejectedInv
  <2>3. LoopInv'
    BY DEF LoopInv
  <2>4. RejectedInv'
    BY DEF RejectedInv
  <2> QED
    BY <2>1, <2>2, <2>3, <2>4 DEF OutcomeInv
<1>18. ASSUME NEW h \in Handler, SaveRefError(h) PROVE OutcomeInv'
  <2> USE <1>18 DEF SaveRefError, Panic, EndRequest, Goto, Flush
  <2>1. SavedPushReportsTruly'
    BY DEF SavedPushReportsTruly
  <2>2. RejectedPushWritesNothing'
    BY DEF RejectedPushWritesNothing, RejectedInv
  <2>3. LoopInv'
    BY DEF LoopInv
  <2>4. RejectedInv'
    BY DEF RejectedInv
  <2> QED
    BY <2>1, <2>2, <2>3, <2>4 DEF OutcomeInv
<1>19. ASSUME NEW h \in Handler, SaveDone(h) PROVE OutcomeInv'
  <2> USE <1>19 DEF SaveDone, Goto, Flush
  <2>1. SavedPushReportsTruly'
    BY DEF SavedPushReportsTruly
  <2>2. RejectedPushWritesNothing'
    BY DEF RejectedPushWritesNothing, RejectedInv
  <2>3. LoopInv'
    BY DEF LoopInv, RejectedInv
  <2>4. RejectedInv'
    BY DEF RejectedInv
  <2> QED
    BY <2>1, <2>2, <2>3, <2>4 DEF OutcomeInv
<1>20. ASSUME NEW h \in Handler, ReportStatus(h) PROVE OutcomeInv'
  <2> USE <1>20 DEF ReportStatus, Return, Goto
  <2>0. ses[h] \in Sid /\ DOMAIN updates[ses[h]] \subseteq Ref
    BY UpdateMapFacts
  <2>1. SavedPushReportsTruly'
    BY <2>0 DEF SavedPushReportsTruly, LoopInv
  <2>2. RejectedPushWritesNothing'
    BY DEF RejectedPushWritesNothing, RejectedInv
  <2>3. LoopInv'
    BY <2>0 DEF LoopInv
  <2>4. RejectedInv'
    BY DEF RejectedInv
  <2> QED
    BY <2>1, <2>2, <2>3, <2>4 DEF OutcomeInv
<1>21. ASSUME NEW h \in Handler, ResponseError(h) PROVE OutcomeInv'
  <2> USE <1>21 DEF ResponseError, Panic, EndRequest, Goto
  <2>1. SavedPushReportsTruly'
    BY DEF SavedPushReportsTruly
  <2>2. RejectedPushWritesNothing'
    BY DEF RejectedPushWritesNothing, RejectedInv
  <2>3. LoopInv'
    BY DEF LoopInv
  <2>4. RejectedInv'
    BY DEF RejectedInv
  <2> QED
    BY <2>1, <2>2, <2>3, <2>4 DEF OutcomeInv
<1>22. ASSUME NEW h \in Handler, SetState(h) PROVE OutcomeInv'
  <2> USE <1>22 DEF SetState, Goto
  <2>1. SavedPushReportsTruly'
    BY DEF GreetAloneInv, SavedPushReportsTruly
  <2>2. RejectedPushWritesNothing'
    BY DEF GreetAloneInv, RejectedPushWritesNothing, RejectedInv
  <2>3. LoopInv'
    BY DEF GreetAloneInv, LoopInv
  <2>4. RejectedInv'
    BY DEF GreetAloneInv, RejectedInv
  <2> QED
    BY <2>1, <2>2, <2>3, <2>4 DEF OutcomeInv
<1>23. ASSUME NEW h \in Handler, CheckDone(h) PROVE OutcomeInv'
  <2> USE <1>23 DEF CheckDone, EndRequest, Goto
  <2>1. SavedPushReportsTruly'
    BY DEF GreetAloneInv, SavedPushReportsTruly
  <2>2. RejectedPushWritesNothing'
    BY DEF GreetAloneInv, RejectedPushWritesNothing, RejectedInv
  <2>3. LoopInv'
    BY DEF GreetAloneInv, LoopInv
  <2>4. RejectedInv'
    BY DEF GreetAloneInv, RejectedInv
  <2> QED
    BY <2>1, <2>2, <2>3, <2>4 DEF OutcomeInv
<1>24. ASSUME NEW s \in Sid, Expire(s) PROVE OutcomeInv'
  <2> USE <1>24 DEF Expire
  <2>1. SavedPushReportsTruly'
    BY DEF SavedPushReportsTruly
  <2>2. RejectedPushWritesNothing'
    BY DEF RejectedPushWritesNothing, RejectedInv
  <2>3. LoopInv'
    BY DEF LoopInv
  <2>4. RejectedInv'
    BY DEF RejectedInv
  <2> QED
    BY <2>1, <2>2, <2>3, <2>4 DEF OutcomeInv
<1>25. ASSUME Prune PROVE OutcomeInv'
  <2> USE <1>25 DEF Prune
  <2>1. SavedPushReportsTruly'
    BY DEF SavedPushReportsTruly
  <2>2. RejectedPushWritesNothing'
    BY DEF RejectedPushWritesNothing, RejectedInv
  <2>3. LoopInv'
    BY DEF LoopInv
  <2>4. RejectedInv'
    BY DEF RejectedInv
  <2> QED
    BY <2>1, <2>2, <2>3, <2>4 DEF OutcomeInv
<1>26. CASE UNCHANGED vars
  <2> USE <1>26 DEF vars
  <2>1. SavedPushReportsTruly'
    BY DEF SavedPushReportsTruly
  <2>2. RejectedPushWritesNothing'
    BY DEF RejectedPushWritesNothing, RejectedInv
  <2>3. LoopInv'
    BY DEF LoopInv
  <2>4. RejectedInv'
    BY DEF RejectedInv
  <2> QED
    BY <2>1, <2>2, <2>3, <2>4 DEF OutcomeInv
<1>27. ASSUME Crash PROVE OutcomeInv'
  <2> USE <1>27 DEF Crash
  <2>1. SavedPushReportsTruly'
    BY DEF SavedPushReportsTruly
  <2>2. RejectedPushWritesNothing'
    BY DEF RejectedPushWritesNothing, RejectedInv
  <2>3. LoopInv'
    BY DEF LoopInv
  <2>4. RejectedInv'
    BY DEF RejectedInv
  <2> QED
    BY <2>1, <2>2, <2>3, <2>4 DEF OutcomeInv
<1> QED
  BY <1>1, <1>2, <1>3, <1>4, <1>5, <1>6, <1>7, <1>8, <1>9, <1>10, <1>11, <1>12, <1>13,
       <1>14, <1>15, <1>16, <1>17, <1>18, <1>19, <1>20, <1>21, <1>22, <1>23, <1>24, <1>25,
       <1>26, <1>27 DEF Next, HandlerStep

\* Events wait in the queue only while a handler of the session is in saveRefs.
LEMMA FlushStep ==
    ASSUME StructInv, EveryChangeIsFlushed, [Next]_vars
    PROVE  EveryChangeIsFlushed'
<1> USE NoneAssumption DEF StructInv, TypeOK, HandlersInv,
        EveryChangeIsFlushed, InSaveRefs, storeVars, sessionVars, handlerVars
<1>1. ASSUME NEW h \in Handler, Resume(h) PROVE EveryChangeIsFlushed'
  BY <1>1 DEF Resume, Goto
<1>2. ASSUME NEW h \in Handler, NewSession(h) PROVE EveryChangeIsFlushed'
  BY <1>2 DEF NewSession, Goto
<1>3. ASSUME NEW h \in Handler, NilState(h) PROVE EveryChangeIsFlushed'
  BY <1>3 DEF NilState, Panic, EndRequest, Goto
<1>4. ASSUME NEW h \in Handler, BadRequest(h) PROVE EveryChangeIsFlushed'
  BY <1>4 DEF BadRequest, Return, Goto
<1>5. ASSUME NEW h \in Handler, Greet(h) PROVE EveryChangeIsFlushed'
  BY <1>5 DEF Greet, Goto
<1>6. ASSUME NEW h \in Handler, GreetCheck(h) PROVE EveryChangeIsFlushed'
  BY <1>6 DEF GreetCheck
<1>7. ASSUME NEW h \in Handler, GreetOutdated(h) PROVE EveryChangeIsFlushed'
  BY <1>7 DEF GreetOutdated, Goto
<1>8. ASSUME NEW h \in Handler, GreetNegotiate(h) PROVE EveryChangeIsFlushed'
  BY <1>8 DEF GreetNegotiate, Return, Goto
<1>9. ASSUME NEW h \in Handler, GreetSave(h) PROVE EveryChangeIsFlushed'
  BY <1>9 DEF GreetSave, Goto
<1>10. ASSUME NEW h \in Handler, NegotiateTables(h) PROVE EveryChangeIsFlushed'
  BY <1>10 DEF NegotiateTables, Return, Goto
<1>11. ASSUME NEW h \in Handler, ReceiveSome(h) PROVE EveryChangeIsFlushed'
  BY <1>11 DEF ReceiveSome, Return, Goto
<1>12. ASSUME NEW h \in Handler, ReceiveLast(h) PROVE EveryChangeIsFlushed'
  BY <1>12 DEF ReceiveLast, Goto
<1>13. ASSUME NEW h \in Handler, ReceiveError(h) PROVE EveryChangeIsFlushed'
  BY <1>13 DEF ReceiveError, Panic, EndRequest, Goto
<1>14. ASSUME NEW h \in Handler, SaveRefused(h) PROVE EveryChangeIsFlushed'
  BY <1>14 DEF SaveRefused
<1>15. ASSUME NEW h \in Handler, SaveChecked(h) PROVE EveryChangeIsFlushed'
  BY <1>15 DEF SaveChecked, Goto
<1>16. ASSUME NEW h \in Handler, SaveWalkError(h) PROVE EveryChangeIsFlushed'
  BY <1>16 DEF SaveWalkError, Panic, EndRequest, Goto, Flush
<1>17. ASSUME NEW h \in Handler, SaveRef(h) PROVE EveryChangeIsFlushed'
  BY <1>17 DEF SaveRef, Goto
<1>18. ASSUME NEW h \in Handler, SaveRefError(h) PROVE EveryChangeIsFlushed'
  BY <1>18 DEF SaveRefError, Panic, EndRequest, Goto, Flush
<1>19. ASSUME NEW h \in Handler, SaveDone(h) PROVE EveryChangeIsFlushed'
  BY <1>19 DEF SaveDone, Goto, Flush
<1>20. ASSUME NEW h \in Handler, ReportStatus(h) PROVE EveryChangeIsFlushed'
  BY <1>20 DEF ReportStatus, Return, Goto
<1>21. ASSUME NEW h \in Handler, ResponseError(h) PROVE EveryChangeIsFlushed'
  BY <1>21 DEF ResponseError, Panic, EndRequest, Goto
<1>22. ASSUME NEW h \in Handler, SetState(h) PROVE EveryChangeIsFlushed'
  BY <1>22 DEF SetState, Goto
<1>23. ASSUME NEW h \in Handler, CheckDone(h) PROVE EveryChangeIsFlushed'
  BY <1>23 DEF CheckDone, EndRequest, Goto
<1>24. ASSUME NEW s \in Sid, Expire(s) PROVE EveryChangeIsFlushed'
  BY <1>24 DEF Expire
<1>25. ASSUME Prune PROVE EveryChangeIsFlushed'
  BY <1>25 DEF Prune
<1>26. CASE UNCHANGED vars
  BY <1>26 DEF vars
<1>27. ASSUME Crash PROVE EveryChangeIsFlushed'
  BY <1>27 DEF Crash
<1> QED
  BY <1>1, <1>2, <1>3, <1>4, <1>5, <1>6, <1>7, <1>8, <1>9, <1>10, <1>11, <1>12, <1>13,
       <1>14, <1>15, <1>16, <1>17, <1>18, <1>19, <1>20, <1>21, <1>22, <1>23, <1>24, <1>25,
       <1>26, <1>27 DEF Next, HandlerStep

\* The invariants hold initially and every step keeps them.
THEOREM Invariance == Spec => []IInv
<1>1. Init => IInv
  <2> SUFFICES ASSUME Init PROVE IInv
    OBVIOUS
  <2>1. StructInv
    BY StructInit
  <2>2. StoreInv
    BY AncestorsAssumption, InitRefsAssumption
    DEF Init, StoreInv, RefsPointToCommits, WindowInv, Reachable, Sum
  <2>3. ReceivedInv
    BY DEF Init, ReceivedInv, NoRefBeforeAllObjects, InSaveRefs
  <2>4. FinishedSessionsLeave
    BY DEF Init, FinishedSessionsLeave
  <2>5. OutcomeInv
    BY DEF Init, OutcomeInv, SavedPushReportsTruly, RejectedPushWritesNothing, LoopInv,
         RejectedInv
  <2>6. EveryChangeIsFlushed
    BY DEF Init, EveryChangeIsFlushed
  <2> QED
    BY <2>1, <2>2, <2>3, <2>4, <2>5, <2>6 DEF IInv
<1>2. IInv /\ [Next]_vars => IInv'
  BY StructStep, StoreStep, ReceivedStep, FinishedStep, OutcomeStep, FlushStep DEF IInv
<1> QED
  BY <1>1, <1>2, PTL DEF Spec

\* Every variable keeps its type: the session map holds sessions, the update
\* maps only name refs and sums, a handler's locals match its place in the code.
THEOREM TypeCorrect == Spec => []TypeOK
<1>1. IInv => TypeOK
  BY DEF IInv, StructInv
<1> QED
  BY <1>1, Invariance, PTL

\* Unless Prune enters a write window of saveRefs, no interleaving of pushes,
\* packfiles, failures and pruning leaves a ref without its commit.
THEOREM RefsKeepTheirCommits ==
    ASSUME GCPolicy # "anytime"
    PROVE  Spec => []RefsPointToCommits
<1>1. IInv => RefsPointToCommits
  BY DEF IInv, StoreInv
<1> QED
  BY <1>1, Invariance, PTL

\* A ref moves only after every commit its push announced was received.
THEOREM ObjectsBeforeRefs == Spec => []NoRefBeforeAllObjects
<1>1. IInv => NoRefBeforeAllObjects
  BY DEF IInv, ReceivedInv
<1> QED
  BY <1>1, Invariance, PTL

\* However the requests of a session race on s.state, a finished session is
\* deleted from the map by the last of them.
THEOREM FinishedSessionsAreDeleted == Spec => []FinishedSessionsLeave
<1>1. IInv => FinishedSessionsLeave
  BY DEF IInv
<1> QED
  BY <1>1, Invariance, PTL

\* An update reported without ErrMsg after saveRefs was written.
THEOREM ReportsAfterSaveAreTrue == Spec => []SavedPushReportsTruly
<1>1. IInv => SavedPushReportsTruly
  BY DEF IInv, OutcomeInv
<1> QED
  BY <1>1, Invariance, PTL

\* A push that greet rejects has changed no ref and never will.
THEOREM RejectionIsTotal == Spec => []RejectedPushWritesNothing
<1>1. IInv => RejectedPushWritesNothing
  BY DEF IInv, OutcomeInv
<1> QED
  BY <1>1, Invariance, PTL

\* No webhook event of a ref change stays in the queue for want of a Flush.
THEOREM ChangesAreFlushed == Spec => []EveryChangeIsFlushed
<1>1. IInv => EveryChangeIsFlushed
  BY DEF IInv
<1> QED
  BY <1>1, Invariance, PTL

-----------------------------------------------------------------------------
(* The refinement of AtomicPush: served one request at a time, over a ref   *)
(* store that can be read, an update takes effect in one step, on the value *)
(* the push expects, and at most once, however sessions, rejected pushes,  *)
(* partial failures, crashes, expiry and pruning interleave between the    *)
(* requests.                                                               *)

\* With one handler nothing comes between the checks of saveRefs and its write,
\* and a session that has saved its refs is never dispatched again.
LEMMA SerialStep ==
    ASSUME OneRequestAtATime, ~ReadErrors, StructInv, SerialInv, [Next]_vars
    PROVE  SerialInv'
<1> USE NoneAssumption DEF StructInv, TypeOK, HandlersInv, OneRequestAtATime, SerialInv, Saving,
        Outdated, NotFastForward, ChecksFastForward, IsFastForward, storeVars, sessionVars, handlerVars
<1>1. ASSUME NEW h \in Handler, Resume(h) PROVE SerialInv'
  BY <1>1 DEF GreetAloneInv, FreshInv, Untouched, Resume, Goto
<1>2. ASSUME NEW h \in Handler, NewSession(h) PROVE SerialInv'
  BY <1>2 DEF GreetAloneInv, FreshInv, Untouched, NewSession, Goto
<1>3. ASSUME NEW h \in Handler, NilState(h) PROVE SerialInv'
  BY <1>3 DEF NilState, Panic, EndRequest, Goto
<1>4. ASSUME NEW h \in Handler, BadRequest(h) PROVE SerialInv'
  BY <1>4 DEF BadRequest, Return, Goto
<1>5. ASSUME NEW h \in Handler, Greet(h) PROVE SerialInv'
  BY <1>5 DEF GreetAloneInv, FreshInv, Untouched, Greet, Goto
<1>6. ASSUME NEW h \in Handler, GreetCheck(h) PROVE SerialInv'
  BY <1>6 DEF GreetCheck
<1>7. ASSUME NEW h \in Handler, GreetOutdated(h) PROVE SerialInv'
  BY <1>7 DEF GreetOutdated, Goto
<1>8. ASSUME NEW h \in Handler, GreetNegotiate(h) PROVE SerialInv'
  BY <1>8 DEF GreetNegotiate, Return, Goto
<1>9. ASSUME NEW h \in Handler, GreetSave(h) PROVE SerialInv'
  BY <1>9 DEF GreetAloneInv, FreshInv, Untouched, GreetSave, Goto
<1>10. ASSUME NEW h \in Handler, NegotiateTables(h) PROVE SerialInv'
  BY <1>10 DEF NegotiateTables, Return, Goto
<1>11. ASSUME NEW h \in Handler, ReceiveSome(h) PROVE SerialInv'
  BY <1>11 DEF ReceiveSome, Return, Goto
<1>12. ASSUME NEW h \in Handler, ReceiveLast(h) PROVE SerialInv'
  BY <1>12 DEF GreetAloneInv, FreshInv, Untouched, ReceiveLast, Goto
<1>13. ASSUME NEW h \in Handler, ReceiveError(h) PROVE SerialInv'
  BY <1>13 DEF ReceiveError, Panic, EndRequest, Goto
<1>14. ASSUME NEW h \in Handler, SaveRefused(h) PROVE SerialInv'
  BY <1>14 DEF SaveRefused
<1>15. ASSUME NEW h \in Handler, SaveChecked(h) PROVE SerialInv'
  <2> USE <1>15 DEF SaveChecked, Goto
  <2>1. PICK r \in todo[h] :
          /\ ~Refused(ses[h], r, refs[r])
          /\ ~NotFastForward(ses[h], r, refs[r])
          /\ cur' = [cur EXCEPT ![h] = r]
          /\ todo' = [todo EXCEPT ![h] = @ \ {r}]
    <3>1. \A r \in todo[h] : \A old \in Seen(r) : old = refs[r]
      BY ONLY ~ReadErrors DEF Seen
    <3>2. \E r \in todo[h] : \E old \in Seen(r) :
             /\ ~Refused(ses[h], r, old)
             /\ ~NotFastForward(ses[h], r, old)
             /\ cur' = [cur EXCEPT ![h] = r]
             /\ todo' = [todo EXCEPT ![h] = @ \ {r}]
      BY ONLY <1>15 DEF SaveChecked
    <3> QED
      BY ONLY <3>1, <3>2
  <2>2. /\ ses[h] \in Sid
        /\ todo[h] \cap applied[ses[h]] = {}
        /\ cur'[h] = r
        /\ todo'[h] = todo[h] \ {r}
    BY <2>1
  <2>3. ~Outdated(ses[h], r, refs[r]) /\ (updates[ses[h]][r].sum = None => ~DenyDeletes)
    BY <2>1 DEF Refused
  <2>4. /\ r \notin applied[ses[h]] \cup todo'[h]
        /\ todo'[h] \cap applied[ses[h]] = {}
    BY <2>2
  <2>5. \A k \in Handler : k = h
    OBVIOUS
  <2>6. \A s \in live' : applied'[s] # {} =>
           \E k \in Handler : ses'[k] = s /\ Saving(k)'
    BY <2>5
  <2>7. /\ pc'[h] = "write"
        /\ UNCHANGED <<refs, state, updates, applied, ses>>
    OBVIOUS
  <2>8. /\ ~Outdated(ses[h], r, refs[r])'
        /\ (updates[ses[h]][r].sum = None => ~DenyDeletes)'
        /\ ~NotFastForward(ses[h], r, refs[r])'
    BY <2>1, <2>3, <2>7
  <2>9. \A s \in Sid : state'[s] = "unused" => updates'[s] = NoUpdates
    BY <2>7
  <2>10. ASSUME NEW k \in Handler
         PROVE  /\ pc'[k] = "write" /\ ses'[k] = ses[h] /\ cur'[k] = r
                /\ todo'[k] = todo[h] \ {r} /\ applied' = applied
    BY ONLY <2>2, <2>5, <2>7, <2>10
  <2>11. /\ r \notin applied[ses[h]] \cup (todo[h] \ {r})
         /\ (todo[h] \ {r}) \cap applied[ses[h]] = {}
    BY ONLY <2>2, <2>4
  <2> QED
    BY ONLY <2>6, <2>8, <2>9, <2>10, <2>11
    DEF SerialInv, Outdated, NotFastForward, ChecksFastForward, IsFastForward
<1>16. ASSUME NEW h \in Handler, SaveWalkError(h) PROVE SerialInv'
  BY <1>16 DEF SaveWalkError, Panic, EndRequest, Goto, Flush
<1>17. ASSUME NEW h \in Handler, SaveRef(h) PROVE SerialInv'
  BY <1>17 DEF GreetAloneInv, FreshInv, Untouched, SaveRef, Goto
<1>18. ASSUME NEW h \in Handler, SaveRefError(h) PROVE SerialInv'
  BY <1>18 DEF SaveRefError, Panic, EndRequest, Goto, Flush
<1>19. ASSUME NEW h \in Handler, SaveDone(h) PROVE SerialInv'
  BY <1>19 DEF SaveDone, Goto, Flush
<1>20. ASSUME NEW h \in Handler, ReportStatus(h) PROVE SerialInv'
  BY <1>20 DEF ReportStatus, Return, Goto
<1>21. ASSUME NEW h \in Handler, ResponseError(h) PROVE SerialInv'
  BY <1>21 DEF ResponseError, Panic, EndRequest, Goto
<1>22. ASSUME NEW h \in Handler, SetState(h) PROVE SerialInv'
  <2> USE <1>22 DEF SetState, Goto
  <2>1. ASSUME NEW s \in live', applied'[s] # {}
        PROVE  \E k \in Handler : ses'[k] = s /\ Saving(k)'
    <3>1. PICK k \in Handler : ses[k] = s /\ Saving(k)
      BY <2>1
    <3>2. k = h /\ next[h] = "nil"
      BY <3>1
    <3> QED
      BY <3>1, <3>2
  <2>2. \A k \in Handler : k = h
    OBVIOUS
  <2>3. pc'[h] = "checkDone" /\ next'[h] \in StateFns
    OBVIOUS
  <2> QED
    BY <2>1, <2>2, <2>3 DEF StateFns
<1>23. ASSUME NEW h \in Handler, CheckDone(h) PROVE SerialInv'
  BY <1>23 DEF GreetAloneInv, FreshInv, Untouched, CheckDone, EndRequest, Goto
<1>24. ASSUME NEW s \in Sid, Expire(s) PROVE SerialInv'
  BY <1>24 DEF Expire
<1>25. ASSUME Prune PROVE SerialInv'
  BY <1>25 DEF Prune
<1>26. CASE UNCHANGED vars
  BY <1>26 DEF vars
<1>27. ASSUME Crash PROVE SerialInv'
  BY <1>27 DEF Crash
<1> QED
  BY <1>1, <1>2, <1>3, <1>4, <1>5, <1>6, <1>7, <1>8, <1>9, <1>10, <1>11, <1>12, <1>13,
       <1>14, <1>15, <1>16, <1>17, <1>18, <1>19, <1>20, <1>21, <1>22, <1>23, <1>24, <1>25,
       <1>26, <1>27 DEF Next, HandlerStep

\* Only greet announces a push and only SaveRef applies one of its updates; both
\* are steps of the promise, every other step leaves its variables alone.
LEMMA SimulationStep ==
    ASSUME StructInv, SerialInv, [Next]_vars
    PROVE  [Promise!Next]_(Promise!vars)
<1> USE NoneAssumption DEF StructInv, TypeOK, HandlersInv, SerialInv, Promise!vars,
        storeVars, sessionVars, handlerVars
<1>1. ASSUME NEW h \in Handler, Greet(h) PROVE Promise!Next
  <2>1. ses[h] \in Sid /\ updates[ses[h]] = Promise!NoUpdates
    BY <1>1 DEF Greet, NoUpdates, Promise!NoUpdates
  <2>2. Promise!Announce(ses[h])
    BY <1>1, <2>1 DEF Greet, Promise!Announce
  <2> QED
    BY <2>1, <2>2 DEF Promise!Next
<1>2. ASSUME NEW h \in Handler, SaveRef(h) PROVE Promise!Next
  <2>1. ses[h] \in Sid /\ cur[h] \in DOMAIN updates[ses[h]] \ applied[ses[h]]
    BY <1>2 DEF SaveRef
  <2>2. Promise!Permitted(updates[ses[h]][cur[h]].old, updates[ses[h]][cur[h]].sum)
    BY <1>2, <2>1
    DEF SaveRef, Promise!Permitted, Outdated, NotFastForward, ChecksFastForward, IsFastForward
  <2>3. Promise!Apply(ses[h], cur[h])
    BY <1>2, <2>1, <2>2 DEF SaveRef, Outdated, Promise!Apply
  <2> QED
    BY <2>1, <2>3 DEF Promise!Next
<1>3. ASSUME NEW h \in Handler, HandlerStep(h), ~Greet(h), ~SaveRef(h)
      PROVE UNCHANGED <<refs, updates, applied>>
  BY <1>3 DEF HandlerStep, Resume, NewSession, NilState, BadRequest, GreetCheck, GreetOutdated,
      GreetNegotiate, GreetSave, NegotiateTables, ReceiveSome, ReceiveLast, ReceiveError,
      SaveRefused, SaveChecked, SaveWalkError, SaveRefError, SaveDone, ReportStatus, ResponseError,
      SetState, CheckDone
<1>4. ASSUME NEW s \in Sid, Expire(s) PROVE UNCHANGED <<refs, updates, applied>>
  BY <1>4 DEF Expire
<1>5. ASSUME Prune PROVE UNCHANGED <<refs, updates, applied>>
  BY <1>5 DEF Prune
<1>6. ASSUME Crash PROVE UNCHANGED <<refs, updates, applied>>
  BY <1>6 DEF Crash
<1>7. CASE UNCHANGED vars
  BY <1>7 DEF vars
<1> QED
  BY <1>1, <1>2, <1>3, <1>4, <1>5, <1>6, <1>7 DEF Next

\* With one request at a time and refs that can be read, every behaviour of receive-pack is a behaviour
\* of AtomicPush: no lost update, no forbidden deletion or non-fast-forward.
THEOREM Refinement ==
    ASSUME OneRequestAtATime, ~ReadErrors
    PROVE  Spec => ImplementsAtomicPush
<1>1. Init => SerialInv /\ Promise!Init
  BY DEF Init, SerialInv, Promise!Init, NoUpdates, Promise!NoUpdates
<1>2. StructInv /\ SerialInv /\ [Next]_vars => SerialInv'
  BY SerialStep
<1>3. StructInv /\ SerialInv /\ [Next]_vars => [Promise!Next]_(Promise!vars)
  BY SimulationStep
<1>4. IInv => StructInv
  BY DEF IInv
<1> QED
  BY <1>1, <1>2, <1>3, <1>4, Invariance, PTL DEF Spec, ImplementsAtomicPush, Promise!Spec
=============================================================================
