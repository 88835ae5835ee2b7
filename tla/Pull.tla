-------------------------------- MODULE Pull --------------------------------
(***************************************************************************)
(* What a pull promises to its client, without sessions, rounds of         *)
(* negotiation or batches: the client first says what it wants and which   *)
(* tables it has, then gets each object that is left at most once, and is  *)
(* told that the pull is done only when nothing is missing.  A pull that   *)
(* breaks off starts over.                                                 *)
(***************************************************************************)
EXTENDS FiniteSets

CONSTANTS Commit, Table, Ancestors, TableOf, Deep, ClientHas, ClientWants

VARIABLES
    wants,   \* commits asked for
    struck,  \* tables the client does not need
    got,     \* objects sent to the client
    done     \* the pull has ended well

vars == <<wants, struck, got, done>>

History == UNION {Ancestors[c] : c \in wants}
TablesOf(cs) == {TableOf[c] : c \in cs \ Deep}

\* What may be sent, and what must have been sent in the end.
Allowed == History \cup (TablesOf(History) \ struck)
Owed == (History \ ClientHas) \cup (TablesOf(History \ ClientHas) \ struck)

Init == wants = {} /\ struck = {} /\ got = {} /\ done = FALSE

Ask ==
    /\ got = {} /\ ~done
    /\ \E ws \in ClientWants : wants' = wants \cup ws
    /\ UNCHANGED <<struck, got, done>>

Strike ==
    /\ got = {} /\ ~done
    /\ \E ts \in SUBSET Table : struck' = struck \cup ts
    /\ UNCHANGED <<wants, got, done>>

Send ==
    /\ ~done
    /\ \E objects \in SUBSET (Allowed \ got) : got' = got \cup objects
    /\ done' \in BOOLEAN
    /\ done' => Owed \subseteq got'
    /\ UNCHANGED <<wants, struck>>

StartOver == wants' = {} /\ struck' = {} /\ got' = {} /\ done' = FALSE

Next == Ask \/ Strike \/ Send \/ StartOver

Spec == Init /\ [][Next]_vars
=============================================================================
