----------------------------- MODULE AtomicPush -----------------------------
(***************************************************************************)
(* What a push promises to its client, without sessions, packfiles or      *)
(* handlers: each update is applied at most once, as one compare-and-swap  *)
(* of its ref, to a value the server's configuration accepts.  Updates of  *)
(* one push succeed or fail independently.                                 *)
(***************************************************************************)
EXTENDS FiniteSets, Functions

CONSTANTS Ref, Commit, Ancestors, None, Sid, Pushes, InitRefs,
          DenyDeletes, DenyNonFastForwards

VARIABLES
    refs,     \* the ref store
    updates,  \* what each push asks for
    applied   \* the updates of each push that took effect

vars == <<refs, updates, applied>>

NoUpdates == [r \in {} |-> [old |-> None, sum |-> None]]

\* What the server's receive configuration lets a push do to a ref.
Permitted(old, sum) ==
    /\ sum = None => ~DenyDeletes
    /\ (DenyNonFastForwards /\ old # None /\ sum # None) => old \in Ancestors[sum]

Init ==
    /\ refs = InitRefs
    /\ updates = [s \in Sid |-> NoUpdates]
    /\ applied = [s \in Sid |-> {}]

\* A push is announced once.
Announce(s) ==
    /\ updates[s] = NoUpdates
    /\ \E u \in Pushes : updates' = [updates EXCEPT ![s] = u]
    /\ UNCHANGED <<refs, applied>>

\* One of its updates takes effect: the ref holds the expected value and is
\* replaced in the same step.
Apply(s, r) ==
    /\ r \in DOMAIN updates[s] \ applied[s]
    /\ refs[r] = updates[s][r].old
    /\ Permitted(updates[s][r].old, updates[s][r].sum)
    /\ refs' = [refs EXCEPT ![r] = updates[s][r].sum]
    /\ applied' = [applied EXCEPT ![s] = @ \cup {r}]
    /\ UNCHANGED updates

Next ==
    \E s \in Sid : Announce(s) \/ \E r \in DOMAIN updates[s] : Apply(s, r)

Spec == Init /\ [][Next]_vars
=============================================================================
