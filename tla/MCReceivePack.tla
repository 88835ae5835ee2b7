--------------------------- MODULE MCReceivePack ---------------------------
(***************************************************************************)
(* Small instances of ReceivePack for TLC: two refs, a commit c1 that both *)
(* refs may start at, its child c2 and its grandchild c3.                  *)
(***************************************************************************)
EXTENDS ReceivePackInv, TLC

CONSTANTS r1, r2, c1, c2, c3

MCAncestors == (c1 :> {c1}) @@ (c2 :> {c1, c2}) @@ (c3 :> {c1, c2, c3})
MCInitRefs == (r1 :> c1) @@ (r2 :> None)

Upd(o, n) == [old |-> o, sum |-> n]

\* Fast-forward r1 past c2 and create r2; rewind r1 and delete r2 once that was
\* done, wholly or partly outdated until then; delete r1.  When c2 comes in a
\* packfile of its own, a prune may remove it before c3 arrives.
MCPushes == {
    (r1 :> Upd(c1, c3)) @@ (r2 :> Upd(None, c2)),
    (r1 :> Upd(c3, c1)) @@ (r2 :> Upd(c2, None)),
    (r1 :> Upd(c1, None)) }

MCPacks == {{c1}, {c2}, {c3}, {c2, c3}}

\* For two handlers: the first of these and the deletion of r1, whose commit a
\* prune may then remove under the first.
MCRacingPushes == {u \in MCPushes : u[r1].old = c1}
MCRacingPacks == MCPacks \ {{c1}}

Symmetric == Permutations(Sid) \cup Permutations(Handler)
=============================================================================
