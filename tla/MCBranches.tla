----------------------------- MODULE MCBranches -----------------------------
(***************************************************************************)
(* Branches for TLC.  Nothing tells branches, commits, tables, transactions *)
(* or handlers apart, so that every permutation of them is a symmetry.     *)
(***************************************************************************)
EXTENDS BranchesInv, TLC

Symmetric ==
    UNION {Permutations(S) : S \in {Branch, Commit, Table, Tid, Handler}}
=============================================================================
