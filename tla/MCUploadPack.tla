---------------------------- MODULE MCUploadPack ----------------------------
(***************************************************************************)
(* UploadPack for TLC: a history of three commits with a second head beside *)
(* it that has the table of c1.  The client has c1, which is also the one   *)
(* commit beyond its depth: its table is sent for the sake of d1 only.     *)
(***************************************************************************)
EXTENDS UploadPack, TLC

CONSTANTS c1, c2, c3, d1, t1, t2, t3

MCAncestors == (c1 :> {c1}) @@ (c2 :> {c1, c2}) @@ (c3 :> {c1, c2, c3}) @@ (d1 :> {d1})
MCTableOf == (c1 :> t1) @@ (c2 :> t2) @@ (c3 :> t3) @@ (d1 :> t1)
MCDeep == {c1}
MCClientHas == {c1}
MCClientWants == {{}, {c3}, {d1}}
=============================================================================
