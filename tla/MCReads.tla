------------------------------ MODULE MCReads ------------------------------
(***************************************************************************)
(* Reads for TLC: blocks of two rows; a table of three rows, whose last     *)
(* block is short, and one of two rows, whose only block is full.          *)
(***************************************************************************)
EXTENDS Bundles, TLC

CONSTANTS m, c1, c2, t1, t2

MCTableOf == (c1 :> t1) @@ (c2 :> t2)
MCAncestors == (c1 :> {c1}) @@ (c2 :> {c1, c2})
MCParents == (c1 :> <<>>) @@ (c2 :> <<c1>>)
MCRowsCount == (t1 :> 3) @@ (t2 :> 2)

Url(path, of, args) == [path |-> path, of |-> of, args |-> args, format |-> "csv"]

MCUrls == {
    Url("blocks", m, <<>>), Url("blocks", m, <<1>>), Url("blocks", m, <<0, 1>>),
    Url("blocks", m, <<-1, 1>>), Url("blocks", c1, <<1, 2>>), Url("blocks", t1, <<0, 3>>),
    Url("rows", m, <<2, 0>>), Url("rows", t1, <<0, 3>>),
    Url("rows", t2, <<-1>>), Url("rows", m, <<>>),
    Url("commit", c1, <<>>), Url("head", m, <<>>), Url("table", t1, <<>>),
    [Url("blocks", m, <<>>) EXCEPT !.format = "other"] }

Job(path, names, depth) == [path |-> path, names |-> names, depth |-> depth]
MCJobs == {
    Job("objects", <<t1, t2>>, 0), Job("commits", <<m>>, 0), Job("commits", <<m>>, 1),
    Job("commits", <<c2>>, 20), Job("diff", <<c2, c1>>, 0), Job("diff", <<c1, c1>>, 0),
    Job("profile", <<c1>>, 0), Job("profile", <<t2>>, 0) }

MCHeadUrls == {Url("blocks", m, <<>>)}
=============================================================================
