------------------------------ MODULE Bundles ------------------------------
(***************************************************************************)
(* The endpoints whose answer is made of several objects: packfiles of      *)
(* tables, trees of commits, diffs and profiles.  They read the store       *)
(* beside the pushes and prunes of Reads; a packfile is written while its   *)
(* blocks are read, the other answers when everything has been read.        *)
(*                                                                         *)
(* Sources: pkg/server/get_objects_handler.go, get_commits_handler.go,     *)
(* diff_handler.go, profile_handlers.go.                                   *)
(***************************************************************************)
EXTENDS Reads

CONSTANTS
    Parents,  \* the parents of each commit
    Jobs      \* requests a client may send: endpoint, names, maxDepth

ASSUME ParentsAssumption ==
    /\ Parents \in [Commit -> Seq(Commit)]
    /\ \A c \in Commit : \A p \in Range(Parents[c]) : Ancestors[p] \subseteq Ancestors[c]
ASSUME JobsAssumption == \A j \in Jobs :
    \/ j \in [path : {"objects"}, names : Seq(Table), depth : {0}]
    \/ j \in [path : {"commits"}, names : [1 .. 1 -> Ref \cup Commit], depth : Int]
    \/ j \in [path : {"diff"}, names : [1 .. 2 -> Commit], depth : {0}]
    \/ j \in [path : {"profile"}, names : [1 .. 1 -> Commit \cup Table], depth : {0}]

VARIABLES
    job,   \* the request being or last answered
    todo,  \* the reads and writes the handler goes on with
    body,  \* what it has read or written
    out    \* how the answer ended, "none" while it is under way

bundleVars == <<job, todo, body, out>>
allVars == <<vars, bundleVars>>

\* n is the index of a block, the depth of a commit, or the place of a table
\* in the packfile.
Step == [kind : {"ref"}, of : Ref, n : Nat] \cup [kind : {"commit"}, of : Commit, n : Nat]
        \cup [kind : {"table", "index", "block", "write", "profile"}, of : Table, n : Nat]

BundlesTypeOK ==
    /\ TypeOK
    /\ job \in Jobs \cup {None}
    /\ todo \in Seq(Step) /\ body \in Seq(Step)
    /\ out \in {"none", "whole", "broken", "notFound", "failed"}

Nothing == /\ job' = None /\ todo' = <<>> /\ body' = <<>> /\ out' = "none"

BundlesInit == Init /\ job = None /\ todo = <<>> /\ body = <<>> /\ out = "none"

-----------------------------------------------------------------------------
(* What a handler reads and writes *)

At(kind, of, n) == [kind |-> kind, of |-> of, n |-> n]
A(kind, of) == At(kind, of, 0)
BlocksIn(t) == [i \in 1 .. BlockCount(t) |-> At("block", t, i - 1)]

\* All tables of a packfile are looked up first.
TableLookups(ts) == [k \in DOMAIN ts |-> At("table", ts[k], k)]

\* Mutant: the table is written before its blocks.
TableStepsTableFirst(k) ==
    <<At("write", job.names[k], k)>> \o BlocksIn(job.names[k])

\* Then each is written after its blocks.
TableSteps(k) == BlocksIn(job.names[k]) \o <<At("write", job.names[k], k)>>

\* The table that comes after the last lookup, or after a table written.
NextTable(x) ==
    IF x.kind = "table" /\ x.n = Len(job.names) THEN 1
    ELSE IF x.kind = "write" THEN x.n + 1 ELSE 0
TableToWrite(x) ==
    IF job.path = "objects" /\ NextTable(x) \in DOMAIN job.names
    THEN TableSteps(NextTable(x)) ELSE <<>>

\* getTable, for one side of a diff.
SideSteps(c) == <<A("commit", c), A("table", TableOf[c]), A("index", TableOf[c])>>

\* diff.DiffTables reads the blocks of both tables; equal tables are not read.
\* The profiles come last.
DiffSteps(c, d) ==
    LET t == TableOf[c]  u == TableOf[d]
    IN  SideSteps(c) \o SideSteps(d)
        \o (IF t = u THEN <<>>
            ELSE BlocksIn(t) \o BlocksIn(u) \o <<A("profile", t), A("profile", u)>>)

ProfileSteps(x) ==
    IF x \in Commit THEN <<A("commit", x), A("profile", TableOf[x])>> ELSE <<A("profile", x)>>

Steps(j) ==
    CASE j.path = "objects" -> TableLookups(j.names)
      [] j.path = "commits" -> <<A(IF j.names[1] \in Ref THEN "ref" ELSE "commit", j.names[1])>>
      [] j.path = "diff"    -> DiffSteps(j.names[1], j.names[2])
      [] j.path = "profile" -> ProfileSteps(j.names[1])

\* Mutant: one level too many.
ParentsToReadDeeper(x) ==
    IF job.path = "commits" /\ x.kind = "commit" /\ x.n <= job.depth
    THEN [i \in DOMAIN Parents[x.of] |-> At("commit", Parents[x.of][i], x.n + 1)]
    ELSE <<>>

\* getCommitTree goes level by level, maxDepth levels below the root.
ParentsToRead(x) ==
    IF job.path = "commits" /\ x.kind = "commit" /\ x.n < job.depth
    THEN [i \in DOMAIN Parents[x.of] |-> At("commit", Parents[x.of][i], x.n + 1)]
    ELSE <<>>

\* External: an index and a profile are stored and pruned with their table.
IsThere(x) ==
    \/ x.kind = "ref" /\ refs[x.of] # None
    \/ x.kind = "commit" /\ x.of \in commits
    \/ x.kind \in {"table", "index", "profile"} /\ x.of \in tables
    \/ x.kind = "block" /\ <<x.of, x.n>> \in blocks
    \/ x.kind = "write"

-----------------------------------------------------------------------------
(* A request *)

Busy == job # None /\ out = "none"

Ask(j) ==
    /\ pc = "idle" /\ ~Busy
    /\ job' = j /\ todo' = Steps(j) /\ body' = <<>> /\ out' = "none"
    /\ url' = None /\ rows' = <<>> /\ answer' = NoAnswer
    /\ heads' = {} /\ intact' = FALSE
    /\ UNCHANGED <<storeVars, pc, com, tbl, pos, kept>>

TakeStep ==
    /\ Busy /\ todo # <<>>
    /\ LET x == Head(todo)
       IN  /\ IsThere(x)
           /\ IF x.kind = "ref"
              THEN todo' = <<A("commit", refs[x.of])>> /\ UNCHANGED body
              ELSE /\ todo' = Tail(todo) \o ParentsToRead(x) \o TableToWrite(x)
                   /\ body' = Append(body, x)
    /\ UNCHANGED <<vars, job, out>>

\* What becomes of the answer when x is not there: a packfile breaks off with
\* its header out, a diff does without profiles, an index, a block or a commit
\* of a tree is a panic, everything else a 404.
Ending(x) ==
    CASE x.kind = "block" /\ job.path = "objects"  -> "broken"
      [] x.kind = "profile" /\ job.path = "diff"   -> "whole"
      [] x.kind \in {"index", "block"}             -> "failed"
      [] x.kind = "commit" /\ job.path = "commits" -> "failed"
      [] OTHER                                     -> "notFound"

MissStep ==
    /\ Busy /\ todo # <<>>
    /\ ~IsThere(Head(todo))
    /\ out' = Ending(Head(todo))
    /\ todo' = <<>>
    /\ UNCHANGED <<vars, job, body>>

Answer200 ==
    /\ Busy /\ todo = <<>>
    /\ out' = "whole"
    /\ UNCHANGED <<vars, job, todo, body>>

\* The client goes away.
Abandon ==
    /\ Busy
    /\ Nothing
    /\ UNCHANGED vars

BundlesNext ==
    \/ ~Busy /\ (\E u \in Urls : Request(u)) /\ Nothing
    \/ (Repository \/ Handle \/ ClientGone) /\ UNCHANGED bundleVars
    \/ \E j \in Jobs : Ask(j)
    \/ TakeStep \/ MissStep \/ Answer200 \/ Abandon

BundlesSpec == BundlesInit /\ [][BundlesNext]_allVars

-----------------------------------------------------------------------------
(* Properties *)

CommitsAt(n) == {x.of : x \in {y \in Range(body) : y.kind = "commit" /\ y.n = n}}

\* A tree that is answered has the one root and, level by level, all parents of
\* the commits above, down to maxDepth and none below, although prunes run
\* between the reads: none is silently missing.  (getCommitTree)
TreesAreComplete ==
    (out = "whole" /\ job.path = "commits") =>
        /\ CommitsAt(0) = {body[1].of}
        /\ \A n \in 0 .. Len(body) :
              CommitsAt(n + 1) = IF n < job.depth
                                 THEN UNION {Range(Parents[c]) : c \in CommitsAt(n)}
                                 ELSE {}

\* In a packfile, whole or broken off anywhere, a table comes only after all
\* its blocks, so that a client never stores a table it cannot read; and one
\* that is whole has all tables asked for.  (handleGetObjects)
PackfilesAreSelfContained ==
    (job # None /\ job.path = "objects") =>
        /\ \A i \in DOMAIN body : body[i].kind = "write" =>
              Range(BlocksIn(body[i].of)) \subseteq Range(SubSeq(body, 1, i - 1))
        /\ out = "whole" =>
              Range(job.names) = {x.of : x \in {y \in Range(body) : y.kind = "write"}}
=============================================================================
