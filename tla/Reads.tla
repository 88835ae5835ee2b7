------------------------------- MODULE Reads -------------------------------
(***************************************************************************)
(* The endpoints that read tables: blocks, rows, commits, heads and tables. *)
(* A request names a table by its sum, by the sum of a commit or by a ref,  *)
(* and reads one object after the other while refs move and prunes run.     *)
(* Many answers are marked public and immutable: a cache on the way may     *)
(* keep them.  Requests do not meet each other, so one at a time is enough. *)
(*                                                                         *)
(* Sources: pkg/server/get_blocks_handler.go, get_rows_handler.go,         *)
(* get_commit_handler.go, get_head_handler.go, get_table_handler.go,       *)
(* get_commits_handler.go (getCommitSum), server.go, cmd/middlewares.go.   *)
(***************************************************************************)
EXTENDS Integers, Sequences, SequencesExt

CONSTANTS
    Ref, Commit, Table,
    None,        \* an absent ref, no table, an empty cache
    TableOf,     \* the table of each commit
    Ancestors,   \* Ancestors[c]: c and every commit reachable from c
    RowsCount,   \* the number of rows of each table
    BlockSize,   \* rows of a full block: 255
    Urls         \* requests a client may send

ASSUME TableOfAssumption == TableOf \in [Commit -> Table]
ASSUME AncestorsAssumption ==
    Ancestors \in [Commit -> SUBSET Commit] /\ \A c \in Commit : c \in Ancestors[c]
ASSUME RowsCountAssumption == RowsCount \in [Table -> Nat]
ASSUME BlockSizeAssumption == BlockSize \in Nat \ {0}
ASSUME NamesAreDisjoint ==
    /\ Ref \cap Commit = {} /\ Ref \cap Table = {} /\ Commit \cap Table = {}
    /\ None \notin Ref \cup Commit \cup Table \cup Urls

\* args holds the offsets of rows, or start, or start and end of blocks; what
\* is not given is left out.  A value that is no number is one out of range.
ASSUME UrlsAssumption == \A u \in Urls :
    /\ u \in [path : {"blocks", "rows", "commit", "head", "table"},
              of : Ref \cup Commit \cup Table,
              args : Seq(Int), format : {"csv", "binary", "other"}]
    /\ u.path = "commit" => u.of \in Commit
    /\ u.path = "head" => u.of \in Ref
    /\ u.path = "table" => u.of \in Table

VARIABLES
    refs,     \* the ref store
    commits,  \* commits in the objects database
    tables,   \* tables in it
    blocks,   \* blocks in it: <<t, b>> is the block of table t with index b
    pc,       \* where the request is
    url,      \* the request being or last answered
    com,      \* the commit found
    tbl,      \* the table found
    pos,      \* the loop variable of the handler
    rows,     \* row numbers written to the body
    answer,   \* status and rest of the answer, once it is given
    heads,    \* (history) what the ref of the request held while it was served
    intact,   \* (history) that was, at first, a commit with its table and blocks
    kept      \* an answer a cache has kept, and for which request

storeVars == <<refs, commits, tables, blocks>>
readVars == <<pc, url, com, tbl, pos, rows, answer>>
vars == <<storeVars, readVars, heads, intact, kept>>

\* External: a table is cut into full blocks and a shorter last one.
BlockCount(t) == (RowsCount[t] + BlockSize - 1) \div BlockSize
BlockLen(t, b) ==
    IF RowsCount[t] < (b + 1) * BlockSize THEN RowsCount[t] - b * BlockSize ELSE BlockSize
BlockRows(t, b) == [i \in 1 .. BlockLen(t, b) |-> b * BlockSize + i - 1]
BlocksOf(t) == {t} \X (0 .. BlockCount(t) - 1)

Answer == [status : {200, 307, 400, 404}, tbl : Table \cup {None}, whole : BOOLEAN]
NoAnswer == [status |-> 0, tbl |-> None, whole |-> FALSE]

TypeOK ==
    /\ refs \in [Ref -> Commit \cup {None}]
    /\ commits \subseteq Commit
    /\ tables \subseteq Table
    /\ blocks \subseteq UNION {BlocksOf(t) : t \in Table}
    /\ pc \in {"idle", "ref", "commit", "table", "stream"}
    /\ url \in Urls \cup {None}
    /\ com \in Commit \cup {None}
    /\ tbl \in Table \cup {None}
    /\ pos \in Nat
    /\ rows \in Seq(Nat)
    /\ answer \in Answer \cup {NoAnswer}
    /\ heads \subseteq Commit \cup {None} /\ intact \in BOOLEAN
    /\ kept \in {None} \cup [url : Urls, tbl : Table \cup {None}, whole : BOOLEAN]

Init ==
    /\ refs = [r \in Ref |-> None]
    /\ commits = {} /\ tables = {} /\ blocks = {}
    /\ pc = "idle" /\ url = None /\ com = None /\ tbl = None
    /\ pos = 0 /\ rows = <<>> /\ answer = NoAnswer
    /\ heads = {} /\ intact = FALSE /\ kept = None

-----------------------------------------------------------------------------
(* External: the repository changes *)

\* A commit is stored, with its table and blocks unless the push is shallow.
Arrive(c) ==
    /\ commits' = commits \cup {c}
    /\ \E ts \in {{}, {TableOf[c]}} :
          /\ tables' = tables \cup ts
          /\ blocks' = blocks \cup UNION {BlocksOf(t) : t \in ts}
    /\ UNCHANGED <<refs, readVars, heads, intact, kept>>

\* A push or a commit moves a ref to a commit that is there, or deletes it; its
\* table and its ancestors are not looked at.
Move(r, c) ==
    /\ c # None => c \in commits
    /\ refs' = [refs EXCEPT ![r] = c]
    /\ heads' = IF pc # "idle" /\ url.of = r THEN heads \cup {c} ELSE heads
    /\ UNCHANGED <<commits, tables, blocks, readVars, intact, kept>>

\* prune.Prune, as one step.
Prune ==
    LET reached == UNION {Ancestors[refs[r]] : r \in {q \in Ref : refs[q] # None}}
    IN  /\ commits' = commits \cap reached
        /\ tables' = tables \cap {TableOf[c] : c \in reached}
        /\ blocks' = blocks \cap UNION {BlocksOf(TableOf[c]) : c \in reached}
        /\ UNCHANGED <<refs, readVars, heads, intact, kept>>

-----------------------------------------------------------------------------
(* A request and the objects it names *)

Goto(label) == pc' = label

\* The handler returns and its variables are gone.
EndRequest ==
    /\ Goto("idle")
    /\ com' = None /\ tbl' = None /\ pos' = 0

\* The answer is given.  One marked with cacheControlImmutable may be kept.
Respond(status, t, whole, immutable) ==
    /\ EndRequest
    /\ answer' = [status |-> status, tbl |-> t, whole |-> whole]
    /\ \/ UNCHANGED kept
       \/ immutable /\ kept' = [url |-> url, tbl |-> t, whole |-> whole]

NotFound(immutable) == Respond(404, None, TRUE, immutable)

HasTable(c) == TableOf[c] \in tables /\ BlocksOf(TableOf[c]) \subseteq blocks

Request(u) ==
    /\ pc = "idle"
    /\ url' = u
    /\ com' = IF u.of \in Commit THEN u.of ELSE None
    /\ tbl' = IF u.of \in Table THEN u.of ELSE None
    /\ heads' = IF u.of \in Ref THEN {refs[u.of]} ELSE {}
    /\ intact' = (u.of \in Ref /\ refs[u.of] # None /\ HasTable(refs[u.of]))
    /\ Goto(IF u.of \in Ref THEN "ref" ELSE IF u.of \in Commit THEN "commit" ELSE "table")
    /\ pos' = 0 /\ rows' = <<>> /\ answer' = NoAnswer
    /\ UNCHANGED <<storeVars, kept>>

RefNotFound ==
    /\ pc = "ref"
    /\ refs[url.of] = None
    /\ NotFound(FALSE)
    /\ UNCHANGED <<storeVars, url, rows, heads, intact>>

GetRef ==
    /\ pc = "ref"
    /\ refs[url.of] # None
    /\ com' = refs[url.of]
    /\ Goto("commit")
    /\ UNCHANGED <<storeVars, url, tbl, pos, rows, answer, heads, intact, kept>>

\* handleGetCommit marks its answer before it knows whether there is one.
CommitNotFound ==
    /\ pc = "commit"
    /\ com \notin commits
    /\ NotFound(url.path = "commit")
    /\ UNCHANGED <<storeVars, url, rows, heads, intact>>

GetCommit ==
    /\ pc = "commit"
    /\ com \in commits
    /\ tbl' = TableOf[com]
    /\ Goto("table")
    /\ UNCHANGED <<storeVars, url, com, pos, rows, answer, heads, intact, kept>>

\* Mutant: the answer is marked before the table is looked up.
TableNotFoundMarked ==
    /\ pc = "table"
    /\ url.path \in {"blocks", "rows", "table"}
    /\ tbl \notin tables
    /\ NotFound(TRUE)
    /\ UNCHANGED <<storeVars, url, rows, heads, intact>>

TableNotFound ==
    /\ pc = "table"
    /\ url.path \in {"blocks", "rows", "table"}
    /\ tbl \notin tables
    /\ NotFound(FALSE)
    /\ UNCHANGED <<storeVars, url, rows, heads, intact>>

\* writeCommitJSON: a commit without its table is answered, and says so.
SendCommit ==
    /\ pc = "table"
    /\ url.path \in {"commit", "head"}
    /\ Respond(200, IF tbl \in tables THEN tbl ELSE None, TRUE, url.path = "commit")
    /\ UNCHANGED <<storeVars, url, rows, heads, intact>>

SendTable ==
    /\ pc = "table"
    /\ url.path = "table"
    /\ tbl \in tables
    /\ Respond(200, tbl, TRUE, TRUE)
    /\ UNCHANGED <<storeVars, url, rows, heads, intact>>

-----------------------------------------------------------------------------
(* transferBlocks and transferRows *)

Start(u) == IF u.args = <<>> THEN 0 ELSE u.args[1]
End(u, t) == IF Len(u.args) < 2 THEN BlockCount(t) ELSE u.args[2]

\* Mutant: start is compared with the number of blocks only.
BlocksOutOfRangeNegative(u, t) ==
    \/ Start(u) >= BlockCount(t)
    \/ End(u, t) < Start(u)
    \/ End(u, t) > BlockCount(t)

\* Mutant: end is taken to be inclusive.
BlocksOutOfRangeInclusive(u, t) ==
    \/ Start(u) < 0 \/ Start(u) >= BlockCount(t)
    \/ End(u, t) < Start(u)
    \/ End(u, t) >= BlockCount(t)

BlocksOutOfRange(u, t) ==
    \/ Start(u) < 0 \/ Start(u) >= BlockCount(t)
    \/ End(u, t) < Start(u)
    \/ End(u, t) > BlockCount(t)

\* The offset of a row that would come after the last one is let through.
RowsOutOfRange(u, t) ==
    \E i \in DOMAIN u.args : u.args[i] < 0 \/ u.args[i] > RowsCount[t]

OutOfRange ==
    \/ url.path = "blocks" /\ BlocksOutOfRange(url, tbl)
    \/ url.path = "rows" /\ RowsOutOfRange(url, tbl)

Refuse ==
    /\ pc = "table"
    /\ tbl \in tables
    /\ OutOfRange
    /\ Respond(400, tbl, TRUE, FALSE)
    /\ UNCHANGED <<storeVars, url, rows, heads, intact>>

\* transferBlocks looks at the format after it has marked the answer.
RefuseFormat ==
    /\ pc = "table"
    /\ url.path = "blocks" /\ url.format = "other"
    /\ tbl \in tables
    /\ ~OutOfRange
    /\ Respond(400, tbl, TRUE, TRUE)
    /\ UNCHANGED <<storeVars, url, rows, heads, intact>>

\* Rows without offsets: see the blocks of the table.
Redirect ==
    /\ pc = "table"
    /\ url.path = "rows" /\ url.args = <<>>
    /\ tbl \in tables
    /\ Respond(307, tbl, TRUE, FALSE)
    /\ UNCHANGED <<storeVars, url, rows, heads, intact>>

\* Mutant: start is checked but not used.
FirstPosZero(u) == IF u.path = "rows" THEN 1 ELSE 0

FirstPos(u) == IF u.path = "rows" THEN 1 ELSE Start(u)

StartStream ==
    /\ pc = "table"
    /\ tbl \in tables
    /\ \/ url.path = "blocks" /\ url.format # "other"
       \/ url.path = "rows" /\ url.args # <<>>
    /\ ~OutOfRange
    /\ pos' = FirstPos(url)
    /\ Goto("stream")
    /\ UNCHANGED <<storeVars, url, com, tbl, rows, answer, heads, intact, kept>>

BlockIsNext(i) == url.path = "blocks" /\ i < End(url, tbl)
RowIsNext(i) == url.path = "rows" /\ i <= Len(url.args)

SendBlock ==
    /\ pc = "stream"
    /\ BlockIsNext(pos)
    /\ <<tbl, pos>> \in blocks
    /\ rows' = rows \o BlockRows(tbl, pos)
    /\ pos' = pos + 1
    /\ UNCHANGED <<storeVars, pc, url, com, tbl, answer, heads, intact, kept>>

\* diff.RowToBlockAndOffset
RowToBlockAndOffset(o) == <<o \div BlockSize, o % BlockSize>>

\* The row exists in its block.
HasRow(t, o) ==
    LET bo == RowToBlockAndOffset(o)
    IN  <<t, bo[1]>> \in BlocksOf(t) /\ bo[2] < BlockLen(t, bo[1])

\* diff.BlockBuffer keeps blocks it has read.
WasRead(o) == \E i \in 1 .. Len(rows) :
    RowToBlockAndOffset(rows[i])[1] = RowToBlockAndOffset(o)[1]
BlockIsThere(o) == <<tbl, RowToBlockAndOffset(o)[1]>> \in blocks

SendRow ==
    /\ pc = "stream"
    /\ RowIsNext(pos)
    /\ LET o == url.args[pos]
           bo == RowToBlockAndOffset(o)
       IN  /\ HasRow(tbl, o)
           /\ BlockIsThere(o) \/ WasRead(o)
           /\ rows' = Append(rows, bo[1] * BlockSize + bo[2])
    /\ pos' = pos + 1
    /\ UNCHANGED <<storeVars, pc, url, com, tbl, answer, heads, intact, kept>>

\* Mutant: a block that cannot be read is left out.
BreakLeavesOut ==
    /\ pc = "stream"
    /\ \/ BlockIsNext(pos) /\ <<tbl, pos>> \notin blocks
       \/ RowIsNext(pos) /\ ~(HasRow(tbl, url.args[pos]) /\ BlockIsThere(url.args[pos]))
    /\ pos' = pos + 1
    /\ UNCHANGED <<storeVars, pc, url, com, tbl, rows, answer, heads, intact, kept>>

\* A block was pruned or there is no such row: a panic.  The header is out, so
\* that the text of the recovery middleware ends up in the body.
Break ==
    /\ pc = "stream"
    /\ \/ BlockIsNext(pos) /\ <<tbl, pos>> \notin blocks
       \/ RowIsNext(pos) /\ ~(HasRow(tbl, url.args[pos]) /\ BlockIsThere(url.args[pos]))
    /\ Respond(200, tbl, FALSE, TRUE)
    /\ UNCHANGED <<storeVars, url, rows, heads, intact>>

EndStream ==
    /\ pc = "stream"
    /\ ~BlockIsNext(pos) /\ ~RowIsNext(pos)
    /\ Respond(200, tbl, TRUE, TRUE)
    /\ UNCHANGED <<storeVars, url, rows, heads, intact>>

\* The client goes away: a write fails and the handler panics, unheard.
ClientGone ==
    /\ pc # "idle"
    /\ EndRequest
    /\ url' = None /\ rows' = <<>> /\ heads' = {} /\ intact' = FALSE
    /\ UNCHANGED <<storeVars, answer, kept>>

Handle ==
    \/ RefNotFound \/ GetRef \/ CommitNotFound \/ GetCommit
    \/ TableNotFound \/ SendCommit \/ SendTable
    \/ Refuse \/ RefuseFormat \/ Redirect \/ StartStream
    \/ SendBlock \/ SendRow \/ Break \/ EndStream

Repository ==
    \/ \E c \in Commit : Arrive(c)
    \/ \E r \in Ref, c \in Commit \cup {None} : Move(r, c)
    \/ Prune

Next ==
    \/ Repository
    \/ \E u \in Urls : Request(u)
    \/ Handle \/ ClientGone

Spec == Init /\ [][Next]_vars

-----------------------------------------------------------------------------
(* Properties *)

\* What a request asks for, in rows.
HasBlock(t, b) == b >= 0 /\ b * BlockSize < RowsCount[t]
Valid(u, t) ==
    \/ /\ u.path = "rows" /\ u.args # <<>>
       /\ \A i \in DOMAIN u.args : u.args[i] >= 0 /\ u.args[i] < RowsCount[t]
    \/ /\ u.path = "blocks" /\ u.format # "other"
       /\ HasBlock(t, Start(u))
       /\ End(u, t) = Start(u) \/ (End(u, t) > Start(u) /\ HasBlock(t, End(u, t) - 1))

\* The rows of the blocks before block b, and those with an offset from m to n.
RowsBefore(t, b) == IF b * BlockSize < RowsCount[t] THEN b * BlockSize ELSE RowsCount[t]
RowsBetween(m, n) == [i \in 1 .. n - m |-> m + i - 1]
RowsAsked(u, t) ==
    IF u.path = "rows" THEN u.args
    ELSE RowsBetween(Start(u) * BlockSize, RowsBefore(t, End(u, t)))

Answered(u) == pc = "idle" /\ u = url /\ answer # NoAnswer
Streamed(u) == Answered(u) /\ answer.status = 200 /\ u.path \in {"blocks", "rows"}

\* The tables the request named while it was served.
NamedTables(u) ==
    IF u.of \in Ref THEN {TableOf[c] : c \in heads \ {None}}
    ELSE IF u.of \in Commit THEN {TableOf[u.of]} ELSE {u.of}

\* A whole answer has exactly the rows the request asks for, in order, of one
\* table that the request named while it was served, although the ref moves
\* and objects are pruned between the reads; a request that asks for rows the
\* table does not have never gets one.  (transferBlocks, transferRows)
WholeAnswersAreRight == \A u \in Urls :
    Streamed(u) /\ answer.whole =>
        /\ answer.tbl \in NamedTables(u)
        /\ Valid(u, answer.tbl)
        /\ rows = RowsAsked(u, answer.tbl)

\* What was written before an answer broke off is the beginning of what was
\* asked for: nothing is left out or repeated.
BrokenAnswersArePrefixes == \A u \in Urls :
    Streamed(u) /\ ~answer.whole => IsPrefix(rows, RowsAsked(u, answer.tbl))

\* As long as the ref of a valid request keeps its value, a commit whose table
\* was there when the request came, the answer is whole: prunes in the middle of
\* it do no harm, and no valid range is refused.  (A shallow commit is a 404.)
SteadyHeadIsServed == \A u \in Urls : \A c \in Commit :
    (Answered(u) /\ u.of \in Ref /\ heads = {c} /\ intact /\ Valid(u, TableOf[c]))
        => answer.status = 200 /\ answer.whole

\* The table a request names now, if it is there.
NamesNow(u, t) ==
    /\ t \in tables
    /\ \/ u.of \in Ref /\ refs[u.of] # None /\ TableOf[refs[u.of]] = t
       \/ u.of \in commits /\ TableOf[u.of] = t
       \/ u.of = t

\* An answer marked immutable to a request that names a table, or the rows of
\* a commit, by sum is never outdated by later pushes and prunes.  Nothing is
\* said of the commit endpoint: its 404, which it marks as well, a push outdates
\* (get_commit_handler.go:60).
ImmutableSumsStayTrue ==
    (kept # None /\ kept.url.of \notin Ref /\ kept.url.path # "commit") =>
        \A t \in Table : NamesNow(kept.url, t) => kept.tbl = t

\* What the header Cache-Control: public, immutable says of a whole answer: it
\* will not change while it is fresh, for 90 days.
ImmutableAnswersStayTrue ==
    (kept # None /\ kept.whole) => \A t \in Table : NamesNow(kept.url, t) => kept.tbl = t
=============================================================================
