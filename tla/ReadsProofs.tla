---------------------------- MODULE ReadsProofs ----------------------------
(***************************************************************************)
(* Proofs about the endpoints of Reads, for every repository, block size   *)
(* and request, beside the endpoints of Bundles: a whole answer is right, a *)
(* broken one is the beginning of the right one, a request whose ref keeps  *)
(* its value is served, and what is cached by sum stays true.              *)
(***************************************************************************)
EXTENDS Bundles, TLAPS, SequenceTheorems

\* The commit a ref names is in the repository, with or without its table.
RefsInv == \A r \in Ref : refs[r] # None => refs[r] \in commits

\* heads has what the ref of the request holds, and what it was found to hold.
RequestInv ==
    pc # "idle" =>
        /\ url \in Urls
        /\ url.of \in Ref => refs[url.of] \in heads
        /\ pc = "ref" => url.of \in Ref
        /\ pc = "commit" => /\ com \in Commit
                            /\ com \in IF url.of \in Ref THEN heads ELSE {url.of}
        /\ pc \in {"table", "stream"} => tbl \in Table /\ tbl \in NamedTables(url)

\* While the ref keeps a commit that had its table, the table is there.
IntactInv ==
    (pc # "idle" /\ intact) =>
        /\ url.of \in Ref
        /\ \A c \in Commit : heads = {c} => HasTable(c)

\* Nothing is written before the request was found to be in range.
StreamInv ==
    pc # "idle" =>
        /\ answer = NoAnswer
        /\ pc # "stream" => rows = <<>>
        /\ pc = "stream" =>
              /\ ~OutOfRange
              /\ \/ url.path = "blocks" /\ url.format # "other"
                 \/ url.path = "rows" /\ url.args # <<>>

\* The rows written are those of the blocks, or the offsets, before pos.
RowsInv ==
    pc = "stream" =>
        /\ url.path = "blocks" =>
              /\ pos \in Start(url) .. End(url, tbl)
              /\ rows = RowsBetween(Start(url) * BlockSize, RowsBefore(tbl, pos))
        /\ url.path = "rows" =>
              /\ pos \in 1 .. Len(url.args) + 1
              /\ rows = SubSeq(url.args, 1, pos - 1)
              /\ \A i \in 1 .. pos - 1 : url.args[i] < RowsCount[tbl]

\* What is kept for a request by sum is the one table that sum can name.
KeptInv ==
    (kept # None /\ kept.url.of \notin Ref /\ kept.url.path # "commit") =>
        kept.tbl = IF kept.url.of \in Commit THEN TableOf[kept.url.of] ELSE kept.url.of

IInv ==
    /\ TypeOK
    /\ RefsInv
    /\ RequestInv
    /\ IntactInv
    /\ StreamInv
    /\ RowsInv
    /\ KeptInv
    /\ WholeAnswersAreRight
    /\ BrokenAnswersArePrefixes
    /\ SteadyHeadIsServed

-----------------------------------------------------------------------------
(* Blocks and rows *)

\* Division with remainder.
LEMMA Division ==
    ASSUME NEW n \in Nat, NEW d \in Nat \ {0}
    PROVE  /\ n \div d \in Nat
           /\ n % d \in 0 .. d - 1
           /\ n = (n \div d) * d + (n % d)
OBVIOUS

\* Multiples of the block size are in the order of their factors.
LEMMA Multiples ==
    ASSUME NEW a \in Int, NEW b \in Int
    PROVE  /\ a * BlockSize \in Int
           /\ a \in Nat => a * BlockSize \in Nat
           /\ (a + 1) * BlockSize = a * BlockSize + BlockSize
           /\ a <= b <=> a * BlockSize <= b * BlockSize
<1>1. a <= b => a * BlockSize <= b * BlockSize
  BY BlockSizeAssumption
<1>2. a > b => a * BlockSize > b * BlockSize
  BY BlockSizeAssumption
<1> QED
  BY <1>1, <1>2, BlockSizeAssumption

\* A block exists when its first row does.
LEMMA BlockCountFacts ==
    ASSUME NEW t \in Table, NEW b \in Int
    PROVE  /\ RowsCount[t] \in Nat /\ BlockCount(t) \in Nat
           /\ b < BlockCount(t) <=> b * BlockSize < RowsCount[t]
<1>1. RowsCount[t] \in Nat /\ BlockSize \in Nat \ {0}
  BY RowsCountAssumption, BlockSizeAssumption
<1> DEFINE n == RowsCount[t] + BlockSize - 1
           q == BlockCount(t)
<1>2. n \in Nat /\ q = n \div BlockSize
  BY <1>1 DEF BlockCount
<1>3. /\ q \in Nat /\ n % BlockSize \in 0 .. BlockSize - 1
      /\ n = q * BlockSize + (n % BlockSize)
  BY ONLY <1>1, <1>2, Division
<1> HIDE DEF n, q
<1>5. q * BlockSize < RowsCount[t] + BlockSize /\ RowsCount[t] <= q * BlockSize
  <2>1. q * BlockSize \in Int
    BY <1>3, Multiples
  <2> QED
    BY <1>1, <1>3, <2>1 DEF n
<1>6. CASE b < q
  <2>1. (b + 1) * BlockSize <= q * BlockSize /\ (b + 1) * BlockSize = b * BlockSize + BlockSize
    BY <1>3, <1>6, Multiples
  <2> QED
    BY <1>1, <1>3, <1>5, <1>6, <2>1, Multiples DEF q
<1>7. CASE q <= b
  <2>1. q * BlockSize <= b * BlockSize
    BY <1>3, <1>7, Multiples
  <2> QED
    BY <1>1, <1>3, <1>5, <1>7, <2>1, Multiples DEF q
<1> QED
  BY <1>3, <1>6, <1>7

\* RowToBlockAndOffset finds a row that exists, and only that.
LEMMA RowFacts ==
    ASSUME NEW t \in Table, NEW o \in Nat
    PROVE  /\ HasRow(t, o) <=> o < RowsCount[t]
           /\ RowToBlockAndOffset(o)[1] \in Nat
           /\ RowToBlockAndOffset(o)[1] * BlockSize + RowToBlockAndOffset(o)[2] = o
<1> DEFINE q == o \div BlockSize
           r == o % BlockSize
<1>1. RowsCount[t] \in Nat /\ BlockSize \in Nat \ {0}
  BY RowsCountAssumption, BlockSizeAssumption
<1>2. q \in Nat /\ r \in 0 .. BlockSize - 1
  BY <1>1
<1>3. o = q * BlockSize + r
  BY <1>1
<1>4. RowToBlockAndOffset(o) = <<q, r>>
  BY DEF RowToBlockAndOffset
<1> HIDE DEF q, r
<1>5. HasRow(t, o) <=> q < BlockCount(t) /\ r < BlockLen(t, q)
  BY <1>2, <1>4, BlockCountFacts DEF HasRow, BlocksOf
<1>6. /\ q * BlockSize \in Nat
      /\ (q + 1) * BlockSize = q * BlockSize + BlockSize
      /\ q < BlockCount(t) <=> q * BlockSize < RowsCount[t]
  BY <1>2, Multiples, BlockCountFacts
<1>7. HasRow(t, o) <=> o < RowsCount[t]
  BY <1>1, <1>2, <1>3, <1>5, <1>6 DEF BlockLen
<1> QED
  BY <1>2, <1>3, <1>4, <1>7

\* What RowsBetween is, and its length.
LEMMA RowsBetweenFacts ==
    ASSUME NEW m \in Nat, NEW n \in Nat, m <= n
    PROVE  /\ RowsBetween(m, n) \in Seq(Nat)
           /\ Len(RowsBetween(m, n)) = n - m
           /\ \A i \in 1 .. n - m : RowsBetween(m, n)[i] = m + i - 1
<1>1. n - m \in Nat /\ \A i \in 1 .. n - m : m + i - 1 \in Nat
  OBVIOUS
<1> QED
  BY <1>1 DEF RowsBetween

\* Before a later block come at least as many rows.
LEMMA RowsBeforeFacts ==
    ASSUME NEW t \in Table, NEW a \in Nat, NEW b \in Nat, a <= b
    PROVE  RowsBefore(t, a) \in Nat /\ RowsBefore(t, a) <= RowsBefore(t, b)
<1>1. a * BlockSize \in Nat /\ b * BlockSize \in Nat /\ a * BlockSize <= b * BlockSize
  BY Multiples
<1>2. RowsCount[t] \in Nat
  BY RowsCountAssumption
<1> QED
  BY <1>1, <1>2 DEF RowsBefore

\* The rows of a block follow those of the blocks before it.
LEMMA NextBlock ==
    ASSUME NEW t \in Table, NEW a \in Nat, NEW b \in Nat, a <= b, b < BlockCount(t)
    PROVE  RowsBetween(a * BlockSize, RowsBefore(t, b)) \o BlockRows(t, b)
             = RowsBetween(a * BlockSize, RowsBefore(t, b + 1))
<1> DEFINE m == a * BlockSize
           n == b * BlockSize
           e == RowsBefore(t, b + 1)
<1>1. /\ m \in Nat /\ n \in Nat /\ m <= n /\ n < RowsCount[t]
      /\ RowsBefore(t, b) = n
      /\ (b + 1) * BlockSize = n + BlockSize
      /\ RowsCount[t] \in Nat /\ BlockSize \in Nat \ {0}
  BY Multiples, BlockCountFacts, BlockSizeAssumption DEF RowsBefore
<1>2. e \in Nat /\ n < e /\ BlockLen(t, b) = e - n
  BY <1>1 DEF RowsBefore, BlockLen
<1>3. BlockRows(t, b) = RowsBetween(n, e)
  BY <1>2 DEF BlockRows, RowsBetween
<1> HIDE DEF m, n, e
<1> DEFINE s == RowsBetween(m, n) \o RowsBetween(n, e)
           u == RowsBetween(m, e)
<1>4. /\ RowsBetween(m, n) \in Seq(Nat) /\ Len(RowsBetween(m, n)) = n - m
      /\ \A i \in 1 .. n - m : RowsBetween(m, n)[i] = m + i - 1
  BY <1>1, RowsBetweenFacts
<1>9. /\ RowsBetween(n, e) \in Seq(Nat) /\ Len(RowsBetween(n, e)) = e - n
      /\ \A i \in 1 .. e - n : RowsBetween(n, e)[i] = n + i - 1
  <2>1. n \in Nat /\ e \in Nat /\ n <= e
    BY <1>1, <1>2
  <2> QED
    BY ONLY <2>1, RowsBetweenFacts
<1>10. /\ u \in Seq(Nat) /\ Len(u) = e - m
       /\ \A i \in 1 .. e - m : u[i] = m + i - 1
  <2>1. m \in Nat /\ e \in Nat /\ m <= e
    BY <1>1, <1>2
  <2> QED
    BY ONLY <2>1, RowsBetweenFacts
<1>5. /\ s \in Seq(Nat) /\ Len(s) = (n - m) + (e - n)
      /\ \A i \in 1 .. (n - m) + (e - n) :
            s[i] = IF i <= n - m THEN RowsBetween(m, n)[i] ELSE RowsBetween(n, e)[i - (n - m)]
  <2> DEFINE p == RowsBetween(m, n)
             q == RowsBetween(n, e)
  <2>1. p \in Seq(Nat) /\ Len(p) = n - m /\ q \in Seq(Nat) /\ Len(q) = e - n
    BY <1>4, <1>9
  <2> HIDE DEF p, q
  <2>2. /\ p \o q \in Seq(Nat) /\ Len(p \o q) = Len(p) + Len(q)
        /\ \A i \in 1 .. Len(p) + Len(q) :
              (p \o q)[i] = IF i <= Len(p) THEN p[i] ELSE q[i - Len(p)]
    BY <2>1, ConcatProperties
  <2> QED
    BY <2>1, <2>2 DEF p, q
<1>6. (n - m) + (e - n) = e - m
  BY <1>1, <1>2
<1>7. ASSUME NEW i \in 1 .. e - m PROVE s[i] = u[i]
  <2>1. u[i] = m + i - 1 /\ i \in 1 .. (n - m) + (e - n)
    BY <1>6, <1>7, <1>10
  <2>2. CASE i <= n - m
    BY <1>4, <1>5, <1>7, <2>1, <2>2
  <2>3. CASE ~(i <= n - m)
    <3>1. i - (n - m) \in 1 .. e - n /\ n + (i - (n - m)) - 1 = m + i - 1
      BY <1>1, <1>2, <1>7, <2>3
    <3>2. s[i] = RowsBetween(n, e)[i - (n - m)]
      BY <1>5, <2>1, <2>3
    <3> QED
      BY <1>9, <2>1, <3>1, <3>2
  <2> QED
    BY <2>2, <2>3
<1>8. s = u
  BY <1>5, <1>6, <1>7, <1>10, SeqEqual
<1> QED
  BY <1>1, <1>3, <1>8 DEF m, n, e

-----------------------------------------------------------------------------
(* The repository changes *)

\* What a request may ask for, by endpoint.
LEMMA UrlFacts ==
    ASSUME NEW u \in Urls
    PROVE  /\ u.of \in Ref \cup Commit \cup Table
           /\ u.args \in Seq(Int)
           /\ u # None
           /\ u.path = "commit" => u.of \in Commit
           /\ u.path = "head" => u.of \in Ref
           /\ u.path = "table" => u.of \in Table
BY UrlsAssumption, NamesAreDisjoint

\* Refs move only to commits that are there, and a prune keeps what the refs
\* reach.
LEMMA RefsStep ==
    ASSUME TypeOK, RefsInv, Repository
    PROVE  /\ RefsInv'
           /\ refs' \in [Ref -> Commit \cup {None}]
           /\ commits' \subseteq Commit /\ tables' \subseteq Table
           /\ blocks' \subseteq UNION {BlocksOf(t) : t \in Table}
<1> USE TableOfAssumption, AncestorsAssumption DEF TypeOK, RefsInv
<1>1. ASSUME NEW c \in Commit, Arrive(c)
      PROVE  /\ RefsInv' /\ refs' \in [Ref -> Commit \cup {None}]
             /\ commits' \subseteq Commit /\ tables' \subseteq Table
             /\ blocks' \subseteq UNION {BlocksOf(t) : t \in Table}
  <2>1. PICK ts \in {{}, {TableOf[c]}} :
            /\ tables' = tables \cup ts
            /\ blocks' = blocks \cup UNION {BlocksOf(t) : t \in ts}
    BY <1>1 DEF Arrive
  <2>2. ts \subseteq Table
    OBVIOUS
  <2>3. refs' = refs /\ commits' = commits \cup {c}
    BY <1>1 DEF Arrive
  <2> QED
    BY <2>1, <2>2, <2>3
<1>2. ASSUME NEW r \in Ref, NEW c \in Commit \cup {None}, Move(r, c)
      PROVE  /\ RefsInv' /\ refs' \in [Ref -> Commit \cup {None}]
             /\ UNCHANGED <<commits, tables, blocks>>
  BY <1>2 DEF Move
<1>3. ASSUME Prune
      PROVE  /\ RefsInv' /\ refs' = refs
             /\ commits' \subseteq commits /\ tables' \subseteq tables /\ blocks' \subseteq blocks
  <2> DEFINE reached == UNION {Ancestors[refs[r]] : r \in {q \in Ref : refs[q] # None}}
  <2>1. /\ refs' = refs
        /\ commits' = commits \cap reached
        /\ tables' = tables \cap {TableOf[c] : c \in reached}
        /\ blocks' = blocks \cap UNION {BlocksOf(TableOf[c]) : c \in reached}
    BY <1>3 DEF Prune
  <2>2. ASSUME NEW r \in Ref, refs[r] # None PROVE refs[r] \in commits'
    <3>1. refs[r] \in commits /\ refs[r] \in reached
      BY <2>2
    <3> QED
      BY <2>1, <3>1
  <2> QED
    BY <2>1, <2>2
<1> QED
  BY <1>1, <1>2, <1>3 DEF Repository

\* A prune leaves the table of what a ref names.
LEMMA PruneKeepsTables ==
    ASSUME TypeOK, Prune, NEW r \in Ref, refs[r] # None, HasTable(refs[r])
    PROVE  HasTable(refs[r])'
<1> DEFINE reached == UNION {Ancestors[refs[q]] : q \in {p \in Ref : refs[p] # None}}
<1>1. /\ refs' = refs
      /\ tables' = tables \cap {TableOf[c] : c \in reached}
      /\ blocks' = blocks \cap UNION {BlocksOf(TableOf[c]) : c \in reached}
  BY DEF Prune
<1>2. refs[r] \in reached
  BY AncestorsAssumption DEF TypeOK
<1> HIDE DEF reached
<1> QED
  BY <1>1, <1>2 DEF HasTable

\* Pushes and prunes keep the invariant.
LEMMA RepositoryStep == IInv /\ Repository => IInv'
<1> SUFFICES ASSUME IInv, Repository PROVE IInv'
  OBVIOUS
<1> USE DEF IInv
<1>1. UNCHANGED <<readVars, intact, kept>>
  BY DEF Repository, Arrive, Move, Prune
<1>2. /\ heads \subseteq heads' /\ heads' \subseteq Commit \cup {None}
      /\ pc = "idle" => heads' = heads
      /\ pc # "idle" /\ url.of \in Ref /\ refs[url.of] \in heads => refs'[url.of] \in heads'
  <2>1. ASSUME NEW r \in Ref, NEW c \in Commit \cup {None}, Move(r, c)
        PROVE  /\ heads \subseteq heads' /\ heads' \subseteq Commit \cup {None}
               /\ pc = "idle" => heads' = heads
               /\ pc # "idle" /\ url.of \in Ref /\ refs[url.of] \in heads
                     => refs'[url.of] \in heads'
    <3>1. /\ refs' = [refs EXCEPT ![r] = c]
          /\ heads' = IF pc # "idle" /\ url.of = r THEN heads \cup {c} ELSE heads
      BY <2>1 DEF Move
    <3>2. heads \subseteq heads' /\ heads' \subseteq Commit \cup {None} /\ (pc = "idle" => heads' = heads)
      BY <3>1 DEF TypeOK
    <3>3. ASSUME pc # "idle", url.of \in Ref, refs[url.of] \in heads
          PROVE  refs'[url.of] \in heads'
      <4>1. CASE url.of = r
        BY <3>1, <3>3, <4>1 DEF TypeOK
      <4>2. CASE url.of # r
        BY <3>1, <3>3, <4>2 DEF TypeOK
      <4> QED
        BY <4>1, <4>2
    <3> QED
      BY <3>2, <3>3
  <2>2. ASSUME Prune \/ \E c \in Commit : Arrive(c) PROVE UNCHANGED <<refs, heads>>
    BY <2>2 DEF Prune, Arrive
  <2> QED
    BY <2>1, <2>2 DEF Repository, TypeOK
<1>3. TypeOK' /\ RefsInv'
  BY <1>1, <1>2, RefsStep DEF TypeOK, readVars
<1>4. RequestInv'
  <2>1. \A u \in Urls : NamedTables(u) \subseteq NamedTables(u)'
    BY <1>2 DEF NamedTables
  <2> QED
    BY <1>1, <1>2, <2>1 DEF RequestInv, readVars
<1>7. IntactInv'
  <2> SUFFICES ASSUME pc # "idle", intact PROVE IntactInv'
    BY <1>1 DEF IntactInv, readVars
  <2>1. url.of \in Ref /\ refs[url.of] \in heads
    BY DEF IntactInv, RequestInv
  <2>2. ASSUME NEW c \in Commit, heads' = {c} PROVE heads = {c} /\ refs[url.of] = c /\ HasTable(c)
    BY <1>2, <2>1, <2>2 DEF IntactInv
  <2>3. ASSUME NEW c \in Commit, heads' = {c} PROVE HasTable(c)'
    <3>1. HasTable(c) /\ refs[url.of] = c /\ c # None
      BY <2>2, <2>3, NamesAreDisjoint
    <3>2. ASSUME Prune PROVE HasTable(c)'
      <4>1. refs'= refs
        BY <3>2 DEF Prune
      <4>2. PICK r \in Ref : refs[r] = c
        BY <2>1, <3>1
      <4>3. HasTable(refs[r])'
        BY <3>1, <3>2, <4>2, PruneKeepsTables
      <4> QED
        BY <4>1, <4>2, <4>3
    <3>3. ASSUME ~Prune PROVE tables \subseteq tables' /\ blocks \subseteq blocks'
      BY <3>3 DEF Repository, Arrive, Move
    <3> QED
      BY <3>1, <3>2, <3>3 DEF HasTable
  <2> QED
    BY <1>1, <2>1, <2>3 DEF IntactInv, readVars
<1>5. StreamInv' /\ RowsInv' /\ KeptInv'
  BY <1>1 DEF StreamInv, OutOfRange, RowsInv, KeptInv, readVars
<1>6. WholeAnswersAreRight' /\ BrokenAnswersArePrefixes' /\ SteadyHeadIsServed'
  BY <1>1, <1>2 DEF WholeAnswersAreRight, BrokenAnswersArePrefixes, SteadyHeadIsServed, Streamed,
                    Answered, NamedTables, readVars
<1> QED
  BY <1>3, <1>4, <1>5, <1>6, <1>7

-----------------------------------------------------------------------------
(* A request looks up what it names *)

\* No answer is there while a request is served.
LEMMA NoAnswerYet ==
    ASSUME pc' # "idle" \/ url' = None \/ answer' = NoAnswer
    PROVE  WholeAnswersAreRight' /\ BrokenAnswersArePrefixes' /\ SteadyHeadIsServed'
<1>1. \A u \in Urls : ~Answered(u)'
  BY UrlFacts DEF Answered
<1> QED
  BY <1>1 DEF WholeAnswersAreRight, BrokenAnswersArePrefixes, SteadyHeadIsServed, Streamed

\* A new request has written nothing and names what it finds now.
LEMMA RequestStep ==
    ASSUME IInv, NEW u \in Urls, Request(u)
    PROVE  IInv'
<1> USE DEF IInv
<1>1. /\ url' = u /\ u \in Urls /\ pos' = 0 /\ rows' = <<>> /\ answer' = NoAnswer
      /\ com' = IF u.of \in Commit THEN u.of ELSE None
      /\ tbl' = IF u.of \in Table THEN u.of ELSE None
      /\ heads' = IF u.of \in Ref THEN {refs[u.of]} ELSE {}
      /\ intact' = (u.of \in Ref /\ refs[u.of] # None /\ HasTable(refs[u.of]))
      /\ pc' = IF u.of \in Ref THEN "ref" ELSE IF u.of \in Commit THEN "commit" ELSE "table"
      /\ UNCHANGED <<refs, commits, tables, blocks, kept>>
  BY DEF Request, Goto, storeVars
<1>2. u.of \in Ref \cup Commit \cup Table
  BY UrlFacts
<1>3. heads' \subseteq Commit \cup {None} /\ (u.of \in Ref => refs[u.of] \in heads')
  BY <1>1 DEF TypeOK
<1>4. TypeOK'
  BY <1>1, <1>2, <1>3 DEF TypeOK
<1>5. RequestInv'
  BY <1>1, <1>2, <1>3, NamesAreDisjoint DEF RequestInv, NamedTables
<1>6. StreamInv' /\ RowsInv'
  BY <1>1 DEF StreamInv, RowsInv
<1>7. RefsInv' /\ KeptInv'
  BY <1>1 DEF RefsInv, KeptInv
<1>8. WholeAnswersAreRight' /\ BrokenAnswersArePrefixes' /\ SteadyHeadIsServed'
  BY <1>1, NoAnswerYet
<1>9. IntactInv'
  BY <1>1 DEF IntactInv, HasTable
<1> QED
  BY <1>4, <1>5, <1>6, <1>7, <1>8, <1>9

\* A handler that finds its commit or table keeps the invariant.
LEMMA LookupStep ==
    ASSUME IInv, GetRef \/ GetCommit
    PROVE  IInv'
<1> USE DEF IInv
<1>1. /\ pc \in {"ref", "commit"} /\ pc' \in {"commit", "table"}
      /\ UNCHANGED <<refs, commits, tables, blocks, url, pos, rows, answer, heads, intact, kept>>
  BY DEF GetRef, GetCommit, Goto, storeVars
<1>2. ASSUME GetRef PROVE TypeOK' /\ RequestInv'
  <2>1. /\ pc = "ref" /\ pc' = "commit" /\ com' = refs[url.of] /\ com' # None /\ tbl' = tbl
    BY <1>2 DEF GetRef, Goto
  <2>2. url.of \in Ref /\ refs[url.of] \in heads /\ com' \in Commit
    BY <2>1 DEF RequestInv, TypeOK
  <2>3. TypeOK'
    BY <1>1, <2>1, <2>2 DEF TypeOK
  <2>4. RequestInv'
    BY <1>1, <2>1, <2>2 DEF RequestInv
  <2> QED
    BY <2>3, <2>4
<1>3. ASSUME GetCommit PROVE TypeOK' /\ RequestInv'
  <2>1. /\ pc = "commit" /\ pc' = "table" /\ com' = com /\ tbl' = TableOf[com]
    BY <1>3 DEF GetCommit, Goto
  <2>2. com \in Commit /\ TableOf[com] \in Table
    BY <2>1, TableOfAssumption DEF RequestInv
  <2>3. TableOf[com] \in NamedTables(url)
    BY <2>1, <2>2, NamesAreDisjoint DEF RequestInv, NamedTables
  <2>4. TypeOK'
    BY <1>1, <2>1, <2>2 DEF TypeOK
  <2>5. RequestInv'
    BY <1>1, <2>1, <2>2, <2>3 DEF RequestInv, NamedTables
  <2> QED
    BY <2>4, <2>5
<1>4. StreamInv' /\ RowsInv'
  BY <1>1 DEF StreamInv, RowsInv
<1>5. RefsInv' /\ IntactInv' /\ KeptInv'
  BY <1>1 DEF RefsInv, IntactInv, HasTable, KeptInv
<1>6. WholeAnswersAreRight' /\ BrokenAnswersArePrefixes' /\ SteadyHeadIsServed'
  BY <1>1, NoAnswerYet
<1> QED
  BY <1>2, <1>3, <1>4, <1>5, <1>6

-----------------------------------------------------------------------------
(* Rows are written *)

\* What it means for the blocks asked for to be in range.
LEMMA RangeFacts ==
    ASSUME NEW u \in Urls, NEW t \in Table
    PROVE  /\ Start(u) \in Int /\ End(u, t) \in Int
           /\ ~BlocksOutOfRange(u, t) <=>
                  /\ Start(u) \in Nat /\ Start(u) < BlockCount(t)
                  /\ Start(u) <= End(u, t) /\ End(u, t) <= BlockCount(t)
           /\ ~RowsOutOfRange(u, t) <=>
                  \A i \in 1 .. Len(u.args) : u.args[i] \in Nat /\ u.args[i] <= RowsCount[t]
<1>1. u.args \in Seq(Int) /\ Len(u.args) \in Nat /\ DOMAIN u.args = 1 .. Len(u.args)
  BY UrlFacts
<1>2. BlockCount(t) \in Nat
  BY BlockCountFacts
<1>3. Start(u) \in Int
  BY <1>1 DEF Start
<1>4. End(u, t) \in Int
  BY <1>1, <1>2 DEF End
<1>5. \A i \in 1 .. Len(u.args) : u.args[i] \in Int
  BY <1>1
<1>6. RowsCount[t] \in Nat
  BY RowsCountAssumption
<1>7. ~BlocksOutOfRange(u, t) <=>
         /\ Start(u) \in Nat /\ Start(u) < BlockCount(t)
         /\ Start(u) <= End(u, t) /\ End(u, t) <= BlockCount(t)
  BY <1>2, <1>3, <1>4 DEF BlocksOutOfRange
<1>8. ~RowsOutOfRange(u, t) <=>
         \A i \in 1 .. Len(u.args) : u.args[i] \in Nat /\ u.args[i] <= RowsCount[t]
  BY <1>1, <1>5, <1>6 DEF RowsOutOfRange
<1> QED
  BY <1>3, <1>4, <1>7, <1>8

\* A stream begins in range, with nothing written.
LEMMA StartStreamStep == IInv /\ StartStream => IInv'
<1> SUFFICES ASSUME IInv, StartStream PROVE IInv'
  OBVIOUS
<1> USE DEF IInv
<1>1. /\ pc = "table" /\ pc' = "stream" /\ ~OutOfRange
      /\ \/ url.path = "blocks" /\ url.format # "other"
         \/ url.path = "rows" /\ url.args # <<>>
      /\ pos' = FirstPos(url)
      /\ UNCHANGED <<refs, commits, tables, blocks, url, com, tbl, rows, answer, heads, intact, kept>>
  BY DEF StartStream, Goto, storeVars
<1>2. /\ url \in Urls /\ tbl \in Table /\ rows = <<>> /\ answer = NoAnswer
      /\ tbl \in NamedTables(url)
  BY <1>1 DEF RequestInv, StreamInv
<1>3. url.path = "blocks" =>
          /\ Start(url) \in Nat /\ End(url, tbl) \in Nat /\ Start(url) <= End(url, tbl)
          /\ Start(url) < BlockCount(tbl) /\ pos' = Start(url)
  BY <1>1, <1>2, RangeFacts DEF OutOfRange, FirstPos
<1>4. url.path = "rows" => pos' = 1 /\ Len(url.args) \in Nat /\ url.args \in Seq(Int)
  BY <1>1, <1>2, UrlFacts DEF FirstPos
<1>5. TypeOK'
  BY <1>1, <1>3, <1>4 DEF TypeOK
<1>6. RequestInv' /\ StreamInv'
  BY <1>1, <1>2 DEF RequestInv, StreamInv, NamedTables, OutOfRange
<1>7. RowsInv'
  <2>1. ASSUME url.path = "blocks"
        PROVE  /\ pos' \in Start(url) .. End(url, tbl)
               /\ rows = RowsBetween(Start(url) * BlockSize, RowsBefore(tbl, pos'))
    <3> DEFINE n == Start(url) * BlockSize
    <3>1. n \in Nat /\ RowsBefore(tbl, pos') = n
      BY <1>2, <1>3, <2>1, Multiples, BlockCountFacts DEF RowsBefore
    <3>2. RowsBetween(n, n) = <<>>
      BY <3>1, RowsBetweenFacts
    <3> QED
      BY <1>2, <1>3, <2>1, <3>1, <3>2
  <2>2. ASSUME url.path = "rows"
        PROVE  /\ pos' \in 1 .. Len(url.args) + 1
               /\ rows = SubSeq(url.args, 1, pos' - 1)
               /\ 1 .. pos' - 1 = {}
    BY <1>2, <1>4, <2>2
  <2> QED
    BY <1>1, <2>1, <2>2 DEF RowsInv
<1>8. RefsInv' /\ IntactInv' /\ KeptInv'
  BY <1>1 DEF RefsInv, IntactInv, HasTable, KeptInv
<1>9. WholeAnswersAreRight' /\ BrokenAnswersArePrefixes' /\ SteadyHeadIsServed'
  BY <1>1, NoAnswerYet
<1> QED
  BY <1>5, <1>6, <1>7, <1>8, <1>9

\* What both loops leave alone.
LEMMA SendFrame ==
    ASSUME IInv, SendBlock \/ SendRow,
           pos' \in Nat, rows' \in Seq(Nat), RowsInv'
    PROVE  IInv'
<1> USE DEF IInv
<1>1. /\ pc = "stream"
      /\ UNCHANGED <<refs, commits, tables, blocks, pc, url, com, tbl, answer, heads, intact, kept>>
  BY DEF SendBlock, SendRow, storeVars
<1>2. TypeOK'
  BY <1>1 DEF TypeOK
<1>3. RequestInv' /\ StreamInv'
  BY <1>1 DEF RequestInv, StreamInv, NamedTables, OutOfRange
<1>4. RefsInv' /\ IntactInv' /\ KeptInv'
  BY <1>1 DEF RefsInv, IntactInv, HasTable, KeptInv
<1>5. WholeAnswersAreRight' /\ BrokenAnswersArePrefixes' /\ SteadyHeadIsServed'
  BY <1>1, NoAnswerYet
<1> QED
  BY <1>2, <1>3, <1>4, <1>5

\* A block continues the rows written.
LEMMA SendBlockStep == IInv /\ SendBlock => IInv'
<1> SUFFICES ASSUME IInv, SendBlock PROVE IInv'
  OBVIOUS
<1> USE DEF IInv
<1>1. /\ pc = "stream" /\ url.path = "blocks" /\ pos < End(url, tbl)
      /\ rows' = rows \o BlockRows(tbl, pos) /\ pos' = pos + 1
      /\ UNCHANGED <<pc, url, tbl>>
  BY DEF SendBlock, BlockIsNext
<1>2. url \in Urls /\ tbl \in Table
  BY <1>1 DEF RequestInv
<1>3. /\ Start(url) \in Nat /\ End(url, tbl) \in Int /\ End(url, tbl) <= BlockCount(tbl)
  BY <1>1, <1>2, RangeFacts DEF StreamInv, OutOfRange
<1>4. /\ pos \in Nat /\ Start(url) <= pos
      /\ rows = RowsBetween(Start(url) * BlockSize, RowsBefore(tbl, pos))
  BY <1>1, <1>3 DEF RowsInv, TypeOK
<1>5. pos < BlockCount(tbl) /\ BlockCount(tbl) \in Nat
  BY <1>1, <1>2, <1>3, <1>4, BlockCountFacts
<1>6. rows' = RowsBetween(Start(url) * BlockSize, RowsBefore(tbl, pos + 1))
  BY <1>1, <1>2, <1>3, <1>4, <1>5, NextBlock
<1>7. rows' \in Seq(Nat)
  <2> DEFINE m == Start(url) * BlockSize
             n == pos * BlockSize
  <2>1. m \in Nat /\ n \in Nat /\ m <= n /\ n < RowsCount[tbl]
    BY <1>2, <1>3, <1>4, <1>5, Multiples, BlockCountFacts
  <2>2. RowsBefore(tbl, pos) = n
    BY <2>1 DEF RowsBefore
  <2>3. RowsBefore(tbl, pos + 1) \in Nat /\ n <= RowsBefore(tbl, pos + 1)
    BY <1>2, <1>4, <2>2, RowsBeforeFacts
  <2> HIDE DEF m, n
  <2>4. m <= RowsBefore(tbl, pos + 1)
    BY <2>1, <2>3
  <2> QED
    BY <1>6, <2>1, <2>3, <2>4, RowsBetweenFacts DEF m
<1>8. RowsInv'
  BY <1>1, <1>3, <1>4, <1>6 DEF RowsInv
<1> QED
  BY <1>1, <1>4, <1>7, <1>8, SendFrame

\* A row continues the rows written.
LEMMA SendRowStep == IInv /\ SendRow => IInv'
<1> SUFFICES ASSUME IInv, SendRow PROVE IInv'
  OBVIOUS
<1> USE DEF IInv
<1> DEFINE o == url.args[pos]
<1>1. /\ pc = "stream" /\ url.path = "rows" /\ pos <= Len(url.args)
      /\ HasRow(tbl, o)
      /\ rows' = Append(rows, RowToBlockAndOffset(o)[1] * BlockSize + RowToBlockAndOffset(o)[2])
      /\ pos' = pos + 1
      /\ UNCHANGED <<pc, url, tbl>>
  BY DEF SendRow, RowIsNext
<1>2. url \in Urls /\ tbl \in Table
  BY <1>1 DEF RequestInv
<1>3. url.args \in Seq(Int) /\ Len(url.args) \in Nat
  BY <1>2, UrlFacts
<1>4. /\ pos \in 1 .. Len(url.args)
      /\ rows = SubSeq(url.args, 1, pos - 1)
      /\ \A i \in 1 .. pos - 1 : url.args[i] < RowsCount[tbl]
  BY <1>1, <1>3 DEF RowsInv, TypeOK
<1>5. o \in Nat
  BY <1>1, <1>2, <1>4, RangeFacts DEF StreamInv, OutOfRange
<1>6. o < RowsCount[tbl] /\ rows' = Append(rows, o)
  BY <1>1, <1>2, <1>5, RowFacts
<1> HIDE DEF o
<1>7. rows' \in Seq(Nat)
  BY <1>5, <1>6, AppendProperties DEF TypeOK
<1>8. rows' = SubSeq(url.args, 1, pos)
  BY <1>3, <1>4, <1>6 DEF o
<1>9. RowsInv'
  <2>1. \A i \in 1 .. pos' - 1 : url.args[i] < RowsCount[tbl]
    <3>1. pos' - 1 = pos /\ \A i \in 1 .. pos : i \in 1 .. pos - 1 \/ i = pos
      BY <1>1, <1>4
    <3> QED
      BY <1>4, <1>6, <3>1 DEF o
  <2> QED
    BY <1>1, <1>3, <1>4, <1>8, <2>1 DEF RowsInv
<1> QED
  BY <1>1, <1>4, <1>7, <1>9, SendFrame

-----------------------------------------------------------------------------
(* The answer is given *)

\* While the ref of a request keeps its value, a commit that had its table, the
\* request has found what the ref names, and it is there.
LEMMA SteadyFacts ==
    ASSUME IInv, pc # "idle", NEW c \in Commit, url.of \in Ref, heads = {c}, intact
    PROVE  /\ refs[url.of] = c
           /\ c \in commits /\ TableOf[c] \in tables
           /\ BlocksOf(TableOf[c]) \subseteq blocks
           /\ pc = "commit" => com = c
           /\ pc \in {"table", "stream"} => tbl = TableOf[c]
<1> USE DEF IInv
<1>1. refs[url.of] = c /\ c # None
  BY NamesAreDisjoint DEF RequestInv
<1>2. c \in commits /\ HasTable(c)
  BY <1>1 DEF RefsInv, IntactInv
<1>3. pc = "commit" => com = c
  BY DEF RequestInv
<1>4. pc \in {"table", "stream"} => tbl = TableOf[c]
  BY DEF RequestInv, NamedTables
<1> QED
  BY <1>1, <1>2, <1>3, <1>4 DEF HasTable

\* An action that answers the request, and may let a cache keep the answer only
\* if it is one by the sum of a commit or if it is about the table found.
Answering ==
    /\ pc' = "idle" /\ com' = None /\ tbl' = None /\ pos' = 0
    /\ answer' \in Answer
    /\ \/ kept' = kept
       \/ /\ kept' = [url |-> url, tbl |-> answer'.tbl, whole |-> answer'.whole]
          /\ url.path = "commit" \/ (answer'.tbl = tbl /\ pc \in {"table", "stream"})
    /\ UNCHANGED <<refs, commits, tables, blocks, url, rows, heads, intact>>

\* Such an action keeps the invariant when what it answers is right.
LEMMA AnsweringStep ==
    ASSUME IInv, pc # "idle", Answering,
           answer'.status = 200 /\ url.path \in {"blocks", "rows"} =>
               IF answer'.whole
               THEN /\ answer'.tbl \in NamedTables(url)
                    /\ Valid(url, answer'.tbl)
                    /\ rows = RowsAsked(url, answer'.tbl)
               ELSE IsPrefix(rows, RowsAsked(url, answer'.tbl)),
           \A c \in Commit : url.of \in Ref /\ heads = {c} /\ intact /\ Valid(url, TableOf[c]) =>
               answer'.status = 200 /\ answer'.whole
    PROVE  IInv'
<1> USE DEF IInv
<1>1. /\ pc' = "idle" /\ com' = None /\ tbl' = None /\ pos' = 0
      /\ answer' \in Answer
      /\ UNCHANGED <<refs, commits, tables, blocks, url, rows, heads, intact>>
  BY DEF Answering
<1>2. url \in Urls
  BY DEF RequestInv
<1>3. answer'.tbl \in Table \cup {None} /\ answer'.whole \in BOOLEAN
  BY <1>1 DEF Answer
<1>4. kept' \in {None} \cup [url : Urls, tbl : Table \cup {None}, whole : BOOLEAN]
  BY <1>2, <1>3 DEF Answering, TypeOK
<1>5. TypeOK'
  BY <1>1, <1>4 DEF TypeOK
<1>6. KeptInv'
  <2>1. CASE kept' = kept
    BY <2>1 DEF KeptInv
  <2>2. CASE kept' # kept
    <3>1. /\ kept'.url = url /\ kept'.tbl = answer'.tbl
          /\ url.path = "commit" \/ (answer'.tbl = tbl /\ pc \in {"table", "stream"})
      BY <2>2 DEF Answering
    <3>2. pc \in {"table", "stream"} /\ url.of \notin Ref =>
             tbl = IF url.of \in Commit THEN TableOf[url.of] ELSE url.of
      BY DEF RequestInv, NamedTables
    <3> QED
      BY <3>1, <3>2 DEF KeptInv
  <2> QED
    BY <2>1, <2>2
<1>7. RefsInv' /\ RequestInv' /\ IntactInv' /\ StreamInv' /\ RowsInv'
  BY <1>1 DEF RefsInv, RequestInv, IntactInv, StreamInv, RowsInv
<1>8. WholeAnswersAreRight'
  BY <1>1 DEF WholeAnswersAreRight, Streamed, Answered, NamedTables
<1>9. BrokenAnswersArePrefixes'
  BY <1>1 DEF BrokenAnswersArePrefixes, Streamed, Answered
<1>10. SteadyHeadIsServed'
  BY <1>1 DEF SteadyHeadIsServed, Answered
<1> QED
  BY <1>5, <1>6, <1>7, <1>8, <1>9, <1>10

\* A valid request is one for blocks or rows that is in range.
LEMMA ValidFacts ==
    ASSUME NEW u \in Urls, NEW t \in Table, Valid(u, t)
    PROVE  /\ \/ u.path = "blocks" /\ u.format # "other" /\ ~BlocksOutOfRange(u, t)
              \/ /\ u.path = "rows" /\ u.args # <<>> /\ ~RowsOutOfRange(u, t)
                 /\ \A i \in 1 .. Len(u.args) : u.args[i] \in Nat /\ u.args[i] < RowsCount[t]
<1>1. CASE u.path = "blocks"
  <2>1. /\ u.format # "other" /\ HasBlock(t, Start(u))
        /\ End(u, t) = Start(u) \/ (End(u, t) > Start(u) /\ HasBlock(t, End(u, t) - 1))
    BY <1>1 DEF Valid
  <2>2. Start(u) \in Int /\ End(u, t) \in Int /\ BlockCount(t) \in Nat
    BY RangeFacts, BlockCountFacts
  <2>3. Start(u) \in Nat /\ Start(u) < BlockCount(t)
    BY <2>1, <2>2, BlockCountFacts DEF HasBlock
  <2>4. End(u, t) > Start(u) => End(u, t) - 1 < BlockCount(t)
    BY <2>1, <2>2, BlockCountFacts DEF HasBlock
  <2> QED
    BY <1>1, <2>1, <2>2, <2>3, <2>4, RangeFacts
<1>2. CASE u.path # "blocks"
  <2>1. u.args \in Seq(Int) /\ DOMAIN u.args = 1 .. Len(u.args) /\ RowsCount[t] \in Nat
    BY UrlFacts, RowsCountAssumption
  <2>2. /\ u.path = "rows" /\ u.args # <<>>
        /\ \A i \in 1 .. Len(u.args) : u.args[i] \in Nat /\ u.args[i] < RowsCount[t]
    BY <1>2, <2>1 DEF Valid
  <2>3. \A i \in 1 .. Len(u.args) : u.args[i] <= RowsCount[t]
    BY <2>1, <2>2
  <2> QED
    BY <2>2, <2>3, RangeFacts
<1> QED
  BY <1>1, <1>2

\* The answers before anything is written; none of them goes to a valid request
\* whose ref kept its value.
LEMMA PlainAnswerStep ==
    ASSUME IInv,
           \/ RefNotFound \/ CommitNotFound \/ TableNotFound \/ SendCommit \/ SendTable
           \/ Refuse \/ RefuseFormat \/ Redirect
    PROVE  IInv'
<1> USE DEF IInv
<1> DEFINE unseen == \A c \in Commit : ~(url.of \in Ref /\ heads = {c} /\ intact /\ Valid(url, TableOf[c]))
<1>1. pc # "idle" /\ url \in Urls
  BY DEF RefNotFound, CommitNotFound, TableNotFound, SendCommit, SendTable, Refuse, RefuseFormat,
         Redirect, RequestInv
<1>2. \A c \in Commit : url.of \in Ref /\ heads = {c} /\ intact =>
          /\ refs[url.of] = c /\ c \in commits /\ TableOf[c] \in tables /\ TableOf[c] \in Table
          /\ pc = "commit" => com = c
          /\ pc \in {"table", "stream"} => tbl = TableOf[c]
  BY <1>1, SteadyFacts, TableOfAssumption
<1>3. \A t \in Table : Valid(url, t) =>
          /\ url.path \in {"blocks", "rows"}
          /\ url.path = "blocks" => url.format # "other" /\ ~BlocksOutOfRange(url, t)
          /\ url.path = "rows" => url.args # <<>> /\ ~RowsOutOfRange(url, t)
  BY <1>1, ValidFacts
<1> DEFINE Done ==
              /\ Answering /\ unseen
              /\ answer'.status = 200 => url.path \notin {"blocks", "rows"}
<1>4. ASSUME RefNotFound PROVE Done
  <2>1. unseen
    BY <1>2, <1>4, NamesAreDisjoint DEF RefNotFound
  <2> QED
    BY <1>4, <2>1 DEF RefNotFound, NotFound, Respond, EndRequest, Goto, Answering, Answer, storeVars
<1>5. ASSUME CommitNotFound PROVE Done
  <2>1. unseen
    BY <1>2, <1>5 DEF CommitNotFound
  <2> QED
    BY <1>5, <2>1 DEF CommitNotFound, NotFound, Respond, EndRequest, Goto, Answering, Answer, storeVars
<1>6. ASSUME TableNotFound PROVE Done
  <2>1. unseen
    BY <1>2, <1>6 DEF TableNotFound
  <2> QED
    BY <1>6, <2>1 DEF TableNotFound, NotFound, Respond, EndRequest, Goto, Answering, Answer, storeVars
<1>7. ASSUME SendCommit PROVE Done
  <2>1. unseen
    BY <1>2, <1>3, <1>7 DEF SendCommit
  <2>2. pc = "table" /\ tbl \in Table /\ url.path \in {"commit", "head"}
    BY <1>7 DEF SendCommit, RequestInv
  <2>3. Answering
    BY <1>7, <2>2 DEF SendCommit, Respond, EndRequest, Goto, Answering, Answer, storeVars
  <2> QED
    BY <2>1, <2>2, <2>3
<1>8. ASSUME SendTable PROVE Done
  <2>1. unseen
    BY <1>2, <1>3, <1>8 DEF SendTable
  <2> QED
    BY <1>8, <2>1 DEF SendTable, Respond, EndRequest, Goto, Answering, Answer, storeVars, RequestInv
<1>9. ASSUME Refuse PROVE Done
  <2>1. unseen
    BY <1>2, <1>3, <1>9 DEF Refuse, OutOfRange
  <2> QED
    BY <1>9, <2>1 DEF Refuse, Respond, EndRequest, Goto, Answering, Answer, storeVars, RequestInv
<1>10. ASSUME RefuseFormat PROVE Done
  <2>1. unseen
    BY <1>2, <1>3, <1>10 DEF RefuseFormat
  <2> QED
    BY <1>10, <2>1 DEF RefuseFormat, Respond, EndRequest, Goto, Answering, Answer, storeVars, RequestInv
<1>11. ASSUME Redirect PROVE Done
  <2>1. unseen
    BY <1>2, <1>3, <1>11 DEF Redirect
  <2> QED
    BY <1>11, <2>1 DEF Redirect, Respond, EndRequest, Goto, Answering, Answer, storeVars, RequestInv
<1>12. Done
  BY <1>4, <1>5, <1>6, <1>7, <1>8, <1>9, <1>10, <1>11
<1> QED
  BY <1>1, <1>12, AnsweringStep

\* A shorter list with the same elements is a prefix.
LEMMA PrefixFacts ==
    ASSUME NEW S, NEW p \in Seq(S), NEW q \in Seq(S),
           Len(p) <= Len(q), \A i \in 1 .. Len(p) : p[i] = q[i]
    PROVE  IsPrefix(p, q)
<1>1. Len(p) \in Nat /\ Len(q) \in Nat
  OBVIOUS
<1>2. SubSeq(p, 1, Len(p)) = SubSeq(q, 1, Len(p))
  BY <1>1
<1> QED
  BY <1>1, <1>2 DEF IsPrefix

\* Where a stream over blocks stands.
LEMMA BlocksStreamFacts ==
    ASSUME IInv, pc = "stream", url.path = "blocks"
    PROVE  /\ url \in Urls /\ tbl \in Table /\ url.format # "other"
           /\ Start(url) \in Nat /\ End(url, tbl) \in Nat /\ pos \in Nat
           /\ Start(url) < BlockCount(tbl) /\ End(url, tbl) <= BlockCount(tbl)
           /\ Start(url) <= pos /\ pos <= End(url, tbl)
           /\ rows = RowsBetween(Start(url) * BlockSize, RowsBefore(tbl, pos))
<1> USE DEF IInv
<1>1. url \in Urls /\ tbl \in Table /\ url.format # "other" /\ ~BlocksOutOfRange(url, tbl)
  BY DEF RequestInv, StreamInv, OutOfRange
<1>2. /\ Start(url) \in Nat /\ End(url, tbl) \in Int /\ Start(url) <= End(url, tbl)
      /\ Start(url) < BlockCount(tbl) /\ End(url, tbl) <= BlockCount(tbl)
  BY <1>1, RangeFacts
<1>3. /\ pos \in Start(url) .. End(url, tbl)
      /\ rows = RowsBetween(Start(url) * BlockSize, RowsBefore(tbl, pos))
  BY DEF RowsInv
<1> QED
  BY <1>1, <1>2, <1>3

\* Where a stream over rows stands.
LEMMA RowsStreamFacts ==
    ASSUME IInv, pc = "stream", url.path = "rows"
    PROVE  /\ url \in Urls /\ tbl \in Table /\ url.args # <<>>
           /\ url.args \in Seq(Int) /\ Len(url.args) \in Nat
           /\ pos \in 1 .. Len(url.args) + 1
           /\ rows = SubSeq(url.args, 1, pos - 1)
           /\ \A i \in 1 .. Len(url.args) : url.args[i] \in Nat
           /\ \A i \in 1 .. pos - 1 : url.args[i] < RowsCount[tbl]
<1> USE DEF IInv
<1>1. url \in Urls /\ tbl \in Table /\ url.args # <<>> /\ ~RowsOutOfRange(url, tbl)
  BY DEF RequestInv, StreamInv, OutOfRange
<1>2. url.args \in Seq(Int) /\ Len(url.args) \in Nat
  BY <1>1, UrlFacts
<1>3. \A i \in 1 .. Len(url.args) : url.args[i] \in Nat
  BY <1>1, RangeFacts
<1> QED
  BY <1>1, <1>2, <1>3 DEF RowsInv

\* A stream that comes to its end has written what was asked for, and that was
\* a valid request.
LEMMA EndStreamStep == IInv /\ EndStream => IInv'
<1> SUFFICES ASSUME IInv, EndStream PROVE IInv'
  OBVIOUS
<1>1. /\ pc = "stream" /\ ~BlockIsNext(pos) /\ ~RowIsNext(pos)
      /\ url.path \in {"blocks", "rows"} /\ tbl \in Table /\ tbl \in NamedTables(url)
  BY DEF EndStream, IInv, StreamInv, RequestInv
<1>2. /\ Answering
      /\ answer'.status = 200 /\ answer'.tbl = tbl /\ answer'.whole
  BY <1>1 DEF EndStream, Respond, EndRequest, Goto, Answering, Answer, storeVars
<1>3. ASSUME url.path = "blocks" PROVE Valid(url, tbl) /\ rows = RowsAsked(url, tbl)
  <2>1. pos = End(url, tbl)
    BY <1>1, <1>3, BlocksStreamFacts DEF BlockIsNext
  <2>2. rows = RowsAsked(url, tbl)
    BY <1>1, <1>3, <2>1, BlocksStreamFacts DEF RowsAsked
  <2>3. HasBlock(tbl, Start(url))
    BY <1>1, <1>3, BlocksStreamFacts, BlockCountFacts DEF HasBlock
  <2>4. End(url, tbl) = Start(url) \/ (End(url, tbl) > Start(url) /\ HasBlock(tbl, End(url, tbl) - 1))
    <3>1. /\ Start(url) \in Nat /\ End(url, tbl) \in Nat /\ Start(url) <= End(url, tbl)
          /\ End(url, tbl) <= BlockCount(tbl) /\ BlockCount(tbl) \in Nat
      BY <1>1, <1>3, <2>1, BlocksStreamFacts, BlockCountFacts
    <3>2. ASSUME End(url, tbl) > Start(url) PROVE HasBlock(tbl, End(url, tbl) - 1)
      BY <1>1, <3>1, <3>2, BlockCountFacts DEF HasBlock
    <3> QED
      BY <3>1, <3>2
  <2> QED
    BY <1>1, <1>3, <2>2, <2>3, <2>4, BlocksStreamFacts DEF Valid
<1>4. ASSUME url.path = "rows" PROVE Valid(url, tbl) /\ rows = RowsAsked(url, tbl)
  <2>1. pos - 1 = Len(url.args)
    BY <1>1, <1>4, RowsStreamFacts DEF RowIsNext
  <2>2. rows = RowsAsked(url, tbl)
    <3>1. SubSeq(url.args, 1, Len(url.args)) = url.args
      BY <1>1, <1>4, RowsStreamFacts
    <3> QED
      BY <1>1, <1>4, <2>1, <3>1, RowsStreamFacts DEF RowsAsked
  <2>3. \A i \in DOMAIN url.args : url.args[i] >= 0 /\ url.args[i] < RowsCount[tbl]
    BY <1>1, <1>4, <2>1, RowsStreamFacts
  <2> QED
    BY <1>1, <1>4, <2>2, <2>3, RowsStreamFacts DEF Valid
<1> QED
  BY <1>1, <1>2, <1>3, <1>4, AnsweringStep

\* A stream that breaks off has written the beginning of what was asked for, and
\* does not break off while the ref of a valid request keeps its value.
LEMMA BreakStep == IInv /\ Break => IInv'
<1> SUFFICES ASSUME IInv, Break PROVE IInv'
  OBVIOUS
<1>1. /\ pc = "stream" /\ url \in Urls /\ tbl \in Table
      /\ \/ BlockIsNext(pos) /\ <<tbl, pos>> \notin blocks
         \/ RowIsNext(pos) /\ ~(HasRow(tbl, url.args[pos]) /\ BlockIsThere(url.args[pos]))
  BY DEF Break, IInv, RequestInv
<1>2. /\ Answering
      /\ answer'.status = 200 /\ answer'.tbl = tbl /\ ~answer'.whole
  BY <1>1 DEF Break, Respond, EndRequest, Goto, Answering, Answer, storeVars
<1>3. ASSUME BlockIsNext(pos), <<tbl, pos>> \notin blocks
      PROVE  /\ IsPrefix(rows, RowsAsked(url, tbl))
             /\ ~(BlocksOf(tbl) \subseteq blocks)
  <2>1. url.path = "blocks" /\ pos < End(url, tbl)
    BY <1>3 DEF BlockIsNext
  <2> DEFINE m == Start(url) * BlockSize
             n == RowsBefore(tbl, pos)
             e == RowsBefore(tbl, End(url, tbl))
  <2>2. /\ m \in Nat /\ n \in Nat /\ e \in Nat /\ m <= n /\ n <= e
    <3>1. m \in Nat /\ m < RowsCount[tbl] /\ RowsBefore(tbl, Start(url)) = m
      BY <1>1, <2>1, BlocksStreamFacts, BlockCountFacts, Multiples DEF RowsBefore
    <3>2. n \in Nat /\ RowsBefore(tbl, Start(url)) <= n
      BY <1>1, <2>1, BlocksStreamFacts, RowsBeforeFacts
    <3>3. n <= e /\ e \in Nat
      BY <1>1, <2>1, BlocksStreamFacts, RowsBeforeFacts
    <3> QED
      BY <3>1, <3>2, <3>3
  <2>3. rows = RowsBetween(m, n) /\ RowsAsked(url, tbl) = RowsBetween(m, e)
    BY <1>1, <2>1, BlocksStreamFacts DEF RowsAsked
  <2> HIDE DEF m, n, e
  <2>4. /\ RowsBetween(m, n) \in Seq(Nat) /\ Len(RowsBetween(m, n)) = n - m
        /\ \A i \in 1 .. n - m : RowsBetween(m, n)[i] = m + i - 1
    BY <2>2, RowsBetweenFacts
  <2>5. /\ RowsBetween(m, e) \in Seq(Nat) /\ Len(RowsBetween(m, e)) = e - m
        /\ \A i \in 1 .. e - m : RowsBetween(m, e)[i] = m + i - 1
    <3>1. m <= e
      BY <2>2
    <3> QED
      BY ONLY <2>2, <3>1, RowsBetweenFacts
  <2>6. IsPrefix(RowsBetween(m, n), RowsBetween(m, e))
    <3> DEFINE p == RowsBetween(m, n)
               q == RowsBetween(m, e)
    <3>1. Len(p) <= Len(q) /\ \A i \in 1 .. Len(p) : p[i] = q[i]
      BY <2>2, <2>4, <2>5
    <3>2. p \in Seq(Nat) /\ q \in Seq(Nat)
      BY <2>4, <2>5
    <3> HIDE DEF p, q
    <3> QED
      BY ONLY <3>1, <3>2, PrefixFacts DEF p, q
  <2>7. <<tbl, pos>> \in BlocksOf(tbl)
    BY <1>1, <2>1, BlocksStreamFacts, BlockCountFacts DEF BlocksOf
  <2> QED
    BY <1>3, <2>3, <2>6, <2>7
<1>4. ASSUME RowIsNext(pos), ~(HasRow(tbl, url.args[pos]) /\ BlockIsThere(url.args[pos]))
      PROVE  /\ IsPrefix(rows, RowsAsked(url, tbl))
             /\ ~(Valid(url, tbl) /\ BlocksOf(tbl) \subseteq blocks)
  <2>1. url.path = "rows" /\ pos \in 1 .. Len(url.args) /\ Len(url.args) \in Nat
    BY <1>1, <1>4, RowsStreamFacts DEF RowIsNext
  <2>2. /\ url.args \in Seq(Int) /\ rows = SubSeq(url.args, 1, pos - 1)
        /\ RowsAsked(url, tbl) = url.args /\ url.args[pos] \in Nat
    BY <1>1, <2>1, RowsStreamFacts DEF RowsAsked
  <2>3. IsPrefix(rows, url.args)
    <3>1. /\ rows \in Seq(Int) /\ Len(rows) = pos - 1
          /\ \A i \in 1 .. pos - 1 : rows[i] = url.args[i]
      BY <2>1, <2>2
    <3>2. Len(rows) <= Len(url.args) /\ \A i \in 1 .. Len(rows) : rows[i] = url.args[i]
      BY <2>1, <3>1
    <3> QED
      BY ONLY <2>2, <3>1, <3>2, PrefixFacts
  <2>4. ASSUME Valid(url, tbl), BlocksOf(tbl) \subseteq blocks PROVE FALSE
    <3>1. url.args[pos] < RowsCount[tbl]
      BY <1>1, <2>1, <2>4, ValidFacts
    <3>2. HasRow(tbl, url.args[pos])
      BY <1>1, <2>2, <3>1, RowFacts
    <3>3. BlockIsThere(url.args[pos])
      BY <2>4, <3>2 DEF HasRow, BlockIsThere
    <3> QED
      BY <1>4, <3>2, <3>3
  <2> QED
    BY <2>2, <2>3, <2>4
<1>5. IsPrefix(rows, RowsAsked(url, tbl)) /\ ~(Valid(url, tbl) /\ BlocksOf(tbl) \subseteq blocks)
  BY <1>1, <1>3, <1>4
<1>6. ASSUME NEW c \in Commit, url.of \in Ref, heads = {c}, intact, Valid(url, TableOf[c]) PROVE FALSE
  <2>1. tbl = TableOf[c] /\ BlocksOf(TableOf[c]) \subseteq blocks
    BY <1>1, <1>6, SteadyFacts
  <2> QED
    BY <1>5, <1>6, <2>1
<1> QED
  BY <1>1, <1>2, <1>5, <1>6, AnsweringStep

\* The variables of a handler whose client goes away are gone, and so are those
\* of the last answer when another endpoint is asked.
LEMMA ClearStep ==
    ASSUME IInv, pc' = "idle", url' = None, rows' = <<>>, heads' = {}, intact' = FALSE,
           com' \in {com, None}, tbl' \in {tbl, None}, pos' \in {pos, 0},
           answer' \in {answer, NoAnswer}, kept' = kept,
           UNCHANGED storeVars
    PROVE  IInv'
<1> USE DEF IInv
<1>1. UNCHANGED <<refs, commits, tables, blocks>>
  BY DEF storeVars
<1>5. intact' \in BOOLEAN
  OBVIOUS
<1>2. TypeOK'
  BY <1>1, <1>5 DEF TypeOK
<1>3. RefsInv' /\ RequestInv' /\ IntactInv' /\ StreamInv' /\ RowsInv' /\ KeptInv'
  BY <1>1 DEF RefsInv, RequestInv, IntactInv, StreamInv, RowsInv, KeptInv
<1>4. WholeAnswersAreRight' /\ BrokenAnswersArePrefixes' /\ SteadyHeadIsServed'
  BY NoAnswerYet
<1> QED
  BY <1>2, <1>3, <1>4

-----------------------------------------------------------------------------
(* The invariant holds *)

\* The invariant holds at the start.
LEMMA InitIInv == BundlesInit => IInv
<1> SUFFICES ASSUME BundlesInit PROVE IInv
  OBVIOUS
<1> USE DEF BundlesInit, Init
<1>4. intact \in BOOLEAN
  OBVIOUS
<1>1. TypeOK
  BY <1>4 DEF TypeOK
<1>2. RefsInv /\ RequestInv /\ IntactInv /\ StreamInv /\ RowsInv /\ KeptInv
  BY DEF RefsInv, RequestInv, IntactInv, StreamInv, RowsInv, KeptInv
<1>3. WholeAnswersAreRight /\ BrokenAnswersArePrefixes /\ SteadyHeadIsServed
  BY DEF WholeAnswersAreRight, BrokenAnswersArePrefixes, SteadyHeadIsServed, Streamed, Answered
<1> QED
  BY <1>1, <1>2, <1>3 DEF IInv

\* The invariant is about the variables of Reads only.
LEMMA UnchangedStep == IInv /\ UNCHANGED vars => IInv'
<1> SUFFICES ASSUME IInv, UNCHANGED vars PROVE IInv'
  OBVIOUS
<1> USE DEF IInv
<1>1. UNCHANGED <<refs, commits, tables, blocks, pc, url, com, tbl, pos, rows, answer, heads, intact, kept>>
  BY DEF vars, storeVars, readVars
<1>2. TypeOK' /\ RefsInv'
  BY <1>1 DEF TypeOK, RefsInv
<1>3. RequestInv' /\ IntactInv' /\ StreamInv'
  BY <1>1 DEF RequestInv, IntactInv, HasTable, StreamInv, OutOfRange, NamedTables
<1>4. RowsInv' /\ KeptInv'
  BY <1>1 DEF RowsInv, KeptInv
<1>5. WholeAnswersAreRight' /\ BrokenAnswersArePrefixes' /\ SteadyHeadIsServed'
  BY <1>1 DEF WholeAnswersAreRight, BrokenAnswersArePrefixes, SteadyHeadIsServed, Streamed,
              Answered, NamedTables
<1> QED
  BY <1>2, <1>3, <1>4, <1>5

\* Every action keeps the invariant.
LEMMA IInvStep == IInv /\ [BundlesNext]_allVars => IInv'
<1> SUFFICES ASSUME IInv, [BundlesNext]_allVars PROVE IInv'
  OBVIOUS
<1>1. CASE \E u \in Urls : Request(u)
  BY <1>1, RequestStep
<1>2. CASE Repository
  BY <1>2, RepositoryStep
<1>3. CASE Handle
  BY <1>3, LookupStep, PlainAnswerStep, StartStreamStep, SendBlockStep, SendRowStep, BreakStep,
     EndStreamStep
  DEF Handle
<1>4. CASE ClientGone
  BY <1>4, ClearStep DEF ClientGone, EndRequest, Goto
<1>5. CASE \E j \in Jobs : Ask(j)
  BY <1>5, ClearStep DEF Ask
<1>6. CASE TakeStep \/ MissStep \/ Answer200 \/ Abandon
  BY <1>6, UnchangedStep DEF TakeStep, MissStep, Answer200, Abandon
<1>7. CASE UNCHANGED allVars
  BY <1>7, UnchangedStep DEF allVars
<1> QED
  BY <1>1, <1>2, <1>3, <1>4, <1>5, <1>6, <1>7 DEF BundlesNext

\* The invariant holds in every reachable state.
LEMMA Invariance == BundlesSpec => []IInv
BY InitIInv, IInvStep, PTL DEF BundlesSpec

-----------------------------------------------------------------------------
(* The properties *)

\* Every variable of the reading endpoints keeps its type.
THEOREM ReadsTypeCorrect == BundlesSpec => []TypeOK
<1>1. IInv => TypeOK
  BY DEF IInv
<1> QED
  BY <1>1, Invariance, PTL

\* An answer that is not broken off has the rows the request asks for, in order,
\* of a table that it named while it was served, and no request gets one that
\* asks for rows the table does not have; whatever pushes and prunes do meanwhile.
THEOREM WholeAnswersRight == BundlesSpec => []WholeAnswersAreRight
<1>1. IInv => WholeAnswersAreRight
  BY DEF IInv
<1> QED
  BY <1>1, Invariance, PTL

\* An answer that broke off is the beginning of the right one.
THEOREM BrokenAnswersPrefixes == BundlesSpec => []BrokenAnswersArePrefixes
<1>1. IInv => BrokenAnswersArePrefixes
  BY DEF IInv
<1> QED
  BY <1>1, Invariance, PTL

\* A valid request whose ref keeps its value, a commit whose table was there when
\* the request came, gets a whole answer, although other refs move and prunes run
\* between its reads.
THEOREM SteadyHeadsServed == BundlesSpec => []SteadyHeadIsServed
<1>1. IInv => SteadyHeadIsServed
  BY DEF IInv
<1> QED
  BY <1>1, Invariance, PTL

\* What a cache keeps of an answer about a table, or about the blocks or rows of
\* a commit, asked for by sum is never outdated.  The commit endpoint is left out:
\* it marks its answer before it knows whether the commit or its table is there.
THEOREM ImmutableSumsTrue == BundlesSpec => []ImmutableSumsStayTrue
<1>1. ASSUME IInv, kept # None, kept.url.of \notin Ref, kept.url.path # "commit",
             NEW t \in Table, NamesNow(kept.url, t)
      PROVE  kept.tbl = t
  <2>1. kept.tbl = IF kept.url.of \in Commit THEN TableOf[kept.url.of] ELSE kept.url.of
    BY <1>1 DEF IInv, KeptInv
  <2>2. commits \subseteq Commit
    BY <1>1 DEF IInv, TypeOK
  <2> QED
    BY <1>1, <2>1, <2>2, NamesAreDisjoint DEF NamesNow
<1>2. IInv => ImmutableSumsStayTrue
  BY <1>1 DEF ImmutableSumsStayTrue
<1> QED
  BY <1>2, Invariance, PTL
=============================================================================
