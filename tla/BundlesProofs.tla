--------------------------- MODULE BundlesProofs ---------------------------
(***************************************************************************)
(* Proofs about the endpoints of Bundles, for every repository and request: *)
(* a packfile has a table only after its blocks, and all tables asked for   *)
(* when it is whole; a tree that is answered has every parent down to the  *)
(* depth asked for, and nothing else.                                      *)
(***************************************************************************)
EXTENDS ReadsProofs

BundleTypes ==
    /\ job \in Jobs \cup {None}
    /\ todo \in Seq(Step) /\ body \in Seq(Step)
    /\ out \in {"none", "whole", "broken", "notFound", "failed"}

Asked(path) == job # None /\ job.path = path
Known == Range(body) \cup Range(todo)

\* Table k is in the packfile.
Written(k) == At("write", job.names[k], k) \in Range(body)

\* A packfile is written table by table.  The one step that brings on the steps
\* of the next table is the last one: nothing is left between.
PackfileInv ==
    Asked("objects") =>
        /\ \A i \in DOMAIN body : body[i].kind = "write" =>
              /\ body[i].of \in Range(job.names)
              /\ Range(BlocksIn(body[i].of)) \subseteq Range(SubSeq(body, 1, i - 1))
        /\ out = "whole" => \A k \in DOMAIN job.names : Written(k)
        /\ out = "none" =>
              /\ \A i \in DOMAIN todo : NextTable(todo[i]) # 0 => i = Len(todo)
              /\ \A x \in Range(todo) : x.kind # "ref"
              /\ \A x \in Range(todo) : x.kind = "write" =>
                    /\ x.n \in DOMAIN job.names /\ x.of = job.names[x.n]
                    /\ Range(BlocksIn(x.of)) \subseteq Known
              /\ \E k \in 0 .. Len(job.names) :
                    /\ \A j \in 1 .. k : Written(j)
                    /\ \/ k = Len(job.names)
                       \/ /\ todo # <<>>
                          /\ NextTable(todo[Len(todo)]) =
                                IF todo[Len(todo)].kind = "write" THEN k + 2 ELSE k + 1

\* Before the root is read, it or the ref to it is all there is to do.
RootInv ==
    Asked("commits") /\ out = "none" /\ body = <<>> =>
        /\ Len(todo) = 1
        /\ todo[1].kind = "ref" \/ (todo[1].kind = "commit" /\ todo[1].n = 0)

\* y is a parent of a commit one level above that was read.
HasChild(y) ==
    /\ y.n - 1 < job.depth
    /\ \E x \in Range(body) : x.n = y.n - 1 /\ y.of \in Range(Parents[x.of])

\* Every commit below the root is there for a child, and every parent of a
\* commit above the last level has been read or is to be.
TreeInv ==
    Asked("commits") /\ out \in {"none", "whole"} /\ body # <<>> =>
        /\ body[1].n = 0
        /\ \A y \in Known : /\ y.kind = "commit"
                            /\ IF y.n = 0 THEN y.of = body[1].of ELSE HasChild(y)
        /\ \A x \in Range(body) : x.n < job.depth =>
              \A p \in Range(Parents[x.of]) : At("commit", p, x.n + 1) \in Known

WholeInv ==
    /\ out # "none" => job # None
    /\ out = "whole" /\ Asked("commits") => todo = <<>> /\ body # <<>>

BInv == BundleTypes /\ PackfileInv /\ RootInv /\ TreeInv /\ WholeInv

-----------------------------------------------------------------------------
(* Steps and sequences of them *)

\* Lists of steps are put together, and so is what is in them.
LEMMA InSteps ==
    ASSUME NEW s \in Seq(Step), NEW t \in Seq(Step), NEW x \in Step
    PROVE  /\ s \o t \in Seq(Step) /\ Append(s, x) \in Seq(Step) /\ <<x>> \in Seq(Step)
           /\ Range(s) \subseteq Step
           /\ Range(s \o t) = Range(s) \cup Range(t)
           /\ Range(Append(s, x)) = Range(s) \cup {x}
           /\ Range(<<x>>) = {x}
<1>1. /\ s \o t \in Seq(Step) /\ Append(s, x) \in Seq(Step) /\ <<x>> \in Seq(Step)
      /\ Range(s) \subseteq Step
  BY DEF Range
<1>2. Range(s \o t) = Range(s) \cup Range(t)
  <2>1. Len(s) \in Nat /\ Len(t) \in Nat /\ Len(s \o t) = Len(s) + Len(t)
    OBVIOUS
  <2>2. ASSUME NEW y \in Range(s \o t) PROVE y \in Range(s) \cup Range(t)
    <3>1. PICK i \in 1 .. Len(s) + Len(t) : y = (s \o t)[i]
      BY <2>1, <2>2 DEF Range
    <3>2. CASE i <= Len(s)
      BY <3>1, <3>2, <2>1 DEF Range
    <3>3. CASE i > Len(s)
      <4>1. i - Len(s) \in 1 .. Len(t) /\ y = t[i - Len(s)]
        BY <3>1, <3>3, <2>1
      <4> QED
        BY <4>1 DEF Range
    <3> QED
      BY <3>2, <3>3, <2>1
  <2>3. ASSUME NEW y \in Range(s) PROVE y \in Range(s \o t)
    <3>1. PICK i \in 1 .. Len(s) : y = s[i]
      BY <2>3 DEF Range
    <3>2. i \in 1 .. Len(s) + Len(t) /\ (s \o t)[i] = y
      BY <3>1, <2>1
    <3> QED
      BY <3>2, <2>1 DEF Range
  <2>4. ASSUME NEW y \in Range(t) PROVE y \in Range(s \o t)
    <3>1. PICK i \in 1 .. Len(t) : y = t[i]
      BY <2>4 DEF Range
    <3>2. Len(s) + i \in 1 .. Len(s) + Len(t) /\ (s \o t)[Len(s) + i] = y
      BY <3>1, <2>1
    <3> QED
      BY <3>2, <2>1 DEF Range
  <2> QED
    BY <2>2, <2>3, <2>4
<1>3. Range(Append(s, x)) = Range(s) \cup {x}
  <2>1. Len(s) \in Nat /\ DOMAIN Append(s, x) = 1 .. Len(s) + 1 /\ DOMAIN s = 1 .. Len(s)
    OBVIOUS
  <2>2. (\A i \in 1 .. Len(s) : Append(s, x)[i] = s[i]) /\ Append(s, x)[Len(s) + 1] = x
    OBVIOUS
  <2>3. 1 .. Len(s) + 1 = (1 .. Len(s)) \cup {Len(s) + 1}
    BY <2>1
  <2> HIDE DEF Step
  <2>4. Range(Append(s, x)) = {Append(s, x)[i] : i \in 1 .. Len(s)} \cup {x}
    BY <2>1, <2>2, <2>3 DEF Range
  <2> QED
    BY <2>1, <2>2, <2>4 DEF Range
<1>4. Range(<<x>>) = {x}
  BY DEF Range
<1> QED
  BY <1>1, <1>2, <1>3, <1>4

\* A list of steps is its first step and the rest.
LEMMA HeadAndTail ==
    ASSUME NEW s \in Seq(Step), s # <<>>
    PROVE  /\ Head(s) \in Step /\ Head(s) = s[1]
           /\ Tail(s) \in Seq(Step) /\ Len(Tail(s)) = Len(s) - 1 /\ Len(s) \in Nat \ {0}
           /\ \A i \in 1 .. Len(s) - 1 : Tail(s)[i] = s[i + 1]
           /\ Range(s) = {Head(s)} \cup Range(Tail(s))
<1>1. /\ Head(s) \in Step /\ Head(s) = s[1]
      /\ Tail(s) \in Seq(Step) /\ Len(Tail(s)) = Len(s) - 1 /\ Len(s) \in Nat \ {0}
      /\ \A i \in 1 .. Len(s) - 1 : Tail(s)[i] = s[i + 1]
  OBVIOUS
<1>2. ASSUME NEW y \in Range(s) PROVE y \in {Head(s)} \cup Range(Tail(s))
  <2>1. PICK i \in 1 .. Len(s) : y = s[i]
    BY <1>2 DEF Range
  <2>2. CASE i # 1
    <3>1. i - 1 \in 1 .. Len(s) - 1 /\ Tail(s)[i - 1] = y
      BY <1>1, <2>1, <2>2
    <3>2. DOMAIN Tail(s) = 1 .. Len(s) - 1
      BY <1>1
    <3> QED
      BY ONLY <3>1, <3>2 DEF Range
  <2> QED
    BY <1>1, <2>1, <2>2
<1>3. ASSUME NEW y \in Range(Tail(s)) PROVE y \in Range(s)
  <2>1. PICK i \in 1 .. Len(s) - 1 : y = Tail(s)[i]
    BY <1>1, <1>3 DEF Range
  <2>2. i + 1 \in 1 .. Len(s) /\ y = s[i + 1]
    BY <1>1, <2>1
  <2> QED
    BY <2>2 DEF Range
<1>4. Head(s) \in Range(s)
  BY <1>1 DEF Range
<1> QED
  BY <1>1, <1>2, <1>3, <1>4

\* The blocks of a table are reads of blocks.
LEMMA BlocksInFacts ==
    ASSUME NEW t \in Table
    PROVE  /\ BlocksIn(t) \in Seq(Step)
           /\ \A x \in Range(BlocksIn(t)) : x.kind = "block"
<1>1. BlockCount(t) \in Nat
  BY BlockCountFacts
<1>2. \A i \in 1 .. BlockCount(t) : At("block", t, i - 1) \in Step
  BY <1>1 DEF At, Step
<1>3. BlocksIn(t) \in Seq(Step)
  BY <1>1, <1>2 DEF BlocksIn
<1>4. \A x \in Range(BlocksIn(t)) : x.kind = "block"
  BY <1>1 DEF Range, BlocksIn, At
<1> QED
  BY <1>3, <1>4

\* What a request may ask for, by endpoint.
LEMMA JobFacts ==
    ASSUME NEW j \in Jobs
    PROVE  /\ j.path \in {"objects", "commits", "diff", "profile"}
           /\ j.path = "objects" => j.names \in Seq(Table)
           /\ j.path = "commits" => j.names[1] \in Ref \cup Commit /\ j.depth \in Int
           /\ j.path = "diff" => j.names[1] \in Commit /\ j.names[2] \in Commit
           /\ j.path = "profile" => j.names[1] \in Commit \cup Table
BY JobsAssumption

\* One side of a diff is a list of steps.
LEMMA SidesAreSteps ==
    ASSUME NEW c \in Commit
    PROVE  SideSteps(c) \in Seq(Step)
<1>1. A("commit", c) \in Step /\ A("table", TableOf[c]) \in Step /\ A("index", TableOf[c]) \in Step
  BY TableOfAssumption DEF A, At, Step
<1> HIDE DEF Step
<1> QED
  BY <1>1 DEF SideSteps

\* Every request begins with a list of steps.
LEMMA StepsAreSteps ==
    ASSUME NEW j \in Jobs
    PROVE  Steps(j) \in Seq(Step)
<1>1. CASE j.path = "objects"
  <2>1. \A k \in 1 .. Len(j.names) : At("table", j.names[k], k) \in Step
    BY <1>1, JobFacts DEF At, Step
  <2> HIDE DEF Step
  <2> QED
    BY <1>1, <2>1, JobFacts DEF Steps, TableLookups
<1>2. CASE j.path = "commits"
  <2>1. A(IF j.names[1] \in Ref THEN "ref" ELSE "commit", j.names[1]) \in Step
    BY <1>2, JobFacts DEF A, At, Step
  <2> QED
    BY <1>2, <2>1, InSteps DEF Steps
<1>3. CASE j.path = "diff"
  <2> DEFINE c == j.names[1]  d == j.names[2]
             bs == BlocksIn(TableOf[c]) \o BlocksIn(TableOf[d])
             ps == <<A("profile", TableOf[c]), A("profile", TableOf[d])>>
  <2>1. /\ c \in Commit /\ d \in Commit /\ TableOf[c] \in Table /\ TableOf[d] \in Table
        /\ SideSteps(c) \in Seq(Step) /\ SideSteps(d) \in Seq(Step)
    BY <1>3, JobFacts, SidesAreSteps, TableOfAssumption
  <2>2. A("profile", TableOf[c]) \in Step /\ A("profile", TableOf[d]) \in Step
    BY <2>1 DEF A, At, Step
  <2>3. bs \in Seq(Step)
    BY <2>1, BlocksInFacts
  <2>4. ps \in Seq(Step)
    <3> HIDE DEF Step
    <3> QED
      BY <2>2
  <2>5. SideSteps(c) \o SideSteps(d) \in Seq(Step) /\ bs \o ps \in Seq(Step)
    BY <2>1, <2>3, <2>4
  <2>6. DiffSteps(c, d) \in Seq(Step)
    BY <2>5 DEF DiffSteps
  <2> QED
    BY <1>3, <2>6 DEF Steps
<1>4. CASE j.path = "profile"
  <2>1. CASE j.names[1] \in Commit
    <3>1. A("commit", j.names[1]) \in Step /\ A("profile", TableOf[j.names[1]]) \in Step
      BY <2>1, TableOfAssumption DEF A, At, Step
    <3> HIDE DEF Step
    <3> QED
      BY <1>4, <2>1, <3>1 DEF Steps, ProfileSteps
  <2>2. CASE j.names[1] \notin Commit
    <3>1. A("profile", j.names[1]) \in Step
      BY <1>4, <2>2, JobFacts DEF A, At, Step
    <3> HIDE DEF Step
    <3> QED
      BY <1>4, <2>2, <3>1 DEF Steps, ProfileSteps
  <2> QED
    BY <2>1, <2>2
<1> QED
  BY <1>1, <1>2, <1>3, <1>4, JobFacts

-----------------------------------------------------------------------------
(* A step of the handler *)

\* The list goes on with the parents of a commit above the last level of a tree,
\* and for nothing else.
LEMMA ParentsAreSteps ==
    ASSUME NEW x \in Step
    PROVE  /\ ParentsToRead(x) \in Seq(Step)
           /\ Asked("commits") /\ job \in Jobs =>
                IF x.kind = "commit" /\ x.n < job.depth
                THEN Range(ParentsToRead(x)) = {At("commit", p, x.n + 1) : p \in Range(Parents[x.of])}
                ELSE ParentsToRead(x) = <<>>
           /\ ~Asked("commits") /\ job # None => ParentsToRead(x) = <<>>
<1>1. CASE job.path = "commits" /\ x.kind = "commit" /\ x.n < job.depth
  <2>1. x.of \in Commit /\ x.n \in Nat /\ Parents[x.of] \in Seq(Commit)
    BY <1>1, ParentsAssumption DEF Step
  <2>2. \A i \in DOMAIN Parents[x.of] : At("commit", Parents[x.of][i], x.n + 1) \in Step
    BY <2>1 DEF At, Step
  <2>3. ParentsToRead(x) = [i \in DOMAIN Parents[x.of] |-> At("commit", Parents[x.of][i], x.n + 1)]
    BY <1>1 DEF ParentsToRead
  <2>4. ParentsToRead(x) \in Seq(Step)
    <3> HIDE DEF Step
    <3> QED
      BY <2>1, <2>2, <2>3
  <2>5. Range(ParentsToRead(x)) = {At("commit", p, x.n + 1) : p \in Range(Parents[x.of])}
    BY <2>3 DEF Range
  <2> QED
    BY <1>1, <2>4, <2>5 DEF Asked
<1>2. CASE ~(job.path = "commits" /\ x.kind = "commit" /\ x.n < job.depth)
  <2>1. ParentsToRead(x) = <<>>
    BY <1>2 DEF ParentsToRead
  <2> QED
    BY <1>2, <2>1 DEF Asked
<1> QED
  BY <1>1, <1>2

\* The steps of a table are its blocks and, last, its write.
LEMMA TableStepsFacts ==
    ASSUME job \in Jobs, Asked("objects"), NEW k \in DOMAIN job.names
    PROVE  LET w == At("write", job.names[k], k)
               bs == BlocksIn(job.names[k])
           IN  /\ w \in Step /\ bs \in Seq(Step) /\ k \in 1 .. Len(job.names)
               /\ TableSteps(k) \in Seq(Step) /\ TableSteps(k) # <<>>
               /\ Len(TableSteps(k)) = Len(bs) + 1
               /\ TableSteps(k)[Len(TableSteps(k))] = w
               /\ \A i \in 1 .. Len(bs) : TableSteps(k)[i] = bs[i]
               /\ Range(TableSteps(k)) = Range(bs) \cup {w}
<1> DEFINE w == At("write", job.names[k], k)
           bs == BlocksIn(job.names[k])
<1>1. job.names \in Seq(Table)
  BY JobFacts DEF Asked
<1>2. k \in 1 .. Len(job.names) /\ job.names[k] \in Table
  BY <1>1
<1>3. w \in Step
  BY <1>2 DEF At, Step
<1>4. bs \in Seq(Step)
  BY <1>2, BlocksInFacts
<1>5. TableSteps(k) = bs \o <<w>>
  BY DEF TableSteps
<1> HIDE DEF w, bs
<1>6. <<w>> \in Seq(Step) /\ bs \o <<w>> \in Seq(Step) /\ Range(bs \o <<w>>) = Range(bs) \cup {w}
  <2> DEFINE v == <<w>>
  <2>1. v \in Seq(Step) /\ Range(v) = {w}
    BY ONLY <1>3, <1>4, InSteps
  <2> HIDE DEF v
  <2>2. bs \o v \in Seq(Step) /\ Range(bs \o v) = Range(bs) \cup Range(v)
    BY ONLY <1>3, <1>4, <2>1, InSteps
  <2> QED
    BY <2>1, <2>2 DEF v
<1>7. /\ Len(bs) \in Nat /\ Len(bs \o <<w>>) = Len(bs) + 1
      /\ (bs \o <<w>>)[Len(bs) + 1] = w /\ \A i \in 1 .. Len(bs) : (bs \o <<w>>)[i] = bs[i]
  BY <1>4, <1>6
<1>8. bs \o <<w>> # <<>>
  BY <1>7
<1> QED
  BY <1>2, <1>3, <1>4, <1>5, <1>6, <1>7, <1>8 DEF w, bs

\* Only a packfile goes on with a table to write.
LEMMA TableToWriteFacts ==
    ASSUME NEW x \in Step, job \in Jobs, job # None
    PROVE  /\ TableToWrite(x) \in Seq(Step)
           /\ ~Asked("objects") => TableToWrite(x) = <<>>
<1>1. CASE Asked("objects") /\ NextTable(x) \in DOMAIN job.names
  BY <1>1, TableStepsFacts DEF TableToWrite, Asked
<1>2. CASE ~(Asked("objects") /\ NextTable(x) \in DOMAIN job.names)
  BY <1>2 DEF TableToWrite, Asked
<1> QED
  BY <1>1, <1>2

\* What a step does that is not the lookup of a ref.
LEMMA TakeStepFacts ==
    ASSUME BundleTypes, TypeOK, TakeStep, NEW x, x = Head(todo)
    PROVE  /\ job' = job /\ job \in Jobs /\ job # None /\ out = "none" /\ out' = out /\ todo # <<>>
           /\ x \in Step /\ IsThere(x) /\ x = todo[1]
           /\ Range(todo) = {x} \cup Range(Tail(todo))
           /\ x.kind = "ref" => /\ body' = body /\ refs[x.of] \in Commit
                                /\ todo' = <<A("commit", refs[x.of])>>
           /\ x.kind # "ref" => /\ body' = Append(body, x)
                                /\ todo' = Tail(todo) \o ParentsToRead(x) \o TableToWrite(x)
                                /\ Range(body') = Range(body) \cup {x}
                                /\ Range(todo') = Range(Tail(todo)) \cup Range(ParentsToRead(x))
                                                    \cup Range(TableToWrite(x))
           /\ todo' \in Seq(Step) /\ body' \in Seq(Step)
<1>1. job' = job /\ job \in Jobs /\ job # None /\ out = "none" /\ out' = out /\ todo # <<>>
  BY DEF TakeStep, Busy, BundleTypes
<1>2. todo \in Seq(Step) /\ body \in Seq(Step)
  BY DEF BundleTypes
<1>3. x \in Step /\ x = todo[1] /\ Range(todo) = {x} \cup Range(Tail(todo)) /\ Tail(todo) \in Seq(Step)
  BY <1>1, <1>2, HeadAndTail
<1>4. IsThere(x)
  BY DEF TakeStep
<1>5. CASE x.kind = "ref"
  <2>1. body' = body /\ todo' = <<A("commit", refs[x.of])>>
    BY <1>5 DEF TakeStep
  <2>2. x.of \in Ref
    BY <1>3, <1>5 DEF Step
  <2>3. refs[x.of] \in Commit
    BY <1>4, <1>5, <2>2 DEF IsThere, TypeOK
  <2>4. A("commit", refs[x.of]) \in Step
    BY <2>3 DEF A, At, Step
  <2>5. todo' \in Seq(Step)
    BY <2>1, <2>4, InSteps, <1>2
  <2> QED
    BY <1>1, <1>2, <1>3, <1>4, <1>5, <2>1, <2>3, <2>5
<1>6. CASE x.kind # "ref"
  <2>1. /\ body' = Append(body, x)
        /\ todo' = Tail(todo) \o ParentsToRead(x) \o TableToWrite(x)
    BY <1>6 DEF TakeStep
  <2>2. ParentsToRead(x) \in Seq(Step) /\ TableToWrite(x) \in Seq(Step)
    BY <1>1, <1>3, ParentsAreSteps, TableToWriteFacts
  <2>3. /\ Tail(todo) \o ParentsToRead(x) \in Seq(Step)
        /\ Range(Tail(todo) \o ParentsToRead(x)) = Range(Tail(todo)) \cup Range(ParentsToRead(x))
    BY <1>3, <2>2, InSteps
  <2>4. /\ todo' \in Seq(Step)
        /\ Range(todo') = Range(Tail(todo)) \cup Range(ParentsToRead(x)) \cup Range(TableToWrite(x))
    BY <1>3, <2>1, <2>2, <2>3, InSteps
  <2>5. body' \in Seq(Step) /\ Range(body') = Range(body) \cup {x}
    BY <1>2, <1>3, <2>1, InSteps
  <2> QED
    BY <1>1, <1>2, <1>3, <1>4, <1>6, <2>1, <2>4, <2>5
<1> QED
  BY <1>5, <1>6

\* Every action keeps the types.
LEMMA TypesStep ==
    ASSUME BundleTypes, TypeOK, [BundlesNext]_allVars
    PROVE  BundleTypes'
<1> USE DEF BundleTypes
<1>1. <<>> \in Seq(Step)
  OBVIOUS
<1> HIDE DEF Step
<1>2. ASSUME Nothing PROVE BundleTypes'
  BY <1>1, <1>2 DEF Nothing
<1>3. ASSUME UNCHANGED bundleVars PROVE BundleTypes'
  BY <1>3 DEF bundleVars
<1>4. ASSUME NEW j \in Jobs, Ask(j) PROVE BundleTypes'
  BY <1>1, <1>4, StepsAreSteps DEF Ask
<1>5. CASE TakeStep
  BY <1>5, TakeStepFacts
<1>6. CASE MissStep
  <2>1. Ending(Head(todo)) \in {"whole", "broken", "notFound", "failed"}
    BY DEF Ending
  <2> QED
    BY <1>1, <1>6, <2>1 DEF MissStep
<1>7. CASE Answer200
  BY <1>7 DEF Answer200
<1> QED
  BY <1>2, <1>3, <1>4, <1>5, <1>6, <1>7 DEF BundlesNext, Abandon, allVars

-----------------------------------------------------------------------------
(* Trees *)

\* A commit is read or, for the root, its ref.
LEMMA TreeTakeStep ==
    ASSUME BInv, TypeOK, TakeStep, Asked("commits")
    PROVE  RootInv' /\ TreeInv' /\ WholeInv'
<1> DEFINE x == Head(todo)
<1>1. /\ job' = job /\ job \in Jobs /\ job # None /\ out = "none" /\ out' = out /\ todo # <<>>
      /\ x \in Step /\ IsThere(x) /\ x = todo[1]
      /\ Range(todo) = {x} \cup Range(Tail(todo))
      /\ x.kind = "ref" => /\ body' = body /\ refs[x.of] \in Commit
                           /\ todo' = <<A("commit", refs[x.of])>>
      /\ x.kind # "ref" => /\ body' = Append(body, x)
                           /\ todo' = Tail(todo) \o ParentsToRead(x) \o TableToWrite(x)
                           /\ Range(body') = Range(body) \cup {x}
                           /\ Range(todo') = Range(Tail(todo)) \cup Range(ParentsToRead(x))
                                               \cup Range(TableToWrite(x))
      /\ todo' \in Seq(Step) /\ body' \in Seq(Step)
  BY TakeStepFacts DEF BInv
<1>2. todo \in Seq(Step) /\ body \in Seq(Step) /\ Range(body) \subseteq Step /\ Range(todo) \subseteq Step
  BY InSteps, <1>1 DEF BInv, BundleTypes
<1>3. job.path = "commits" /\ job.depth \in Int /\ Asked("commits")' /\ ~Asked("objects")
  BY <1>1, JobFacts DEF Asked
<1>4. WholeInv'
  BY <1>1 DEF WholeInv
<1>5. CASE x.kind = "ref"
  <2>1. body = <<>>
    <3>1. x \in Known
      BY <1>1 DEF Known
    <3> QED
      BY <1>1, <1>3, <1>5, <3>1 DEF BInv, TreeInv
  <2>2. body' = <<>> /\ todo' = <<At("commit", refs[x.of], 0)>>
    BY <1>1, <1>5, <2>1 DEF A
  <2>3. RootInv'
    BY <2>2 DEF RootInv, At
  <2>4. TreeInv'
    BY <2>2 DEF TreeInv
  <2> QED
    BY <1>4, <2>3, <2>4
<1>6. CASE x.kind # "ref"
  <2>1. /\ body' = Append(body, x) /\ body' # <<>>
        /\ Range(body') = Range(body) \cup {x}
        /\ Range(todo') = Range(Tail(todo)) \cup Range(ParentsToRead(x))
    <3>1. TableToWrite(x) = <<>> /\ Range(<<>>) = {}
      BY <1>1, <1>3, TableToWriteFacts DEF Range
    <3>2. Append(body, x) # <<>>
      BY <1>1, <1>2
    <3> QED
      BY <1>1, <1>6, <3>1, <3>2
  <2>2. x.kind = "commit" /\ (body = <<>> => x.n = 0 /\ Range(Tail(todo)) = {})
    <3>1. CASE body = <<>>
      <4>1. Len(todo) = 1 /\ x.kind = "commit" /\ x.n = 0
        BY <1>1, <1>3, <1>6, <3>1 DEF BInv, RootInv
      <4>2. Tail(todo) = <<>>
        <5>1. Tail(todo) \in Seq(Step) /\ Len(Tail(todo)) = 0
          BY <1>1, <1>2, <4>1, HeadAndTail
        <5> HIDE DEF Step
        <5> QED
          BY <5>1, EmptySeq
      <4> QED
        BY <4>1, <4>2 DEF Range
    <3>2. CASE body # <<>>
      BY <1>1, <1>3, <3>2 DEF BInv, TreeInv, Known
    <3> QED
      BY <3>1, <3>2
  <2>3. x.n \in Nat /\ x.of \in Commit
    BY <1>1, <2>2 DEF Step
  <2> DEFINE P == {At("commit", p, x.n + 1) : p \in Range(Parents[x.of])}
  <2>4. Known' = Known \cup (IF x.n < job.depth THEN P ELSE {}) /\ x \in Known
    <3>1. IF x.n < job.depth THEN Range(ParentsToRead(x)) = P ELSE ParentsToRead(x) = <<>>
      BY <1>1, <1>3, <2>2, ParentsAreSteps DEF Asked
    <3>2. Range(<<>>) = {}
      BY DEF Range
    <3> QED
      BY <1>1, <2>1, <3>1, <3>2 DEF Known
  <2>5. body'[1] = (IF body = <<>> THEN x ELSE body[1]) /\ body'[1].n = 0
    <3>1. CASE body = <<>>
      BY <1>1, <2>1, <2>2, <3>1
    <3>2. CASE body # <<>>
      <4>1. body'[1] = body[1]
        BY <1>1, <1>2, <2>1, <3>2
      <4>2. body[1].n = 0
        BY <1>1, <1>3, <3>2 DEF BInv, TreeInv
      <4> QED
        BY <3>2, <4>1, <4>2
    <3> QED
      BY <3>1, <3>2
  <2>6. body = <<>> => Known = {x} /\ Range(body) = {}
    <3>1. Range(<<>>) = {}
      BY DEF Range
    <3> QED
      BY <1>1, <2>2, <3>1 DEF Known
  <2>7. ASSUME NEW y \in Known
        PROVE  y.kind = "commit" /\ IF y.n = 0 THEN y.of = body'[1].of ELSE HasChild(y)'
    <3>1. CASE body = <<>>
      BY <2>2, <2>5, <2>6, <2>7, <3>1
    <3>2. CASE body # <<>>
      <4>1. y.kind = "commit" /\ IF y.n = 0 THEN y.of = body[1].of ELSE HasChild(y)
        BY <1>1, <1>3, <2>7, <3>2 DEF BInv, TreeInv
      <4> QED
        BY <1>1, <2>1, <2>5, <3>2, <4>1 DEF HasChild
    <3> QED
      BY <3>1, <3>2
  <2>8. ASSUME x.n < job.depth, NEW y \in P
        PROVE  y.kind = "commit" /\ y.n # 0 /\ HasChild(y)'
    <3>1. PICK p \in Range(Parents[x.of]) : y = At("commit", p, x.n + 1)
      BY <2>8
    <3>2. y.kind = "commit" /\ y.of = p /\ y.n = x.n + 1
      BY <3>1 DEF At
    <3>3. y.n # 0 /\ y.n - 1 = x.n
      BY <2>3, <3>2
    <3> QED
      BY <1>1, <2>1, <2>8, <3>2, <3>3 DEF HasChild
  <2>9. ASSUME NEW z \in Range(body'), z.n < job.depth, NEW p \in Range(Parents[z.of])
        PROVE  At("commit", p, z.n + 1) \in Known'
    <3>1. CASE z = x
      BY <2>4, <2>9, <3>1
    <3>2. CASE z # x
      <4>1. z \in Range(body) /\ body # <<>>
        BY <2>1, <2>6, <2>9, <3>2
      <4>2. At("commit", p, z.n + 1) \in Known
        BY <1>1, <1>3, <2>9, <4>1 DEF BInv, TreeInv
      <4> QED
        BY <2>4, <4>2
    <3> QED
      BY <3>1, <3>2
  <2>10. TreeInv'
    <3>1. ASSUME NEW y \in Known'
          PROVE  y.kind = "commit" /\ IF y.n = 0 THEN y.of = body'[1].of ELSE HasChild(y)'
      <4> HIDE DEF P
      <4> QED
        BY <2>4, <2>7, <2>8, <3>1
    <3> QED
      BY <1>1, <2>5, <2>9, <3>1 DEF TreeInv
  <2>11. RootInv'
    BY <2>1 DEF RootInv
  <2> QED
    BY <1>4, <2>10, <2>11
<1> QED
  BY <1>5, <1>6

\* The rest of what may happen while a tree is asked for.
LEMMA TreeStep ==
    ASSUME BInv, TypeOK, [BundlesNext]_allVars
    PROVE  RootInv' /\ TreeInv' /\ WholeInv'
<1> USE DEF RootInv, TreeInv, WholeInv, Asked
<1>1. ASSUME Nothing PROVE RootInv' /\ TreeInv' /\ WholeInv'
  BY <1>1 DEF Nothing
<1>2. ASSUME UNCHANGED bundleVars PROVE RootInv' /\ TreeInv' /\ WholeInv'
  <2>1. Known' = Known /\ job' = job /\ body' = body /\ todo' = todo /\ out' = out
    BY <1>2 DEF Known, bundleVars
  <2>2. \A y : HasChild(y)' = HasChild(y)
    BY <2>1 DEF HasChild
  <2> QED
    BY <2>1, <2>2 DEF BInv
<1>3. ASSUME NEW j \in Jobs, Ask(j) PROVE RootInv' /\ TreeInv' /\ WholeInv'
  BY <1>3 DEF Ask, Steps, A, At
<1>4. CASE TakeStep /\ Asked("commits")
  BY <1>4, TreeTakeStep
<1>5. CASE TakeStep /\ ~Asked("commits")
  BY <1>5 DEF TakeStep, Busy
<1>6. CASE MissStep
  <2>1. Asked("commits") => Ending(Head(todo)) \in {"failed", "notFound"}
    BY DEF Ending
  <2> QED
    BY <1>6, <2>1 DEF MissStep, Busy
<1>7. CASE Answer200
  <2>1. Known' = Known /\ job' = job /\ job # None /\ body' = body /\ todo' = todo /\ out = "none" /\ out' = "whole" /\ todo = <<>>
    BY <1>7 DEF Answer200, Busy, Known
  <2>2. \A y : HasChild(y)' = HasChild(y)
    BY <2>1 DEF HasChild
  <2>3. Asked("commits") => body # <<>>
    BY <2>1 DEF BInv
  <2> QED
    BY <2>1, <2>2, <2>3 DEF BInv
<1> QED
  BY <1>1, <1>2, <1>3, <1>4, <1>5, <1>6, <1>7 DEF BundlesNext, Abandon, allVars

-----------------------------------------------------------------------------
(* Packfiles *)

\* What was before position i stays there.
LEMMA Before ==
    ASSUME NEW s \in Seq(Step), NEW x \in Step, NEW i \in 1 .. Len(s) + 1
    PROVE  /\ Range(SubSeq(Append(s, x), 1, i - 1)) = Range(SubSeq(s, 1, i - 1))
           /\ i = Len(s) + 1 => Range(SubSeq(s, 1, i - 1)) = Range(s)
<1> HIDE DEF Step
<1>1. SubSeq(Append(s, x), 1, i - 1) = SubSeq(s, 1, i - 1)
  OBVIOUS
<1>2. i = Len(s) + 1 => SubSeq(s, 1, i - 1) = s
  OBVIOUS
<1> QED
  BY <1>1, <1>2

FreshPackfile ==
    /\ job \in Jobs /\ Asked("objects")
    /\ todo = TableLookups(job.names) /\ body = <<>> /\ out = "none"

\* A packfile begins with its lookups, of which only the last brings on a table.
LEMMA LookupsEnd == FreshPackfile => PackfileInv
<1> SUFFICES ASSUME FreshPackfile PROVE PackfileInv
  OBVIOUS
<1> USE DEF FreshPackfile
<1>1. job.names \in Seq(Table) /\ Len(job.names) \in Nat /\ DOMAIN job.names = 1 .. Len(job.names)
  BY JobFacts DEF Asked
<1>2. /\ DOMAIN todo = 1 .. Len(job.names)
      /\ \A i \in 1 .. Len(job.names) : todo[i].kind = "table" /\ todo[i].n = i
  BY <1>1 DEF TableLookups, At
<1>3. todo \in Seq(Step)
  <2>1. \A k \in 1 .. Len(job.names) : At("table", job.names[k], k) \in Step
    BY <1>1 DEF At, Step
  <2> HIDE DEF Step
  <2> QED
    BY <1>1, <2>1 DEF TableLookups
<1>4. Len(todo) = Len(job.names)
  BY <1>1, <1>2, <1>3
<1>5. \A i \in DOMAIN todo : NextTable(todo[i]) # 0 => i = Len(todo)
  BY <1>1, <1>2, <1>4 DEF NextTable
<1>6. \A y \in Range(todo) : y.kind # "write" /\ y.kind # "ref"
  BY <1>2 DEF Range
<1>7. \/ 0 = Len(job.names)
      \/ todo # <<>> /\ todo[Len(todo)].kind = "table" /\ NextTable(todo[Len(todo)]) = 1
  <2>1. CASE Len(job.names) # 0
    <3>1. Len(job.names) \in 1 .. Len(job.names)
      BY <1>1, <2>1
    <3> QED
      BY <1>2, <1>4, <3>1, EmptySeq DEF NextTable
  <2> QED
    BY <2>1
<1>8. \E k \in 0 .. Len(job.names) :
        /\ \A j \in 1 .. k : Written(j)
        /\ \/ k = Len(job.names)
           \/ /\ todo # <<>>
              /\ NextTable(todo[Len(todo)]) =
                    IF todo[Len(todo)].kind = "write" THEN k + 2 ELSE k + 1
  <2>1. 0 \in 0 .. Len(job.names) /\ 1 .. 0 = {}
    BY <1>1
  <2>2. \A j \in 1 .. 0 : Written(j)
    BY <2>1
  <2>3. \/ 0 = Len(job.names)
        \/ /\ todo # <<>>
           /\ NextTable(todo[Len(todo)]) =
                 IF todo[Len(todo)].kind = "write" THEN 0 + 2 ELSE 0 + 1
    BY <1>7
  <2> QED
    BY <2>1, <2>2, <2>3
<1> QED
  BY <1>5, <1>6, <1>8 DEF PackfileInv

\* The steps of a table respect the invariant of packfiles.
LEMMA NewTable ==
    ASSUME job \in Jobs, Asked("objects"), NEW q \in DOMAIN job.names, NEW s, s = TableSteps(q)
    PROVE  /\ s \in Seq(Step) /\ s # <<>>
           /\ s[Len(s)].kind = "write" /\ NextTable(s[Len(s)]) = q + 1
           /\ \A i \in DOMAIN s : NextTable(s[i]) # 0 => i = Len(s)
           /\ \A y \in Range(s) : y.kind # "ref"
           /\ \A y \in Range(s) : y.kind = "write" =>
                /\ y.n \in DOMAIN job.names /\ y.of = job.names[y.n]
                /\ Range(BlocksIn(y.of)) \subseteq Range(s)
<1> DEFINE w == At("write", job.names[q], q)
           bs == BlocksIn(job.names[q])
<1>1. /\ w \in Step /\ bs \in Seq(Step) /\ q \in 1 .. Len(job.names)
      /\ s \in Seq(Step) /\ s # <<>>
      /\ Len(s) = Len(bs) + 1
      /\ s[Len(s)] = w
      /\ \A i \in 1 .. Len(bs) : s[i] = bs[i]
      /\ Range(s) = Range(bs) \cup {w}
  BY TableStepsFacts
<1>2. job.names[q] \in Table
  BY <1>1, JobFacts DEF Asked
<1>3. \A y \in Range(bs) : y.kind = "block"
  BY <1>2, BlocksInFacts
<1>4. w.kind = "write" /\ w.of = job.names[q] /\ w.n = q /\ NextTable(w) = q + 1
  BY DEF At, NextTable
<1>5. \A y : y.kind = "block" => NextTable(y) = 0
  BY DEF NextTable
<1>6. Len(bs) \in Nat /\ DOMAIN s = 1 .. Len(s) /\ DOMAIN bs = 1 .. Len(bs)
  BY <1>1
<1> HIDE DEF w
<1>7. \A i \in DOMAIN s : NextTable(s[i]) # 0 => i = Len(s)
  <2>1. ASSUME NEW i \in DOMAIN s, i # Len(s) PROVE NextTable(s[i]) = 0
    <3>1. i \in 1 .. Len(bs)
      BY <1>1, <1>6, <2>1
    <3>2. s[i] \in Range(bs)
      BY <1>1, <1>6, <3>1 DEF Range
    <3> QED
      BY <1>3, <1>5, <3>2
  <2> QED
    BY <2>1
<1>8. \A y \in Range(s) : y.kind # "ref"
  BY <1>1, <1>3, <1>4
<1>9. ASSUME NEW y \in Range(s), y.kind = "write"
      PROVE  /\ y.n \in DOMAIN job.names /\ y.of = job.names[y.n]
             /\ Range(BlocksIn(y.of)) \subseteq Range(s)
  <2>1. y = w
    BY <1>1, <1>3, <1>9
  <2> QED
    BY <1>1, <1>4, <2>1
<1> QED
  BY <1>1, <1>4, <1>7, <1>8, <1>9

\* One step of a packfile that is being written.
LEMMA PackfileTakeStep ==
    ASSUME BInv, TypeOK, TakeStep, Asked("objects")
    PROVE  PackfileInv'
<1> DEFINE x == Head(todo)
           L == Len(job.names)
<1>1. /\ job' = job /\ job \in Jobs /\ job # None /\ out = "none" /\ out' = out /\ todo # <<>>
      /\ x \in Step /\ IsThere(x) /\ x = todo[1]
      /\ Range(todo) = {x} \cup Range(Tail(todo))
      /\ x.kind # "ref" => /\ body' = Append(body, x)
                           /\ todo' = Tail(todo) \o ParentsToRead(x) \o TableToWrite(x)
                           /\ Range(body') = Range(body) \cup {x}
                           /\ Range(todo') = Range(Tail(todo)) \cup Range(ParentsToRead(x))
                                               \cup Range(TableToWrite(x))
      /\ todo' \in Seq(Step) /\ body' \in Seq(Step)
  BY TakeStepFacts DEF BInv
<1>2. todo \in Seq(Step) /\ body \in Seq(Step)
  BY DEF BInv, BundleTypes
<1>3. job.names \in Seq(Table) /\ L \in Nat /\ DOMAIN job.names = 1 .. L /\ ~Asked("commits")
  BY <1>1, JobFacts DEF Asked
<1>4. /\ \A i \in DOMAIN body : body[i].kind = "write" =>
            /\ body[i].of \in Range(job.names)
            /\ Range(BlocksIn(body[i].of)) \subseteq Range(SubSeq(body, 1, i - 1))
      /\ \A i \in DOMAIN todo : NextTable(todo[i]) # 0 => i = Len(todo)
      /\ \A y \in Range(todo) : y.kind # "ref"
      /\ \A y \in Range(todo) : y.kind = "write" =>
            /\ y.n \in DOMAIN job.names /\ y.of = job.names[y.n]
            /\ Range(BlocksIn(y.of)) \subseteq Known
      /\ \E k \in 0 .. L :
            /\ \A j \in 1 .. k : Written(j)
            /\ \/ k = L
               \/ /\ todo # <<>>
                  /\ NextTable(todo[Len(todo)]) =
                        IF todo[Len(todo)].kind = "write" THEN k + 2 ELSE k + 1
  BY <1>1 DEF BInv, PackfileInv
<1>5. /\ Len(todo) \in Nat \ {0} /\ Len(Tail(todo)) = Len(todo) - 1 /\ Tail(todo) \in Seq(Step)
      /\ \A i \in 1 .. Len(todo) - 1 : Tail(todo)[i] = todo[i + 1]
  BY <1>1, <1>2, HeadAndTail
<1>6. x.kind # "ref" /\ x \in Range(todo)
  BY <1>1, <1>4
<1>7. /\ body' = Append(body, x) /\ Range(body') = Range(body) \cup {x}
      /\ todo' = Tail(todo) \o TableToWrite(x)
      /\ Range(todo') = Range(Tail(todo)) \cup Range(TableToWrite(x))
      /\ TableToWrite(x) \in Seq(Step)
  <2>1. ParentsToRead(x) = <<>> /\ TableToWrite(x) \in Seq(Step)
    BY <1>1, <1>3, ParentsAreSteps, TableToWriteFacts
  <2>2. Tail(todo) \o <<>> = Tail(todo)
    BY <1>5, ConcatEmptySeq
  <2>3. Range(<<>>) = {}
    BY DEF Range
  <2> QED
    BY <1>1, <1>6, <2>1, <2>2, <2>3
<1>8. /\ \A y : NextTable(y)' = NextTable(y)
      /\ \A k : Written(k) => Written(k)'
      /\ Known \subseteq Known'
  BY <1>1, <1>7 DEF NextTable, Written, Known
<1>9. NextTable(x) # 0 => Tail(todo) = <<>> /\ Len(todo) = 1 /\ todo' = TableToWrite(x)
  <2>1. ASSUME NextTable(x) # 0 PROVE Len(todo) = 1 /\ Tail(todo) = <<>>
    <3>1. 1 \in DOMAIN todo
      BY <1>2, <1>5
    <3>2. Len(todo) = 1
      BY <1>1, <1>4, <2>1, <3>1
    <3>3. Len(Tail(todo)) = 0
      BY <1>5, <3>2
    <3> QED
      BY <1>5, <3>2, <3>3, EmptySeq
  <2>2. <<>> \o TableToWrite(x) = TableToWrite(x)
    BY <1>7, ConcatEmptySeq
  <2> QED
    BY <1>7, <2>1, <2>2
<1>10. x.kind = "write" =>
          /\ x = At("write", job.names[x.n], x.n) /\ x.n \in 1 .. L /\ NextTable(x) = x.n + 1
          /\ Range(BlocksIn(x.of)) \subseteq Range(body)
  <2>1. ASSUME x.kind = "write"
        PROVE  /\ x = At("write", job.names[x.n], x.n) /\ x.n \in 1 .. L /\ NextTable(x) = x.n + 1
               /\ Range(BlocksIn(x.of)) \subseteq Range(body)
    <3>1. x.n \in 1 .. L /\ x.of = job.names[x.n] /\ Range(BlocksIn(x.of)) \subseteq Known
      BY <1>3, <1>4, <1>6, <2>1
    <3>2. NextTable(x) = x.n + 1 /\ NextTable(x) # 0
      BY <2>1, <3>1 DEF NextTable
    <3>3. Known = Range(body) \cup {x}
      <4>1. Range(<<>>) = {}
        BY DEF Range
      <4> QED
        BY <1>1, <1>9, <3>2, <4>1 DEF Known
    <3>4. x.of \in Table /\ x = At("write", x.of, x.n)
      BY <1>1, <2>1 DEF Step, At
    <3>5. \A y \in Range(BlocksIn(x.of)) : y.kind = "block"
      BY <3>4, BlocksInFacts
    <3> QED
      BY <2>1, <3>1, <3>2, <3>3, <3>4, <3>5
  <2> QED
    BY <2>1
<1>11. ASSUME NEW i \in DOMAIN body', body'[i].kind = "write"
       PROVE  /\ body'[i].of \in Range(job.names)
              /\ Range(BlocksIn(body'[i].of)) \subseteq Range(SubSeq(body', 1, i - 1))
  <2>1. i \in 1 .. Len(body) + 1 /\ DOMAIN body = 1 .. Len(body) /\ Len(body) \in Nat
    BY <1>2, <1>7, <1>11
  <2>2. /\ Range(SubSeq(body', 1, i - 1)) = Range(SubSeq(body, 1, i - 1))
        /\ i = Len(body) + 1 => Range(SubSeq(body, 1, i - 1)) = Range(body)
    BY <1>1, <1>2, <1>7, <2>1, Before
  <2>3. CASE i = Len(body) + 1
    <3>1. body'[i] = x
      BY <1>1, <1>2, <1>7, <2>3
    <3>2. x.of = job.names[x.n] /\ x.n \in DOMAIN job.names
      BY <1>4, <1>6, <1>11, <3>1
    <3> QED
      BY <1>10, <1>11, <2>2, <2>3, <3>1, <3>2 DEF Range
  <2>4. CASE i # Len(body) + 1
    <3>1. i \in DOMAIN body /\ body'[i] = body[i]
      BY <1>1, <1>2, <1>7, <2>1, <2>4
    <3> QED
      BY <1>4, <1>11, <2>2, <3>1
  <2> QED
    BY <2>3, <2>4
<1>12. CASE NextTable(x) \notin 1 .. L
  <2>1. TableToWrite(x) = <<>> /\ todo' = Tail(todo) /\ Range(todo') \subseteq Range(todo)
    <3>1. TableToWrite(x) = <<>>
      BY <1>3, <1>12 DEF TableToWrite
    <3> QED
      BY <1>1, <1>5, <1>7, <3>1, ConcatEmptySeq
  <2>2. Known' = Known
    BY <1>1, <1>7, <2>1 DEF Known
  <2>3. \A i \in DOMAIN todo' : NextTable(todo'[i]) # 0 => i = Len(todo')
    <3>1. ASSUME NEW i \in DOMAIN todo', NextTable(todo'[i]) # 0 PROVE i = Len(todo')
      <4>1. i \in 1 .. Len(todo) - 1 /\ i + 1 \in DOMAIN todo /\ todo'[i] = todo[i + 1]
        BY <1>2, <1>5, <2>1, <3>1
      <4>2. i + 1 = Len(todo)
        BY <1>4, <3>1, <4>1
      <4> QED
        BY <1>5, <2>1, <4>1, <4>2
    <3> QED
      BY <3>1
  <2>4. \E k \in 0 .. L :
          /\ \A j \in 1 .. k : Written(j)'
          /\ \/ k = L
             \/ /\ todo' # <<>>
                /\ NextTable(todo'[Len(todo')]) =
                      IF todo'[Len(todo')].kind = "write" THEN k + 2 ELSE k + 1
    <3>1. PICK k \in 0 .. L :
            /\ \A j \in 1 .. k : Written(j)
            /\ \/ k = L
               \/ /\ todo # <<>>
                  /\ NextTable(todo[Len(todo)]) =
                        IF todo[Len(todo)].kind = "write" THEN k + 2 ELSE k + 1
      BY <1>4
    <3>2. CASE k = L
      BY <1>8, <3>1, <3>2
    <3>3. CASE k # L /\ Len(todo) # 1
      <4>1. /\ Len(todo) - 1 \in 1 .. Len(todo) - 1 /\ Len(todo') = Len(todo) - 1
            /\ todo'[Len(todo')] = todo[Len(todo)]
        BY <1>5, <2>1, <3>3
      <4>2. todo' # <<>>
        BY <1>5, <3>3, <4>1
      <4> QED
        BY <1>8, <3>1, <3>3, <4>1, <4>2
    <3>4. CASE k # L /\ Len(todo) = 1
      <4>1. NextTable(x) = IF x.kind = "write" THEN k + 2 ELSE k + 1
        BY <1>1, <3>1, <3>4
      <4>2. x.kind = "write" /\ k + 1 = L
        BY <1>3, <1>12, <3>1, <3>4, <4>1
      <4>3. x.n = L
        BY <1>3, <1>10, <4>1, <4>2
      <4>4. Written(L)'
        BY <1>1, <1>7, <1>10, <4>2, <4>3 DEF Written
      <4>5. \A j \in 1 .. L : j \in 1 .. k \/ j = L
        BY <1>3, <4>2
      <4>6. \A j \in 1 .. L : Written(j)'
        BY <1>1, <1>8, <3>1, <4>4, <4>5
      <4> QED
        BY <1>3, <4>6
    <3> QED
      BY <3>2, <3>3, <3>4
  <2> QED
    BY <1>1, <1>4, <1>8, <1>11, <2>1, <2>2, <2>3, <2>4 DEF PackfileInv
<1>13. CASE NextTable(x) \in 1 .. L
  <2> DEFINE q == NextTable(x)
  <2>1. todo' = TableSteps(q) /\ q \in DOMAIN job.names /\ Len(todo) = 1
    BY <1>3, <1>9, <1>13 DEF TableToWrite, Asked
  <2>2. /\ todo' # <<>>
        /\ todo'[Len(todo')].kind = "write" /\ NextTable(todo'[Len(todo')]) = q + 1
        /\ \A i \in DOMAIN todo' : NextTable(todo'[i]) # 0 => i = Len(todo')
        /\ \A y \in Range(todo') : y.kind # "ref"
        /\ \A y \in Range(todo') : y.kind = "write" =>
              /\ y.n \in DOMAIN job.names /\ y.of = job.names[y.n]
              /\ Range(BlocksIn(y.of)) \subseteq Range(todo')
    BY <1>1, <2>1, NewTable
  <2>3. \A y \in Range(todo') : y.kind = "write" => Range(BlocksIn(y.of)) \subseteq Known'
    BY <2>2 DEF Known
  <2>4. \E k \in 0 .. L :
          /\ \A j \in 1 .. k : Written(j)'
          /\ k = L \/ NextTable(todo'[Len(todo')]) = k + 2
    <3>1. PICK k \in 0 .. L :
            /\ \A j \in 1 .. k : Written(j)
            /\ k = L \/ NextTable(x) = IF x.kind = "write" THEN k + 2 ELSE k + 1
      BY <1>1, <1>4, <2>1
    <3>2. CASE k = L
      BY <1>8, <3>1, <3>2
    <3>3. CASE k # L /\ x.kind # "write"
      BY <1>8, <2>2, <3>1, <3>3
    <3>4. CASE k # L /\ x.kind = "write"
      <4>1. x.n = k + 1 /\ k + 1 \in 0 .. L /\ q = k + 2
        BY <1>3, <1>10, <3>1, <3>4
      <4>2. Written(k + 1)'
        BY <1>1, <1>7, <1>10, <3>4, <4>1 DEF Written
      <4>3. \A j \in 1 .. k + 1 : j \in 1 .. k \/ j = k + 1
        BY <1>3
      <4>4. \A j \in 1 .. k + 1 : Written(j)'
        BY <1>8, <3>1, <4>2, <4>3
      <4>5. NextTable(todo'[Len(todo')]) = (k + 1) + 2
        BY <2>2, <4>1
      <4> QED
        BY <4>1, <4>4, <4>5
    <3> QED
      BY <3>2, <3>3, <3>4
  <2> QED
    BY <1>1, <1>8, <1>11, <2>2, <2>3, <2>4 DEF PackfileInv
<1> QED
  BY <1>12, <1>13

\* The rest of what may happen while a packfile is asked for.
LEMMA PackfileStep ==
    ASSUME BInv, TypeOK, [BundlesNext]_allVars
    PROVE  PackfileInv'
<1>1. ASSUME Nothing PROVE PackfileInv'
  BY <1>1 DEF Nothing, PackfileInv, Asked
<1>2. ASSUME UNCHANGED bundleVars PROVE PackfileInv'
  <2>1. /\ Known' = Known /\ job' = job /\ body' = body /\ todo' = todo /\ out' = out
        /\ \A y : NextTable(y)' = NextTable(y)
        /\ \A k : Written(k)' = Written(k)
    BY <1>2 DEF Known, NextTable, Written, bundleVars
  <2> QED
    BY <2>1 DEF BInv, PackfileInv, Asked
<1>3. ASSUME NEW j \in Jobs, Ask(j) PROVE PackfileInv'
  <2>1. ASSUME Asked("objects")' PROVE PackfileInv'
    <3>1. job' \in Jobs /\ todo' = TableLookups(job'.names) /\ body' = <<>> /\ out' = "none"
      BY <1>3, <2>1 DEF Ask, Steps, Asked
    <3>2. FreshPackfile'
      BY <2>1, <3>1 DEF FreshPackfile
    <3>3. (FreshPackfile => PackfileInv)'
      BY LookupsEnd, PTL
    <3> QED
      BY <3>2, <3>3
  <2> QED
    BY <2>1 DEF PackfileInv
<1>4. CASE TakeStep /\ Asked("objects")
  BY <1>4, PackfileTakeStep
<1>5. CASE TakeStep /\ ~Asked("objects")
  BY <1>5 DEF TakeStep, PackfileInv, Asked
<1>6. CASE MissStep
  <2>1. ASSUME Asked("objects") PROVE Ending(Head(todo)) \notin {"none", "whole"}
    BY <2>1 DEF Ending, Asked
  <2>2. job' = job /\ body' = body /\ out = "none" /\ out' = Ending(Head(todo))
    BY <1>6 DEF MissStep, Busy
  <2> QED
    BY <2>1, <2>2 DEF BInv, PackfileInv, Asked
<1>7. CASE Answer200
  <2>1. job' = job /\ body' = body /\ out = "none" /\ out' = "whole" /\ todo = <<>>
    BY <1>7 DEF Answer200, Busy
  <2>2. ASSUME Asked("objects") PROVE \A k \in DOMAIN job.names : Written(k)
    <3>1. \A j \in 1 .. Len(job.names) : Written(j)
      BY <2>1, <2>2 DEF BInv, PackfileInv
    <3>2. DOMAIN job.names = 1 .. Len(job.names)
      BY <2>2, JobFacts DEF BInv, BundleTypes, Asked
    <3> QED
      BY <3>1, <3>2
  <2>3. \A k : Written(k)' = Written(k)
    BY <2>1 DEF Written
  <2> QED
    BY <2>1, <2>2, <2>3 DEF BInv, PackfileInv, Asked
<1> QED
  BY <1>1, <1>2, <1>3, <1>4, <1>5, <1>6, <1>7 DEF BundlesNext, Abandon, allVars

-----------------------------------------------------------------------------
(* The properties *)

\* The invariants hold in every reachable state.
LEMMA BundlesInvariance == BundlesSpec => [](TypeOK /\ BInv)
<1>1. BundlesInit => BInv
  <2>1. <<>> \in Seq(Step)
    OBVIOUS
  <2> HIDE DEF Step
  <2> QED
    BY <2>1 DEF BundlesInit, BInv, BundleTypes, PackfileInv, RootInv, TreeInv, WholeInv, Asked
<1>2. BInv /\ TypeOK /\ [BundlesNext]_allVars => BInv'
  BY TypesStep, TreeStep, PackfileStep DEF BInv
<1>3. IInv => TypeOK
  BY DEF IInv
<1> QED
  BY <1>1, <1>2, <1>3, Invariance, PTL DEF BundlesSpec

\* Every variable of the composed endpoints keeps its type.
THEOREM BundlesTypeCorrect == BundlesSpec => []BundlesTypeOK
<1>1. TypeOK /\ BInv => BundlesTypeOK
  BY DEF BInv, BundleTypes, BundlesTypeOK
<1> QED
  BY <1>1, BundlesInvariance, PTL

\* A tree that is answered has its one root and, level by level, exactly the
\* parents of the commits above, down to the depth asked for, whatever is pushed
\* and pruned between its reads.
THEOREM TreesComplete == BundlesSpec => []TreesAreComplete
<1>1. ASSUME TypeOK, BInv, out = "whole", job.path = "commits" PROVE TreesAreComplete
  <2>1. job \in Jobs /\ Asked("commits") /\ todo = <<>> /\ body # <<>>
    BY <1>1 DEF BInv, BundleTypes, WholeInv, Asked
  <2>2. body \in Seq(Step) /\ Range(body) \subseteq Step /\ Known = Range(body)
    <3>1. body \in Seq(Step) /\ Range(<<>>) = {}
      BY <1>1 DEF BInv, BundleTypes, Range
    <3>2. Range(body) \subseteq Step
      BY <3>1 DEF Range
    <3> QED
      BY <2>1, <3>1, <3>2 DEF Known
  <2>3. /\ body[1].n = 0
        /\ \A y \in Range(body) : /\ y.kind = "commit"
                                  /\ IF y.n = 0 THEN y.of = body[1].of ELSE HasChild(y)
        /\ \A x \in Range(body) : x.n < job.depth =>
              \A p \in Range(Parents[x.of]) : At("commit", p, x.n + 1) \in Range(body)
    BY <1>1, <2>1, <2>2 DEF BInv, TreeInv
  <2>4. body[1] \in Range(body) /\ Len(body) \in Nat
    BY <2>1, <2>2, HeadAndTail, InSteps DEF Range
  <2>5. \A y \in Range(body) : y.n \in Nat
    BY <2>2 DEF Step
  <2>6. CommitsAt(0) = {body[1].of}
    BY <2>3, <2>4 DEF CommitsAt
  <2>7. ASSUME NEW n \in Nat, n < job.depth
        PROVE  CommitsAt(n + 1) = UNION {Range(Parents[c]) : c \in CommitsAt(n)}
    <3>1. ASSUME NEW p \in CommitsAt(n + 1) PROVE p \in UNION {Range(Parents[c]) : c \in CommitsAt(n)}
      <4>1. PICK y \in Range(body) : y.n = n + 1 /\ y.of = p
        BY <3>1 DEF CommitsAt
      <4>2. HasChild(y)
        BY <2>3, <4>1
      <4>3. PICK x \in Range(body) : x.n = y.n - 1 /\ y.of \in Range(Parents[x.of])
        BY <4>2 DEF HasChild
      <4>4. x.n = n /\ x.of \in CommitsAt(n)
        BY <2>3, <4>1, <4>3 DEF CommitsAt
      <4> QED
        BY <4>1, <4>3, <4>4
    <3>2. ASSUME NEW c \in CommitsAt(n), NEW p \in Range(Parents[c]) PROVE p \in CommitsAt(n + 1)
      <4>1. PICK x \in Range(body) : x.n = n /\ x.of = c
        BY <3>2 DEF CommitsAt
      <4>2. At("commit", p, n + 1) \in Range(body)
        BY <2>3, <2>7, <3>2, <4>1
      <4> QED
        BY <4>2 DEF CommitsAt, At
    <3> QED
      BY <3>1, <3>2
  <2>8. ASSUME NEW n \in Nat, ~(n < job.depth) PROVE CommitsAt(n + 1) = {}
    <3>1. ASSUME NEW y \in Range(body), y.n = n + 1 PROVE FALSE
      <4>1. y.n - 1 < job.depth /\ y.n - 1 = n
        BY <2>3, <3>1 DEF HasChild
      <4> QED
        BY <2>8, <4>1
    <3> QED
      BY <3>1 DEF CommitsAt
  <2>9. \A n \in 0 .. Len(body) :
           CommitsAt(n + 1) = IF n < job.depth
                              THEN UNION {Range(Parents[c]) : c \in CommitsAt(n)}
                              ELSE {}
    <3>1. \A n \in 0 .. Len(body) : n \in Nat
      BY <2>4
    <3> QED
      BY ONLY <2>7, <2>8, <3>1
  <2> QED
    BY <2>6, <2>9 DEF TreesAreComplete
<1>2. TypeOK /\ BInv => TreesAreComplete
  BY <1>1 DEF TreesAreComplete
<1> QED
  BY <1>2, BundlesInvariance, PTL

\* At every moment of its writing a packfile has a table only after all blocks of
\* it; a whole one has the tables asked for and no other.
THEOREM PackfilesSelfContained == BundlesSpec => []PackfilesAreSelfContained
<1>1. ASSUME BInv, Asked("objects"), out = "whole"
      PROVE  Range(job.names) = {x.of : x \in {y \in Range(body) : y.kind = "write"}}
  <2>1. ASSUME NEW t \in Range(job.names)
        PROVE  t \in {x.of : x \in {y \in Range(body) : y.kind = "write"}}
    <3>1. PICK k \in DOMAIN job.names : t = job.names[k]
      BY <2>1 DEF Range
    <3>2. Written(k)
      BY <1>1, <3>1 DEF BInv, PackfileInv
    <3> QED
      BY <3>1, <3>2 DEF Written, At
  <2>2. ASSUME NEW x \in Range(body), x.kind = "write" PROVE x.of \in Range(job.names)
    <3>1. PICK i \in DOMAIN body : x = body[i]
      BY <2>2 DEF Range
    <3> QED
      BY <1>1, <2>2, <3>1 DEF BInv, PackfileInv
  <2> QED
    BY <2>1, <2>2
<1>2. BInv => PackfilesAreSelfContained
  BY <1>1 DEF PackfilesAreSelfContained, BInv, PackfileInv, Asked
<1> QED
  BY <1>2, BundlesInvariance, PTL
=============================================================================
