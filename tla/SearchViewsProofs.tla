------------------------- MODULE SearchViewsProofs -------------------------
(***************************************************************************)
(* Proofs about QueryTasks and SearchViews, for any number of queries,     *)
(* videos, workers and page sizes, and any number of videos on a day.      *)
(***************************************************************************)
EXTENDS SearchViews, FiniteSetTheorems, SequenceTheorems, WellFoundedInduction, TLAPS

-----------------------------------------------------------------------------
(* The tasks *)

TaskState == {NoTask} \cup Started \cup Answered

\* A task's record follows from its next call.
LEMMA Stages ==
    ASSUME NEW t \in TaskState
    PROVE  /\ t.pc = "idle" <=> t = NoTask
           /\ t.pc = "search" <=> t \in Started
           /\ t.pc \in {"find", "replace", "create"} <=> t \in Answered
           /\ t = NoTask \/ t \in Started \/ t \in Answered
<1>1. CASE t = NoTask
    BY <1>1 DEF NoTask, Started, Answered
<1>2. CASE t \in Started
    BY <1>2 DEF NoTask, Started, Answered
<1>3. CASE t \in Answered
    BY <1>3 DEF NoTask, Started, Answered
<1> QED BY <1>1, <1>2, <1>3 DEF TaskState

\* A set of numbers that is not empty has a least one.
LEMMA LeastNumber ==
    ASSUME NEW T, T \subseteq Nat, T # {}
    PROVE  \E i \in T : \A k \in T : i <= k
<1>1. PICK i \in T : \A k \in T : ~ (<<k, i>> \in OpToRel(<, Nat))
    BY WFMin, NatLessThanWellFounded
<1>2. \A k \in T : ~ (k < i)
    BY <1>1 DEF OpToRel
<1> QED BY <1>2

\* The type invariant, taken apart.
LEMMA Typed ==
    ASSUME TypeOK
    PROVE  /\ published \in Nat /\ published <= MaxVideos /\ MaxVideos \in Nat /\ MaxResults \in Nat
           /\ queryDocs \in Seq(QueryDoc) /\ Len(queryDocs) \in Nat
           /\ DOMAIN queryDocs = 1..Len(queryDocs)
           /\ \A i \in DOMAIN queryDocs : queryDocs[i] \in QueryDoc
           /\ task \in [Executors -> TaskState]
           /\ \A e \in Executors : Doing(e, "replace") => task[e].doc \in DocsOf(task[e].owner)
BY TasksAssumption, LenProperties, ElementOfSeq DEF TypeOK, TaskState

\* A step of one task that takes no document away from its query.
LEMMA OneTask ==
    ASSUME TypeOK, NEW e \in Executors, NEW t \in TaskState, SetTask(e, t),
           published' = published, queryDocs' \in Seq(QueryDoc),
           \A q \in Owners : DocsOf(q) \subseteq DocsOf(q)',
           t.pc = "replace" => t.doc \in DocsOf(t.owner)'
    PROVE  /\ TypeOK' /\ task'[e] = t
           /\ \A f \in Executors \ {e} : task'[f] = task[f]
<1>1. /\ task' \in [Executors -> TaskState] /\ task'[e] = t
      /\ \A f \in Executors \ {e} : task'[f] = task[f]
    BY Typed DEF SetTask
<1>2. ASSUME NEW f \in Executors, Doing(f, "replace")' PROVE (task[f].doc \in DocsOf(task[f].owner))'
    <2>1. CASE f = e
        BY <1>1, <1>2, <2>1 DEF Doing
    <2>2. CASE f # e
        <3>1. task'[f] = task[f] /\ Doing(f, "replace") /\ task[f] \in TaskState
            BY <1>1, <1>2, <2>2, Typed DEF Doing
        <3>2. task[f].owner \in Owners
            BY <3>1, Stages DEF Doing, Answered
        <3>3. task[f].doc \in DocsOf(task[f].owner)
            BY <3>1, Typed
        <3>4. PICK q, i : q \in Owners /\ q = task[f].owner /\ i = task[f].doc
            BY <3>2
        <3>5. i \in DocsOf(q)'
            BY <3>3, <3>4
        <3> QED BY <3>1, <3>4, <3>5 DEF DocsOf
    <2> QED BY <2>1, <2>2
<1>3. published' \in 0..MaxVideos
    BY DEF TypeOK
<1> QED BY <1>1, <1>2, <1>3 DEF TypeOK, TaskState

\* A task starts.
LEMMA StartTaskOK ==
    ASSUME TypeOK, NEW e \in Executors, NEW q \in Owners, NEW n \in 0..MaxResults, StartTask(e, q, n)
    PROVE  /\ TypeOK' /\ queryDocs' = queryDocs
           /\ \A f \in Executors \ {e} : task'[f] = task[f]
<1>1. PICK t : t = [pc |-> "search", owner |-> q, n |-> n]
    OBVIOUS
<1>2. t \in TaskState /\ t.pc = "search"
    BY <1>1 DEF TaskState, Started
<1>3. SetTask(e, t) /\ published' = published /\ queryDocs' = queryDocs
    BY <1>1 DEF StartTask
<1>4. \A p \in Owners : DocsOf(p) \subseteq DocsOf(p)'
    BY <1>3 DEF DocsOf
<1>5. queryDocs' \in Seq(QueryDoc)
    BY <1>3, Typed
<1> QED BY <1>2, <1>3, <1>4, <1>5, OneTask

\* The search of a task.
LEMMA SearchOK ==
    ASSUME TypeOK, NEW e \in Executors, Search(e)
    PROVE  TypeOK' /\ queryDocs' = queryDocs /\ \A f \in Executors \ {e} : task'[f] = task[f]
<1>1. task[e] \in TaskState /\ task[e] \in Started
    BY Typed, Stages DEF Search, Doing
<1>2. PICK t : t = IF Latest(task[e].n) = {} THEN NoTask
                   ELSE [pc |-> "find", owner |-> task[e].owner, videos |-> Latest(task[e].n), doc |-> 0]
    OBVIOUS
<1>3. Latest(task[e].n) \in SUBSET Videos
    BY Typed DEF Latest, Videos
<1>4. t \in TaskState /\ t.pc # "replace"
    BY <1>1, <1>2, <1>3 DEF TaskState, Started, Answered, NoTask
<1>5. SetTask(e, t) /\ published' = published /\ queryDocs' = queryDocs
    BY <1>2 DEF Search
<1>6. \A p \in Owners : DocsOf(p) \subseteq DocsOf(p)'
    BY <1>5 DEF DocsOf
<1>7. queryDocs' \in Seq(QueryDoc)
    BY <1>5, Typed
<1> QED BY <1>4, <1>5, <1>6, <1>7, OneTask

\* The search for the first document of the query: what it finds exists.
LEMMA FindQueryOK ==
    ASSUME TypeOK, NEW e \in Executors, FindQuery(e)
    PROVE  TypeOK' /\ queryDocs' = queryDocs /\ \A f \in Executors \ {e} : task'[f] = task[f]
<1> DEFINE docs == DocsOf(task[e].owner)
           first == CHOOSE i \in docs : \A k \in docs : i <= k
<1>1. task[e] \in Answered
    BY Typed, Stages DEF FindQuery, Doing
<1>2. docs \subseteq Nat
    BY Typed DEF DocsOf
<1>3. docs # {} => first \in docs
    <2>1. docs # {} => \E i \in docs : \A k \in docs : i <= k
        BY <1>2, LeastNumber
    <2> QED BY <2>1
<1>4. published' = published /\ queryDocs' = queryDocs
    BY DEF FindQuery
<1>5. \A p : DocsOf(p)' = DocsOf(p)
    BY <1>4 DEF DocsOf
<1> HIDE DEF first
<1>6. PICK t : t = IF docs = {} THEN [task[e] EXCEPT !.pc = "create"]
                   ELSE [task[e] EXCEPT !.pc = "replace", !.doc = first]
    OBVIOUS
<1>7. SetTask(e, t)
    BY <1>6 DEF FindQuery, first
<1>8. t \in Answered /\ t.owner = task[e].owner /\ (t.pc = "replace" => t.doc = first /\ docs # {})
    BY <1>1, <1>2, <1>3, <1>6 DEF Answered
<1>9. t \in TaskState
    BY <1>8 DEF TaskState
<1>10. t.pc = "replace" => t.doc \in DocsOf(t.owner)'
    BY <1>3, <1>4, <1>8 DEF DocsOf
<1>11. queryDocs' \in Seq(QueryDoc)
    BY <1>4, Typed
<1> QED BY <1>4, <1>5, <1>7, <1>9, <1>10, <1>11, OneTask

\* save() of the document that was found: it keeps its owner, and the others
\* stay as they are.
LEMMA ReplaceQueryOK ==
    ASSUME TypeOK, NEW e \in Executors, ReplaceQuery(e)
    PROVE  /\ TypeOK' /\ \A f \in Executors \ {e} : task'[f] = task[f]
           /\ \A q \in Owners \ {task[e].owner} :
                 DocsOf(q)' = DocsOf(q) /\ \A i \in DocsOf(q) : queryDocs'[i] = queryDocs[i]
<1>1. task[e] \in Answered /\ task[e].doc \in DocsOf(task[e].owner)
    BY Typed, Stages DEF ReplaceQuery, Doing
<1>2. PICK i \in DOMAIN queryDocs : i = task[e].doc /\ queryDocs[i].owner = task[e].owner
    BY <1>1 DEF DocsOf
<1>3. PICK d : d = [queryDocs[i] EXCEPT !.videos = task[e].videos]
    OBVIOUS
<1>4. d \in QueryDoc /\ d.owner = queryDocs[i].owner
    BY <1>1, <1>2, <1>3, Typed DEF QueryDoc, Answered
<1>5. queryDocs' = [queryDocs EXCEPT ![i] = d]
    BY <1>2, <1>3 DEF ReplaceQuery
<1>6. /\ DOMAIN queryDocs' = DOMAIN queryDocs /\ queryDocs'[i] = d
      /\ \A k \in DOMAIN queryDocs \ {i} : queryDocs'[k] = queryDocs[k]
    BY <1>5
<1>7. queryDocs' \in Seq(QueryDoc)
    BY <1>4, <1>5, Typed, ExceptSeq
<1>8. \A q : DocsOf(q)' = DocsOf(q)
    BY <1>4, <1>6 DEF DocsOf
<1>9. \A q \in Owners \ {task[e].owner} : \A k \in DocsOf(q) : queryDocs'[k] = queryDocs[k]
    BY <1>2, <1>3, <1>6 DEF DocsOf
<1>10. NoTask \in TaskState /\ NoTask.pc # "replace"
    BY DEF NoTask, TaskState
<1>11. SetTask(e, NoTask) /\ published' = published
    BY DEF ReplaceQuery
<1>12. TypeOK' /\ \A f \in Executors \ {e} : task'[f] = task[f]
    BY <1>7, <1>8, <1>10, <1>11, OneTask
<1> QED BY <1>8, <1>9, <1>12

\* save() of a new document, after those that are there.
LEMMA CreateQueryOK ==
    ASSUME TypeOK, NEW e \in Executors, CreateQuery(e)
    PROVE  /\ TypeOK' /\ \A f \in Executors \ {e} : task'[f] = task[f]
           /\ \A q \in Owners \ {task[e].owner} :
                 DocsOf(q)' = DocsOf(q) /\ \A i \in DocsOf(q) : queryDocs'[i] = queryDocs[i]
<1>1. task[e] \in Answered
    BY Typed, Stages DEF CreateQuery, Doing
<1>2. PICK n, d : n = Len(queryDocs) /\ d = [owner |-> task[e].owner, videos |-> task[e].videos]
    OBVIOUS
<1>3. d \in QueryDoc /\ d.owner = task[e].owner
    BY <1>1, <1>2 DEF QueryDoc, Answered
<1>4. queryDocs' = Append(queryDocs, d)
    BY <1>2 DEF CreateQuery
<1>5. n \in Nat /\ DOMAIN queryDocs = 1..n
    BY <1>2, Typed
<1>6. /\ queryDocs' \in Seq(QueryDoc) /\ DOMAIN queryDocs' = 1..(n + 1)
      /\ queryDocs'[n + 1] = d /\ \A k \in 1..n : queryDocs'[k] = queryDocs[k]
    BY <1>2, <1>3, <1>4, Typed, AppendProperties, LenProperties
<1>7. (\A k \in 1..n : k \in 1..(n + 1)) /\ \A k \in 1..(n + 1) : k \in 1..n \/ k = n + 1
    BY <1>5
<1>8. \A q : DocsOf(q) \subseteq DocsOf(q)'
    BY <1>5, <1>6, <1>7 DEF DocsOf
<1>9. ASSUME NEW q \in Owners \ {task[e].owner} PROVE DocsOf(q)' \subseteq DocsOf(q)
    BY <1>3, <1>5, <1>6, <1>7 DEF DocsOf
<1>10. \A q, k : k \in DocsOf(q) => queryDocs'[k] = queryDocs[k]
    BY <1>5, <1>6 DEF DocsOf
<1>11. NoTask \in TaskState /\ NoTask.pc # "replace"
    BY DEF NoTask, TaskState
<1>12. SetTask(e, NoTask) /\ published' = published
    BY DEF CreateQuery
<1>13. TypeOK' /\ \A f \in Executors \ {e} : task'[f] = task[f]
    BY <1>6, <1>8, <1>11, <1>12, OneTask
<1> QED BY <1>8, <1>9, <1>10, <1>13

\* A task ends without a trace.
LEMMA AbortOK ==
    ASSUME TypeOK, NEW e \in Executors, Abort(e)
    PROVE  TypeOK' /\ queryDocs' = queryDocs /\ \A f \in Executors \ {e} : task'[f] = task[f]
<1>1. SetTask(e, NoTask) /\ published' = published /\ queryDocs' = queryDocs
    BY DEF Abort
<1>2. NoTask \in TaskState /\ NoTask.pc # "replace"
    BY DEF NoTask, TaskState
<1>3. \A p \in Owners : DocsOf(p) \subseteq DocsOf(p)'
    BY <1>1 DEF DocsOf
<1>4. queryDocs' \in Seq(QueryDoc)
    BY <1>1, Typed
<1> QED BY <1>1, <1>2, <1>3, <1>4, OneTask

\* Every step of a task, and what it leaves alone.
LEMMA StepOK ==
    ASSUME TypeOK, NEW e \in Executors, Step(e)
    PROVE  /\ TypeOK' /\ \A f \in Executors \ {e} : task'[f] = task[f]
           /\ \/ queryDocs' = queryDocs
              \/ \A q \in Owners \ {task[e].owner} :
                    DocsOf(q)' = DocsOf(q) /\ \A i \in DocsOf(q) : queryDocs'[i] = queryDocs[i]
BY SearchOK, FindQueryOK, ReplaceQueryOK, CreateQueryOK DEF Step

\* YouTube publishes a video.
LEMMA PublishOK ==
    ASSUME TypeOK, Publish
    PROVE  TypeOK' /\ UNCHANGED <<queryDocs, task>>
<1>1. UNCHANGED <<queryDocs, task>> /\ published' \in 0..MaxVideos
    BY Typed DEF Publish
<1> QED BY <1>1 DEF TypeOK, Doing, DocsOf

-----------------------------------------------------------------------------
(* The listing and its pages *)

\* The listing depends on the videos of the documents only.
Listing(U) ==
    LET From(d) == Cardinality({e \in U : Day(e[2]) >= d})
    IN  [k \in 1..Cardinality(U) |->
            CHOOSE d \in 0..MaxVideos : From(d + 1) < k /\ k <= From(d)]

\* It is a sequence.
LEMMA ListingSeq ==
    ASSUME TypeOK
    PROVE  \E S : DayListing(Topic) \in Seq(S)
<1>1. IsFiniteSet(Unwound(Topic))
    <2>1. IsFiniteSet(1..Len(queryDocs)) /\ IsFiniteSet(Videos)
        BY Typed, FS_Interval DEF Videos
    <2>2. DocsOf(Topic) \in SUBSET (1..Len(queryDocs))
        BY Typed DEF DocsOf
    <2>3. IsFiniteSet(DocsOf(Topic))
        BY <2>1, <2>2, FS_Subset
    <2>4. IsFiniteSet(DocsOf(Topic) \X Videos)
        BY <2>1, <2>3, FS_Product
    <2>5. Unwound(Topic) \in SUBSET (DocsOf(Topic) \X Videos)
        BY DEF Unwound
    <2> QED BY <2>4, <2>5, FS_Subset
<1>2. PICK n \in Nat : n = Cardinality(Unwound(Topic))
    BY <1>1, FS_CardinalityType
<1>3. PICK L : L = DayListing(Topic)
    OBVIOUS
<1>4. L = [k \in 1..n |-> L[k]]
    <2> DEFINE From(d) == Cardinality({e \in Unwound(Topic) : Day(e[2]) >= d})
               day(k) == CHOOSE d \in 0..MaxVideos : From(d + 1) < k /\ k <= From(d)
    <2>1. L = [k \in 1..n |-> day(k)]
        BY <1>2, <1>3, Zenon DEF DayListing
    <2> HIDE DEF day
    <2> QED BY <2>1
<1> DEFINE S == {L[k] : k \in 1..n}
<1>5. L \in [1..n -> S]
    BY <1>4
<1> HIDE DEF S
<1>6. L \in Seq(S)
    BY <1>5, SeqDef
<1> QED BY <1>3, <1>6

\* It does not change with the documents of other queries.
LEMMA SameListing ==
    ASSUME \/ queryDocs' = queryDocs
           \/ DocsOf(Topic)' = DocsOf(Topic) /\ \A i \in DocsOf(Topic) : queryDocs'[i] = queryDocs[i]
    PROVE  DayListing(Topic)' = DayListing(Topic)
<1>1. DocsOf(Topic)' = DocsOf(Topic) /\ \A i \in DocsOf(Topic) : queryDocs'[i] = queryDocs[i]
    BY DEF DocsOf
<1>2. Unwound(Topic)' = Unwound(Topic)
    BY <1>1 DEF Unwound
<1>3. DayListing(Topic) = Listing(Unwound(Topic))
    BY DEF DayListing, Listing
<1>4. (DayListing(Topic) = Listing(Unwound(Topic)))'
    BY DEF DayListing, Listing
<1> QED BY <1>2, <1>3, <1>4

\* $skip and $limit.
LEMMA SliceProperties ==
    ASSUME NEW S, NEW L \in Seq(S), NEW o \in Nat, NEW n \in Nat
    PROVE  /\ Slice(L, o, n) \in Seq(S)
           /\ Len(Slice(L, o, n)) = IF o >= Len(L) THEN 0 ELSE IF o + n < Len(L) THEN n ELSE Len(L) - o
           /\ \A k \in 1..Len(Slice(L, o, n)) : Slice(L, o, n)[k] = L[o + k]
<1>1. PICK N \in Nat : N = Len(L)
    BY LenProperties
<1>2. PICK end : end = IF o + n < N THEN o + n ELSE N
    OBVIOUS
<1>3. end \in Nat
    BY <1>2
<1>4. Slice(L, o, n) = SubSeq(L, o + 1, end)
    BY <1>1, <1>2 DEF Slice
<1>5. \A k \in (o + 1)..end : L[k] \in S
    <2>1. \A k \in (o + 1)..end : k \in 1..N
        BY <1>2, <1>3
    <2> QED BY <1>1, <2>1, ElementOfSeq
<1>6. /\ SubSeq(L, o + 1, end) \in Seq(S)
      /\ Len(SubSeq(L, o + 1, end)) = IF o + 1 <= end THEN end - (o + 1) + 1 ELSE 0
      /\ \A k \in 1..(end - (o + 1) + 1) : SubSeq(L, o + 1, end)[k] = L[(o + 1) + k - 1]
    BY <1>5, <1>3, SubSeqProperties
<1>7. (IF o + 1 <= end THEN end - (o + 1) + 1 ELSE 0)
          = IF o >= N THEN 0 ELSE IF o + n < N THEN n ELSE N - o
    BY <1>2, <1>3
<1>8. ASSUME NEW k \in 1..Len(Slice(L, o, n)) PROVE Slice(L, o, n)[k] = L[o + k]
    <2>1. k \in 1..(IF o + 1 <= end THEN end - (o + 1) + 1 ELSE 0)
        BY <1>4, <1>6
    <2>2. k \in 1..(end - (o + 1) + 1) /\ (o + 1) + k - 1 = o + k
        BY <1>3, <2>1
    <2> QED BY <1>4, <1>6, <2>2
<1> QED BY <1>1, <1>4, <1>6, <1>7, <1>8

\* The videos are of the first days of the listing.
AsListed(got, L) == Len(got) <= Len(L) /\ \A i \in 1..Len(got) : Day(got[i]) = L[i]

\* PagesFollowListing says so.
LEMMA AsListedMeans ==
    ASSUME NEW S, NEW L \in Seq(S), NEW T, NEW got \in Seq(T)
    PROVE  AsListed(got, L) <=> [i \in DOMAIN got |-> Day(got[i])] = Slice(L, 0, Len(got))
<1>1. PICK n \in Nat, N \in Nat : n = Len(got) /\ N = Len(L)
    BY LenProperties
<1>2. PICK s : s = Slice(L, 0, n)
    OBVIOUS
<1>3. DOMAIN got = 1..n
    BY <1>1, <1>2, LenProperties
<1>4. /\ s \in Seq(S) /\ Len(s) = (IF 0 >= N THEN 0 ELSE IF n < N THEN n ELSE N)
      /\ \A k \in 1..Len(s) : s[k] = L[k]
    <2>1. PICK o \in Nat : o = 0
        OBVIOUS
    <2>2. /\ Slice(L, o, n) \in Seq(S)
          /\ Len(Slice(L, o, n)) = IF o >= Len(L) THEN 0 ELSE IF o + n < Len(L) THEN n ELSE Len(L) - o
          /\ \A k \in 1..Len(Slice(L, o, n)) : Slice(L, o, n)[k] = L[o + k]
        BY SliceProperties
    <2>3. Len(s) = (IF 0 >= N THEN 0 ELSE IF n < N THEN n ELSE N)
        BY <1>1, <1>2, <2>2, <2>1
    <2>4. Len(s) \in Nat
        BY <2>3
    <2>5. \A k \in 1..Len(s) : o + k = k
        BY <2>1, <2>4
    <2> QED BY <1>1, <1>2, <2>2, <2>3, <2>5, <2>1
<1>5. s = [k \in 1..Len(s) |-> s[k]]
    BY <1>4, LenProperties
<1>6. ASSUME AsListed(got, L) PROVE [i \in DOMAIN got |-> Day(got[i])] = s
    <2>1. n <= N /\ \A i \in 1..n : Day(got[i]) = L[i]
        BY <1>1, <1>2, <1>6 DEF AsListed
    <2>2. Len(s) = n
        BY <1>4, <2>1
    <2>3. \A i \in 1..n : Day(got[i]) = s[i]
        BY <1>4, <2>1, <2>2
    <2> HIDE DEF Day
    <2> QED BY <1>3, <1>5, <2>2, <2>3
<1>7. ASSUME [i \in DOMAIN got |-> Day(got[i])] = s PROVE AsListed(got, L)
    <2>1. DOMAIN s = 1..n /\ \A i \in 1..n : s[i] = Day(got[i])
        BY <1>3, <1>7
    <2>2. 1..Len(s) = 1..n /\ Len(s) \in Nat
        BY <1>4, <2>1, LenProperties
    <2>3. Len(s) = n
        BY <2>2
    <2>4. n <= N
        BY <1>4, <2>3
    <2> QED BY <1>1, <1>2, <1>4, <2>1, <2>3, <2>4 DEF AsListed
<1> QED BY <1>1, <1>2, <1>6, <1>7

\* A page has the days of its part of the listing.
LEMMA PageProperties ==
    ASSUME NEW S, DayListing(Topic) \in Seq(S), NEW o \in Nat, NEW n \in Nat,
           NEW page \in Pages(Topic, o, n)
    PROVE  LET days == Slice(DayListing(Topic), o, n) IN
           /\ page \in Seq(Videos) /\ Len(page) = Len(days)
           /\ \A k \in 1..Len(page) : Day(page[k]) = days[k]
<1>1. PICK days : days = Slice(DayListing(Topic), o, n)
    OBVIOUS
<1>2. days \in Seq(S)
    <2>1. PICK L \in Seq(S) : L = DayListing(Topic)
        OBVIOUS
    <2> QED BY <1>1, <2>1, SliceProperties
<1>3. DOMAIN days = 1..Len(days) /\ Len(days) \in Nat
    BY <1>2, LenProperties
<1>4. PICK p \in [DOMAIN days -> Unwound(Topic)] :
          /\ \A k \in DOMAIN days : Day(p[k][2]) = days[k]
          /\ page = [k \in DOMAIN days |-> p[k][2]]
    BY <1>1 DEF Pages
<1>5. \A k \in DOMAIN days : p[k][2] \in Videos
    BY <1>4 DEF Unwound
<1>6. page \in [1..Len(days) -> Videos] /\ \A k \in 1..Len(days) : Day(page[k]) = days[k]
    BY <1>3, <1>4, <1>5
<1>7. page \in Seq(Videos) /\ Len(page) = Len(days)
    BY <1>3, <1>6
<1> QED BY <1>1, <1>6, <1>7

-----------------------------------------------------------------------------
(* The invariant *)

\* Tasks in the queue ask for no more videos than a request may.
MessagesBounded == pending \in Seq([owner : Owners, n : 0..MaxResults])

\* The bulk registrations under way, and what is owed to their queries.
RequestsOK == bulk \in [Threads -> Bulk] /\ asked \subseteq Owners

\* A client that asks has been given the videos before its offset, and the
\* pages of one that waits for a fetch do not come from the documents alone.
ReaderInv ==
    /\ reader.pc = "ask" => reader.offset = Len(reader.got)
    /\ reader.pc = "fetching" => ~reader.stored

\* What PagesFollowListing says of a client r and a listing L.
Follows(r, L) ==
    r.stored /\ r.same => /\ [i \in DOMAIN r.got |-> Day(r.got[i])] = Slice(L, 0, Len(r.got))
                          /\ r.pc = "end" => Len(r.got) = Len(L)

ViewsInv == ViewsTypeOK /\ MessagesBounded /\ ReaderInv /\ PagesFollowListing

\* The invariant, put together after a step.
LEMMA Together ==
    ASSUME TypeOK', MessagesBounded', RequestsOK', reader' \in Reader,
           reader'.pc # "fetching" => Doing(Web, "idle")',
           reader'.pc = "ask" => reader'.offset = Len(reader'.got),
           reader'.pc = "fetching" => ~reader'.stored,
           Follows(reader', DayListing(Topic)')
    PROVE  ViewsInv'
<1>1. pending' \in Seq(Message)
    <2>1. [owner : Owners, n : 0..MaxResults] \subseteq Message
        BY TasksAssumption DEF Message
    <2> QED BY <2>1, SeqMonotonic DEF MessagesBounded
<1>2. ViewsTypeOK'
    BY <1>1 DEF ViewsTypeOK, RequestsOK
<1>3. PagesFollowListing'
    BY DEF Follows, PagesFollowListing
<1> QED BY <1>2, <1>3 DEF ViewsInv, ReaderInv

\* A step that leaves the client and its listing alone.
LEMMA ReaderStays ==
    ASSUME ViewsInv, TypeOK', MessagesBounded', RequestsOK', reader' = reader,
           DayListing(Topic)' = DayListing(Topic), task'[Web] = task[Web]
    PROVE  ViewsInv'
<1>1. reader' \in Reader /\ (reader'.pc # "fetching" => Doing(Web, "idle")')
    BY DEF ViewsInv, ViewsTypeOK, Doing
<1>2. /\ reader'.pc = "ask" => reader'.offset = Len(reader'.got)
      /\ reader'.pc = "fetching" => ~reader'.stored
    BY DEF ViewsInv, ReaderInv
<1>3. Follows(reader, DayListing(Topic))
    BY DEF ViewsInv, Follows, PagesFollowListing
<1>4. Follows(reader', DayListing(Topic)')
    BY <1>3
<1> QED BY <1>1, <1>2, <1>4, Together

\* The fields of a client.
LEMMA ReaderFields ==
    ASSUME NEW r \in Reader
    PROVE  /\ r.limit \in Limits /\ r.limit \in 0..MaxResults /\ r.limit \in Nat /\ r.offset \in Nat
           /\ r.got \in Seq(Videos) /\ Len(r.got) \in Nat
           /\ r.stored \in BOOLEAN /\ r.same \in BOOLEAN /\ r.pc \in {"ask", "fetching", "end"}
<1>1. r.got \in Seq(Videos) /\ r.limit \in Limits /\ r.offset \in Nat
    BY DEF Reader
<1>2. r.limit \in 0..MaxResults
    BY <1>1, ViewsAssumption
<1> QED BY <1>1, <1>2, LenProperties, TasksAssumption DEF Reader

\* A client that is answered without a link.
LEMMA AnsweredWithoutLink ==
    ASSUME ViewsInv, TypeOK', RequestsOK', UNCHANGED pending, ~Doing(Web, "idle"), task'[Web] = NoTask,
           NEW videos \in Seq(Videos), reader' = NoMoreVideos(reader, videos)
    PROVE  ViewsInv'
<1>1. reader \in Reader /\ reader.pc = "fetching" /\ ~reader.stored
    BY DEF ViewsInv, ViewsTypeOK, ReaderInv, RequestsOK
<1>2. reader.got \o videos \in Seq(Videos)
    BY <1>1, ReaderFields, ConcatProperties
<1>3. reader' \in Reader /\ reader'.pc = "end" /\ reader'.stored = reader.stored
    BY <1>1, <1>2 DEF NoMoreVideos, Reader
<1>4. Doing(Web, "idle")'
    BY DEF Doing, NoTask
<1>5. MessagesBounded'
    BY DEF ViewsInv, MessagesBounded
<1>6. Follows(reader', DayListing(Topic)')
    BY <1>1, <1>3 DEF Follows
<1> QED BY <1>1, <1>3, <1>4, <1>5, <1>6, Together

\* A step of the task that searchingView runs, the last of which is its answer.
LEMMA FetchesStep ==
    ASSUME ViewsInv, SearchingViewFetches
    PROVE  ViewsInv'
<1>1. TypeOK /\ Web \in Executors /\ Step(Web) /\ UNCHANGED <<pending, bulk, asked>> /\ RequestsOK'
    BY ViewsAssumption DEF ViewsInv, ViewsTypeOK, SearchingViewFetches, RequestsOK
<1>2. TypeOK'
    BY <1>1, StepOK
<1>3. task[Web] \in TaskState /\ ~Doing(Web, "idle")
    BY <1>1, Typed DEF Step, Search, FindQuery, ReplaceQuery, CreateQuery, Doing
<1>4. PICK V : V = IF Doing(Web, "search") THEN {} ELSE task[Web].videos
    OBVIOUS
<1>5. V \in SUBSET Videos
    BY <1>1, <1>3, <1>4, Stages DEF Doing, Answered, Step, Search, FindQuery, ReplaceQuery, CreateQuery
<1>6. PICK records \in Records(V) :
          reader' = IF task'[Web] = NoTask THEN NoMoreVideos(reader, records) ELSE reader
    BY <1>4 DEF SearchingViewFetches
<1>7. records \in Seq(Videos)
    <2>1. IsFiniteSet(Videos)
        BY <1>1, Typed, FS_Interval DEF Videos
    <2>2. IsFiniteSet(V)
        BY <1>5, <2>1, FS_Subset
    <2>3. PICK n \in Nat : n = Cardinality(V)
        BY <2>2, FS_CardinalityType
    <2>4. records \in [1..n -> Videos]
        BY <1>5, <2>3 DEF Records
    <2> QED BY <2>4, SeqDef
<1>8. CASE task'[Web] = NoTask
    BY <1>1, <1>2, <1>3, <1>6, <1>7, <1>8, AnsweredWithoutLink
<1>9. CASE task'[Web] # NoTask
    <2>1. reader' = reader /\ reader \in Reader /\ reader.pc = "fetching" /\ ~reader.stored /\ RequestsOK'
        BY <1>1, <1>3, <1>6, <1>9 DEF ViewsInv, ViewsTypeOK, ReaderInv, RequestsOK
    <2>2. MessagesBounded'
        BY <1>1 DEF ViewsInv, MessagesBounded
    <2>3. Follows(reader', DayListing(Topic)')
        BY <2>1 DEF Follows
    <2> QED BY <1>2, <2>1, <2>2, <2>3, Together
<1> QED BY <1>8, <1>9

\* The task raises.
LEMMA RaisesStep ==
    ASSUME ViewsInv, SearchingViewRaises
    PROVE  ViewsInv'
<1>1. TypeOK /\ Web \in Executors /\ Abort(Web) /\ UNCHANGED pending /\ RequestsOK'
    BY ViewsAssumption DEF ViewsInv, ViewsTypeOK, SearchingViewRaises, OwedStill, RequestsOK
<1>2. TypeOK'
    BY <1>1, AbortOK
<1>3. ~Doing(Web, "idle") /\ task'[Web] = NoTask
    BY <1>1, Typed DEF Abort, SetTask
<1>4. <<>> \in Seq(Videos) /\ reader' = NoMoreVideos(reader, <<>>)
    BY DEF SearchingViewRaises
<1> QED BY <1>1, <1>2, <1>3, <1>4, AnsweredWithoutLink

\* A client begins to read.
LEMMA StartFollows ==
    ASSUME NEW limit \in Limits, TypeOK
    PROVE  /\ Start(limit) \in Reader /\ Start(limit).pc = "ask"
           /\ Start(limit).offset = 0 /\ Start(limit).got = <<>>
           /\ Follows(Start(limit), DayListing(Topic))
<1>1. /\ Start(limit) \in Reader /\ Start(limit).pc = "ask"
      /\ Start(limit).offset = 0 /\ Start(limit).got = <<>>
    BY DEF Start, Reader
<1>2. PICK S : DayListing(Topic) \in Seq(S)
    BY ListingSeq
<1>3. PICK L \in Seq(S) : L = DayListing(Topic)
    BY <1>2
<1>4. PICK got \in Seq(Videos) : got = <<>>
    BY EmptySeq
<1>5. AsListed(got, L)
    <2>1. Len(got) = 0 /\ Len(L) \in Nat
        BY <1>4, LenProperties
    <2> QED BY <2>1 DEF AsListed
<1>6. [i \in DOMAIN got |-> Day(got[i])] = Slice(L, 0, Len(got))
    BY <1>5, AsListedMeans
<1> QED BY <1>1, <1>3, <1>6, <1>4 DEF Follows

\* The client begins again.
LEMMA NewReaderStep ==
    ASSUME ViewsInv, NewReader
    PROVE  ViewsInv'
<1>1. PICK limit \in Limits : reader' = Start(limit)
    BY DEF NewReader
<1>2. TypeOK /\ reader.pc = "end" /\ UNCHANGED <<published, queryDocs, task, pending, bulk, asked>>
    BY DEF ViewsInv, ViewsTypeOK, NewReader, taskVars
<1>3. TypeOK' /\ MessagesBounded' /\ RequestsOK' /\ Doing(Web, "idle")'
    BY <1>2 DEF ViewsInv, ViewsTypeOK, TypeOK, MessagesBounded, Doing, DocsOf, RequestsOK
<1>4. /\ Start(limit) \in Reader /\ Start(limit).pc = "ask"
      /\ Start(limit).offset = 0 /\ Start(limit).got = <<>>
      /\ Follows(Start(limit), DayListing(Topic))
    BY <1>2, StartFollows
<1>5. DayListing(Topic)' = DayListing(Topic)
    BY <1>2, SameListing
<1>6. reader'.offset = Len(reader'.got)
    BY <1>1, <1>4
<1>7. Follows(reader', DayListing(Topic)')
    BY <1>1, <1>4, <1>5
<1> QED BY <1>1, <1>3, <1>4, <1>6, <1>7, Together

\* The next part of the listing, after what a client has.
LEMMA ExtendListed ==
    ASSUME NEW S, NEW L \in Seq(S), NEW got \in Seq(Videos), NEW page \in Seq(Videos),
           AsListed(got, L), Len(got) + Len(page) <= Len(L),
           \A k \in 1..Len(page) : Day(page[k]) = L[Len(got) + k]
    PROVE  AsListed(got \o page, L)
<1>1. PICK n \in Nat : n = Len(got)
    BY LenProperties
<1>2. PICK m \in Nat : m = Len(page)
    BY LenProperties
<1>3. PICK s : s = got \o page
    OBVIOUS
<1>4. /\ Len(s) = n + m
      /\ \A i \in 1..(n + m) : s[i] = IF i <= n THEN got[i] ELSE page[i - n]
    BY <1>1, <1>2, <1>3, ConcatProperties
<1>5. ASSUME NEW i \in 1..(n + m) PROVE Day(s[i]) = L[i]
    <2>1. CASE i <= n
        <3>1. i \in 1..n /\ s[i] = got[i]
            BY <1>4, <2>1
        <3> QED BY <1>1, <3>1 DEF AsListed
    <2>2. CASE ~(i <= n)
        <3>1. i - n \in 1..m /\ n + (i - n) = i /\ s[i] = page[i - n]
            BY <1>4, <2>2
        <3> QED BY <1>1, <1>2, <3>1
    <2> QED BY <2>1, <2>2
<1> QED BY <1>1, <1>2, <1>3, <1>4, <1>5 DEF AsListed

\* What Follows says of a client with a type.
LEMMA FollowsMeans ==
    ASSUME NEW S, NEW L \in Seq(S), NEW r \in Reader
    PROVE  Follows(r, L) <=> (r.stored /\ r.same => /\ AsListed(r.got, L)
                                                    /\ r.pc = "end" => Len(r.got) = Len(L))
<1>1. PICK got \in Seq(Videos) : got = r.got
    BY ReaderFields
<1>2. AsListed(got, L) <=> [i \in DOMAIN got |-> Day(got[i])] = Slice(L, 0, Len(got))
    BY AsListedMeans
<1>3. Follows(r, L) <=> (r.stored /\ r.same => /\ [i \in DOMAIN got |-> Day(got[i])] = Slice(L, 0, Len(got))
                                               /\ r.pc = "end" => Len(got) = Len(L))
    BY <1>1, Zenon DEF Follows
<1> QED BY <1>1, <1>2, <1>3, Zenon

\* The page that searchingView asks for: limit videos and one.
LEMMA PageAt ==
    ASSUME NEW S, NEW L \in Seq(S), L = DayListing(Topic), NEW n \in Nat, NEW limit \in Nat,
           NEW page \in Pages(Topic, n, limit + 1)
    PROVE  /\ page \in Seq(Videos)
           /\ Len(page) = IF n >= Len(L) THEN 0 ELSE IF n + (limit + 1) < Len(L) THEN limit + 1 ELSE Len(L) - n
           /\ \A k \in 1..Len(page) : Day(page[k]) = L[n + k]
<1>1. PICK h \in Nat : h = limit + 1
    OBVIOUS
<1>2. PICK days : days = Slice(L, n, h)
    OBVIOUS
<1>3. /\ Slice(L, n, h) \in Seq(S)
      /\ Len(Slice(L, n, h)) = IF n >= Len(L) THEN 0 ELSE IF n + h < Len(L) THEN h ELSE Len(L) - n
      /\ \A k \in 1..Len(Slice(L, n, h)) : Slice(L, n, h)[k] = L[n + k]
    BY SliceProperties, ZenonT(60)
<1>4. /\ page \in Seq(Videos) /\ Len(page) = Len(days)
      /\ \A k \in 1..Len(page) : Day(page[k]) = days[k]
    <2>1. page \in Pages(Topic, n, h) /\ DayListing(Topic) \in Seq(S)
        BY <1>1
    <2> QED BY <1>2, <2>1, PageProperties
<1> QED BY <1>1, <1>2, <1>3, <1>4

\* limit videos are not limit and one.
LEMMA OneMore ==
    ASSUME NEW limit \in Nat
    PROVE  limit # limit + 1
OBVIOUS

\* A page from the documents, and where its link leads: to the first video
\* after it, or nowhere at the end of the listing.
LEMMA FullPageFollows ==
    ASSUME NEW S, NEW L \in Seq(S), NEW r \in Reader, NEW page \in Seq(Videos),
           r.offset = Len(r.got),
           Len(page) = IF r.offset >= Len(L) THEN 0
                       ELSE IF r.offset + (r.limit + 1) < Len(L) THEN r.limit + 1 ELSE Len(L) - r.offset,
           \A k \in 1..Len(page) : Day(page[k]) = L[r.offset + k],
           page # <<>>, ~(r.limit > Len(page)),
           r.stored /\ r.same => AsListed(r.got, L)
    PROVE  /\ FullPage(r, page) \in Reader /\ FullPage(r, page).pc # "fetching"
           /\ FullPage(r, page).pc = "ask" => FullPage(r, page).offset = Len(FullPage(r, page).got)
           /\ Follows(FullPage(r, page), L)
<1>1. PICK limit \in Nat : limit = r.limit
    BY ReaderFields
<1>2. PICK got \in Seq(Videos) : got = r.got
    BY ReaderFields
<1>3. PICK n \in Nat : n = Len(got)
    BY LenProperties
<1>4. PICK m \in Nat : m = Len(page)
    BY LenProperties
<1>5. PICK N \in Nat : N = Len(L)
    BY LenProperties
<1>6. /\ m = (IF n >= N THEN 0 ELSE IF n + (limit + 1) < N THEN limit + 1 ELSE N - n)
      /\ \A k \in 1..m : Day(page[k]) = L[n + k]
    BY <1>1, <1>2, <1>3, <1>4, <1>5
<1>7. m # 0 /\ m >= limit
    BY <1>1, <1>4, EmptySeq
<1>8. n + m <= N /\ (m = limit + 1 \/ (m = limit /\ n + m = N))
    BY <1>6, <1>7
<1>9. CASE m = limit + 1
    <2>1. PICK videos : videos = SubSeq(page, 1, limit)
        OBVIOUS
    <2>2. \A k \in 1..limit : page[k] \in Videos
        BY <1>4, <1>9, ElementOfSeq
    <2>3. /\ videos \in Seq(Videos) /\ Len(videos) = limit
          /\ \A k \in 1..limit : videos[k] = page[k]
        <3>1. /\ SubSeq(page, 1, limit) \in Seq(Videos)
              /\ Len(SubSeq(page, 1, limit)) = IF 1 <= limit THEN limit - 1 + 1 ELSE 0
              /\ \A k \in 1..(limit - 1 + 1) : SubSeq(page, 1, limit)[k] = page[1 + k - 1]
            BY <2>2, SubSeqProperties
        <3> QED BY <2>1, <3>1
    <2>4. PICK f : f = NextLink(r, videos, r.offset + r.limit)
        OBVIOUS
    <2>5. FullPage(r, page) = f
        BY <1>1, <1>4, <1>9, <2>1, <2>4 DEF FullPage
    <2>6. PICK g \in Seq(Videos) : g = got \o videos
        BY <2>3, ConcatProperties
    <2>7. Len(g) = n + limit
        BY <1>3, <2>3, <2>6, ConcatProperties
    <2>8. PICK o \in Nat : o = n + limit
        OBVIOUS
    <2>9. f = [r EXCEPT !.pc = "ask", !.got = g, !.offset = o]
        BY <1>1, <1>2, <1>3, <2>4, <2>6, <2>8 DEF NextLink
    <2>10. /\ f \in Reader /\ f.pc = "ask" /\ f.got = g /\ f.offset = n + limit
          /\ f.stored = r.stored /\ f.same = r.same
        BY <2>8, <2>9 DEF Reader
    <2>11. ASSUME AsListed(got, L) PROVE AsListed(g, L)
        <3>1. Len(got) + Len(videos) <= Len(L)
            BY <1>3, <1>5, <1>8, <1>9, <2>3
        <3>2. \A k \in 1..Len(videos) : Day(videos[k]) = L[Len(got) + k]
            <4>1. \A k \in 1..limit : k \in 1..m
                BY <1>9
            <4> QED BY <1>3, <1>6, <2>3, <4>1
        <3> QED BY <2>3, <2>6, <2>11, <3>1, <3>2, ExtendListed
    <2>12. Follows(f, L)
        BY <1>2, <2>10, <2>11, FollowsMeans
    <2> QED BY <2>5, <2>7, <2>10, <2>12
<1>10. CASE m = limit /\ n + m = N
    <2>1. PICK f : f = NoMoreVideos(r, page)
        OBVIOUS
    <2>2. Len(page) # r.limit + 1
        BY <1>1, <1>4, <1>10, OneMore, Zenon
    <2>3. FullPage(r, page) = f
        BY <2>1, <2>2 DEF FullPage
    <2>4. PICK g \in Seq(Videos) : g = got \o page
        BY ConcatProperties
    <2>5. Len(g) = N
        <3>1. Len(got \o page) = Len(got) + Len(page)
            BY ConcatProperties
        <3> QED BY <1>3, <1>4, <1>10, <2>4, <3>1
    <2>6. /\ f \in Reader /\ f.pc = "end" /\ f.got = g
          /\ f.stored = r.stored /\ f.same = r.same
        BY <1>2, <2>1, <2>4 DEF NoMoreVideos, Reader
    <2>7. ASSUME AsListed(got, L) PROVE AsListed(g, L)
        <3>1. Len(got) + Len(page) <= Len(L)
            BY <1>3, <1>4, <1>5, <1>8
        <3>2. \A k \in 1..Len(page) : Day(page[k]) = L[Len(got) + k]
            BY <1>3, <1>4, <1>6
        <3> QED BY <2>4, <2>7, <3>1, <3>2, ExtendListed
    <2>8. Follows(f, L)
        BY <1>2, <1>5, <2>5, <2>6, <2>7, FollowsMeans
    <2> QED BY <2>3, <2>6, <2>8
<1> QED BY <1>8, <1>9, <1>10

\* searchingView answers from the documents.
LEMMA AnswerStep ==
    ASSUME ViewsInv, reader.pc = "ask", UNCHANGED <<taskVars, pending, bulk, asked>>,
           NEW page \in Pages(Topic, reader.offset, reader.limit + 1),
           page # <<>>, ~(reader.limit > Len(page)),
           reader' = FullPage([reader EXCEPT !.same = @ \/ reader.offset = 0], page)
    PROVE  ViewsInv'
<1>1. TypeOK /\ reader \in Reader /\ UNCHANGED <<published, queryDocs, task>> /\ Doing(Web, "idle")
    BY DEF ViewsInv, ViewsTypeOK, taskVars
<1>2. PICK S : DayListing(Topic) \in Seq(S)
    BY <1>1, ListingSeq
<1>3. PICK L \in Seq(S) : L = DayListing(Topic)
    BY <1>2
<1>4. PICK r : r = [reader EXCEPT !.same = @ \/ reader.offset = 0]
    OBVIOUS
<1>5. /\ r \in Reader /\ r.offset = reader.offset /\ r.limit = reader.limit /\ r.got = reader.got
      /\ r.stored = reader.stored /\ (r.same <=> reader.same \/ reader.offset = 0)
    BY <1>1, <1>4 DEF Reader
<1>6. r.offset \in Nat /\ r.limit \in Nat /\ r.got \in Seq(Videos)
    BY <1>5, ReaderFields
<1>7. /\ page \in Seq(Videos)
      /\ Len(page) = IF r.offset >= Len(L) THEN 0
                     ELSE IF r.offset + (r.limit + 1) < Len(L) THEN r.limit + 1 ELSE Len(L) - r.offset
      /\ \A k \in 1..Len(page) : Day(page[k]) = L[r.offset + k]
    <2>1. PICK n \in Nat : n = r.offset
        BY <1>6
    <2>2. PICK limit \in Nat : limit = r.limit
        BY <1>6
    <2>3. page \in Pages(Topic, n, limit + 1)
        BY <1>5, <2>1, <2>2
    <2>4. /\ page \in Seq(Videos)
          /\ Len(page) = IF n >= Len(L) THEN 0 ELSE IF n + (limit + 1) < Len(L) THEN limit + 1 ELSE Len(L) - n
          /\ \A k \in 1..Len(page) : Day(page[k]) = L[n + k]
        BY <1>3, <2>3, PageAt
    <2> QED BY <2>1, <2>2, <2>4
<1>8. r.offset = Len(r.got)
    BY <1>5 DEF ViewsInv, ReaderInv
<1>9. ASSUME r.stored, r.same PROVE AsListed(r.got, L)
    <2>1. CASE reader.same
        <3>1. Follows(reader, L)
            BY <1>3 DEF ViewsInv, PagesFollowListing, Follows
        <3> QED BY <1>1, <1>5, <1>9, <2>1, <3>1, FollowsMeans
    <2>2. CASE reader.offset = 0
        <3>1. Len(r.got) = 0 /\ Len(L) \in Nat
            BY <1>5, <1>8, <2>2, LenProperties
        <3> QED BY <3>1 DEF AsListed
    <2> QED BY <1>5, <1>9, <2>1, <2>2
<1>10. page # <<>> /\ ~(r.limit > Len(page))
    BY <1>5
<1>11. PICK f : f = FullPage(r, page)
    OBVIOUS
<1>12. f \in Reader /\ f.pc # "fetching" /\ (f.pc = "ask" => f.offset = Len(f.got)) /\ Follows(f, L)
    BY <1>5, <1>7, <1>8, <1>9, <1>10, <1>11, FullPageFollows, ZenonT(60)
<1>13. DayListing(Topic)' = L
    BY <1>1, <1>3, SameListing
<1>14. reader' = f
    BY <1>4, <1>11
<1>15. TypeOK' /\ MessagesBounded' /\ RequestsOK' /\ Doing(Web, "idle")'
    BY <1>1 DEF ViewsInv, ViewsTypeOK, TypeOK, MessagesBounded, Doing, DocsOf, RequestsOK
<1> QED BY <1>12, <1>13, <1>14, <1>15, Together

\* searchingView answers from the documents, or runs the task.
LEMMA SearchingViewStep ==
    ASSUME ViewsInv, SearchingView
    PROVE  ViewsInv'
<1>1. TypeOK /\ reader \in Reader /\ reader.pc = "ask" /\ RequestsOK /\ UNCHANGED <<pending, bulk, asked>>
    BY DEF ViewsInv, ViewsTypeOK, SearchingView, RequestsOK
<1>2. PICK r : r = [reader EXCEPT !.same = @ \/ reader.offset = 0]
    OBVIOUS
<1>3. PICK page \in Pages(Topic, reader.offset, reader.limit + 1) :
          IF page = <<>> \/ reader.limit > Len(page)
          THEN /\ reader' = [r EXCEPT !.pc = "fetching", !.stored = FALSE]
               /\ StartTask(Web, Topic, reader.limit)
          ELSE /\ reader' = FullPage(r, page)
               /\ UNCHANGED taskVars
    BY <1>2 DEF SearchingView
<1>4. CASE page = <<>> \/ reader.limit > Len(page)
    <2>1. StartTask(Web, Topic, reader.limit) /\ reader' = [r EXCEPT !.pc = "fetching", !.stored = FALSE]
        BY <1>3, <1>4
    <2>2. PICK n \in 0..MaxResults : n = reader.limit
        BY <1>1, ReaderFields
    <2>3. TypeOK'
        <3>1. StartTask(Web, Topic, n) /\ Web \in Executors /\ Topic \in Owners
            BY <2>1, <2>2, ViewsAssumption
        <3> QED BY <1>1, <3>1, StartTaskOK
    <2>4. r \in Reader
        BY <1>1, <1>2 DEF Reader
    <2>5. reader' \in Reader /\ reader'.pc = "fetching" /\ ~reader'.stored
        BY <2>1, <2>4 DEF Reader
    <2>6. MessagesBounded' /\ RequestsOK'
        BY <1>1 DEF ViewsInv, MessagesBounded, RequestsOK
    <2>7. Follows(reader', DayListing(Topic)')
        BY <2>5 DEF Follows
    <2> QED BY <2>3, <2>5, <2>6, <2>7, Together
<1>5. CASE ~(page = <<>> \/ reader.limit > Len(page))
    <2>1. /\ page # <<>> /\ ~(reader.limit > Len(page)) /\ UNCHANGED <<taskVars, pending, bulk, asked>>
          /\ reader' = FullPage([reader EXCEPT !.same = @ \/ reader.offset = 0], page)
        BY <1>1, <1>2, <1>3, <1>5
    <2> QED BY <1>1, <2>1, AnswerStep
<1> QED BY <1>4, <1>5

\* A worker takes the oldest task of the queue.
LEMMA TakeTaskStep ==
    ASSUME ViewsInv, NEW w \in Workers, TakeTask(w)
    PROVE  ViewsInv'
<1>1. TypeOK /\ w \in Executors /\ w # Web /\ Web \in Executors /\ UNCHANGED reader /\ RequestsOK'
    BY ViewsAssumption DEF ViewsInv, ViewsTypeOK, Workers, TakeTask, RequestsOK
<1>2. pending # <<>> /\ pending \in Seq([owner : Owners, n : 0..MaxResults])
    BY DEF TakeTask, ViewsInv, MessagesBounded
<1>3. PICK m \in [owner : Owners, n : 0..MaxResults] : m = Head(pending)
    BY <1>2, HeadTailProperties
<1>4. PICK q \in Owners : q = m.owner
    OBVIOUS
<1>5. PICK n \in 0..MaxResults : n = m.n
    OBVIOUS
<1>6. StartTask(w, q, n)
    BY <1>3, <1>4, <1>5 DEF TakeTask
<1>7. TypeOK' /\ queryDocs' = queryDocs /\ \A f \in Executors \ {w} : task'[f] = task[f]
    BY <1>1, <1>6, StartTaskOK
<1>8. MessagesBounded'
    BY <1>2, HeadTailProperties DEF MessagesBounded, TakeTask
<1>9. DayListing(Topic)' = DayListing(Topic)
    BY <1>7, SameListing
<1> QED BY <1>1, <1>7, <1>8, <1>9, ReaderStays

\* The worker dies.
LEMMA WorkerCrashStep ==
    ASSUME ViewsInv, NEW w \in Workers, WorkerCrash(w)
    PROVE  ViewsInv'
<1>1. TypeOK /\ w \in Executors /\ w # Web /\ Web \in Executors /\ Abort(w) /\ UNCHANGED <<pending, reader>>
    BY ViewsAssumption DEF ViewsInv, ViewsTypeOK, Workers, WorkerCrash
<1>2. TypeOK' /\ queryDocs' = queryDocs /\ \A f \in Executors \ {w} : task'[f] = task[f]
    BY <1>1, AbortOK
<1>3. MessagesBounded' /\ RequestsOK'
    BY <1>1 DEF ViewsInv, ViewsTypeOK, MessagesBounded, WorkerCrash, OwedStill, RequestsOK
<1>4. DayListing(Topic)' = DayListing(Topic)
    BY <1>2, SameListing
<1> QED BY <1>1, <1>2, <1>3, <1>4, ReaderStays

\* A step of a worker's task: the listing of the client's query changes only
\* with same.
LEMMA WorkerStepStep ==
    ASSUME ViewsInv, NEW w \in Workers, WorkerStep(w)
    PROVE  ViewsInv'
<1>1. TypeOK /\ w \in Executors /\ w # Web /\ Web \in Executors /\ Step(w) /\ UNCHANGED <<pending, bulk, asked>>
    BY ViewsAssumption DEF ViewsInv, ViewsTypeOK, Workers, WorkerStep
<1>2. /\ TypeOK' /\ \A f \in Executors \ {w} : task'[f] = task[f]
      /\ \/ queryDocs' = queryDocs
         \/ \A q \in Owners \ {task[w].owner} :
               DocsOf(q)' = DocsOf(q) /\ \A i \in DocsOf(q) : queryDocs'[i] = queryDocs[i]
    BY <1>1, StepOK
<1>3. MessagesBounded' /\ RequestsOK' /\ reader \in Reader
    BY <1>1 DEF ViewsInv, ViewsTypeOK, MessagesBounded, RequestsOK
<1>4. PICK b \in BOOLEAN : b = (queryDocs' = queryDocs \/ task[w].owner # Topic)
    OBVIOUS
<1>5. PICK s \in BOOLEAN : s = (reader.same /\ b)
    OBVIOUS
<1>6. reader' = [reader EXCEPT !.same = s]
    BY <1>4, <1>5 DEF WorkerStep
<1>7. /\ reader' \in Reader /\ reader'.pc = reader.pc /\ reader'.offset = reader.offset
      /\ reader'.got = reader.got /\ reader'.stored = reader.stored /\ reader'.same = s
    BY <1>3, <1>6 DEF Reader
<1>8. reader'.pc # "fetching" => Doing(Web, "idle")'
    BY <1>1, <1>2, <1>7 DEF ViewsInv, ViewsTypeOK, Doing
<1>9. /\ reader'.pc = "ask" => reader'.offset = Len(reader'.got)
      /\ reader'.pc = "fetching" => ~reader'.stored
    BY <1>7 DEF ViewsInv, ReaderInv
<1>10. Follows(reader', DayListing(Topic)')
    <2>1. CASE b
        <3>1. \/ queryDocs' = queryDocs
              \/ DocsOf(Topic)' = DocsOf(Topic) /\ \A i \in DocsOf(Topic) : queryDocs'[i] = queryDocs[i]
            <4>1. CASE queryDocs' = queryDocs
                BY <4>1
            <4>2. CASE queryDocs' # queryDocs
                <5>1. Topic \in Owners \ {task[w].owner}
                    BY <1>4, <2>1, <4>2, ViewsAssumption
                <5> QED BY <1>2, <4>2, <5>1
            <4> QED BY <4>1, <4>2
        <3>2. DayListing(Topic)' = DayListing(Topic)
            BY <3>1, SameListing
        <3>3. Follows(reader, DayListing(Topic))
            BY DEF ViewsInv, PagesFollowListing, Follows
        <3>4. s => reader.same
            BY <1>5
        <3> QED BY <1>7, <3>2, <3>3, <3>4 DEF Follows
    <2>2. CASE ~b
        BY <1>5, <1>7, <2>2 DEF Follows
    <2> QED BY <2>1, <2>2
<1> QED BY <1>2, <1>3, <1>7, <1>8, <1>9, <1>10, Together

\* A message is put into the queue.
LEMMA DelayStep ==
    ASSUME ViewsInv, NEW q \in Owners, NEW n \in 0..MaxResults, Delay(q, n) \/ UNCHANGED pending,
           UNCHANGED <<published, queryDocs, task, reader>>, RequestsOK'
    PROVE  ViewsInv'
<1>1. TypeOK' /\ task'[Web] = task[Web]
    BY DEF ViewsInv, ViewsTypeOK, TypeOK, Doing, DocsOf
<1>2. PICK m : m = [owner |-> q, n |-> n]
    OBVIOUS
<1>3. m \in [owner : Owners, n : 0..MaxResults]
    BY <1>2
<1>4. pending' = Append(pending, m) \/ pending' = pending
    BY <1>2 DEF Delay
<1>5. MessagesBounded'
    <2>1. pending \in Seq([owner : Owners, n : 0..MaxResults])
        BY DEF ViewsInv, MessagesBounded
    <2>2. Append(pending, m) \in Seq([owner : Owners, n : 0..MaxResults])
        BY <1>3, <2>1, AppendProperties
    <2> QED BY <1>4, <2>1, <2>2 DEF MessagesBounded
<1>6. DayListing(Topic)' = DayListing(Topic)
    BY SameListing
<1> QED BY <1>1, <1>5, <1>6, ReaderStays

\* topicRegistration: one task.
LEMMA TopicRegistrationStep ==
    ASSUME ViewsInv, NEW q \in Owners, NEW n \in 1..MaxResults, TopicRegistration(q, n)
    PROVE  ViewsInv'
<1>1. n \in 0..MaxResults
    BY TasksAssumption
<1>2. UNCHANGED <<published, queryDocs, task, reader>> /\ RequestsOK' /\ Delay(q, n)
    BY DEF TopicRegistration, taskVars, ViewsInv, ViewsTypeOK, RequestsOK
<1> QED BY <1>1, <1>2, DelayStep

\* The aggregation of bulkRegistration: the page is of documents that are there.
LEMMA BulkFindStep ==
    ASSUME ViewsInv, NEW t \in Threads, NEW k \in Nat, NEW queries \in [1..k -> Owners],
           NEW offset, NEW limit, BulkFind(t, queries, offset, limit)
    PROVE  ViewsInv'
<1>1. PICK page \in BulkPages(queries, offset, limit) :
          bulk' = [bulk EXCEPT ![t] = [saved |-> {queryDocs[i].owner : i \in page}, todo |-> queries]]
    BY DEF BulkFind
<1>2. page \subseteq DOMAIN queryDocs
    BY <1>1 DEF BulkPages, kSubset, DocsOf
<1>3. PICK saved : saved = {queryDocs[i].owner : i \in page}
    OBVIOUS
<1>4. saved \subseteq Owners
    BY <1>2, <1>3, Typed DEF QueryDoc, ViewsInv, ViewsTypeOK
<1>5. queries \in Seq(Owners) /\ Range(queries) \subseteq Owners
    BY SeqDef DEF Range
<1>6. [saved |-> saved, todo |-> queries] \in Bulk
    BY <1>4, <1>5 DEF Bulk
<1>7. bulk \in [Threads -> Bulk] /\ asked \subseteq Owners
    BY DEF ViewsInv, ViewsTypeOK
<1>8. bulk' \in [Threads -> Bulk]
    BY <1>1, <1>3, <1>6, <1>7
<1>9. asked' \subseteq Owners
    BY <1>5, <1>7 DEF BulkFind
<1>10. UNCHANGED <<published, queryDocs, task, reader, pending>> /\ RequestsOK'
    BY <1>8, <1>9 DEF BulkFind, taskVars, RequestsOK
<1> QED BY <1>10, ViewsAssumption, TasksAssumption, DelayStep

\* A turn of the loop of bulkRegistration.
LEMMA BulkDelayStep ==
    ASSUME ViewsInv, NEW t \in Threads, BulkDelay(t)
    PROVE  ViewsInv'
<1>1. PICK b \in Bulk : b = bulk[t]
    BY DEF ViewsInv, ViewsTypeOK
<1>2. b.todo \in Seq(Owners) /\ b.todo # <<>> /\ b.saved \subseteq Owners
    BY <1>1 DEF Bulk, BulkDelay
<1>3. Head(b.todo) \in Owners /\ Tail(b.todo) \in Seq(Owners)
    BY <1>2, HeadTailProperties
<1>4. PICK c : c = IF Tail(b.todo) = <<>> THEN NoBulk ELSE [b EXCEPT !.todo = Tail(b.todo)]
    OBVIOUS
<1>5. c \in Bulk
    <2>1. NoBulk \in Bulk
        BY EmptySeq DEF NoBulk, Bulk
    <2> QED BY <1>3, <1>4, <2>1 DEF Bulk
<1>6. bulk' = [bulk EXCEPT ![t] = c]
    BY <1>1, <1>4 DEF BulkDelay
<1>7. UNCHANGED <<published, queryDocs, task, reader>> /\ RequestsOK'
    BY <1>5, <1>6 DEF BulkDelay, taskVars, RequestsOK, ViewsInv, ViewsTypeOK
<1>8. Delay(Head(b.todo), MaxResults) \/ UNCHANGED pending
    BY <1>1 DEF BulkDelay
<1>9. MaxResults \in 0..MaxResults
    BY TasksAssumption
<1> QED BY <1>3, <1>7, <1>8, <1>9, DelayStep

\* bulkRegistration fails.
LEMMA BulkRaisesStep ==
    ASSUME ViewsInv, NEW t \in Threads, BulkRaises(t)
    PROVE  ViewsInv'
<1>1. NoBulk \in Bulk
    BY EmptySeq DEF NoBulk, Bulk
<1>2. UNCHANGED <<published, queryDocs, task, reader, pending>>
    BY DEF BulkRaises, taskVars
<1>3. bulk' \in [Threads -> Bulk]
    BY <1>1 DEF BulkRaises, ViewsInv, ViewsTypeOK
<1>4. asked' \subseteq Owners
    BY DEF BulkRaises, OwedStill, ViewsInv, ViewsTypeOK
<1>5. RequestsOK'
    BY <1>3, <1>4 DEF RequestsOK
<1> QED BY <1>2, <1>5, ViewsAssumption, TasksAssumption, DelayStep

\* YouTube publishes a video.
LEMMA PublishStep ==
    ASSUME ViewsInv, Publish, UNCHANGED viewVars
    PROVE  ViewsInv'
<1>1. TypeOK' /\ UNCHANGED <<queryDocs, task>>
    BY PublishOK DEF ViewsInv, ViewsTypeOK
<1>2. UNCHANGED <<pending, bulk, asked, reader>>
    BY DEF viewVars
<1>3. MessagesBounded' /\ RequestsOK' /\ task'[Web] = task[Web]
    BY <1>1, <1>2 DEF ViewsInv, ViewsTypeOK, MessagesBounded, RequestsOK
<1>4. DayListing(Topic)' = DayListing(Topic)
    BY <1>1, SameListing
<1> QED BY <1>1, <1>2, <1>3, <1>4, ReaderStays

\* Nothing happens.
LEMMA Stuttering ==
    ASSUME ViewsInv, UNCHANGED allVars
    PROVE  ViewsInv'
<1>1. UNCHANGED <<published, queryDocs, task, pending, bulk, asked, reader>>
    BY DEF allVars, taskVars, viewVars
<1>2. TypeOK' /\ MessagesBounded' /\ RequestsOK' /\ task'[Web] = task[Web]
    BY <1>1 DEF ViewsInv, ViewsTypeOK, TypeOK, MessagesBounded, Doing, DocsOf, RequestsOK
<1>3. DayListing(Topic)' = DayListing(Topic)
    BY <1>1, SameListing
<1> QED BY <1>1, <1>2, <1>3, ReaderStays

-----------------------------------------------------------------------------
(* The theorems *)

\* It holds at the start.
LEMMA InitEstablishes ==
    ASSUME ViewsInit
    PROVE  ViewsInv
<1>1. PICK limit \in Limits : reader = Start(limit)
    BY DEF ViewsInit
<1>2. published = 0 /\ queryDocs = <<>> /\ task = [e \in Executors |-> NoTask] /\ pending = <<>> /\ asked = {}
    BY DEF ViewsInit, Init
<1>3. TypeOK
    <2>1. published \in 0..MaxVideos /\ queryDocs \in Seq(QueryDoc)
        BY <1>2, TasksAssumption, EmptySeq
    <2>2. \A e \in Executors : ~Doing(e, "replace")
        BY <1>2 DEF Doing, NoTask
    <2> QED BY <1>2, <2>1, <2>2 DEF TypeOK
<1>4. /\ Start(limit) \in Reader /\ Start(limit).pc = "ask"
      /\ Start(limit).offset = 0 /\ Start(limit).got = <<>>
      /\ Follows(Start(limit), DayListing(Topic))
    BY <1>3, StartFollows
<1>5. pending \in Seq(Message) /\ MessagesBounded /\ RequestsOK
    <2>1. NoBulk \in Bulk
        BY EmptySeq DEF NoBulk, Bulk
    <2>2. bulk \in [Threads -> Bulk]
        BY <2>1 DEF ViewsInit
    <2> QED BY <1>2, <2>2, EmptySeq DEF MessagesBounded, RequestsOK
<1>6. Doing(Web, "idle")
    BY <1>2, ViewsAssumption DEF Doing, NoTask
<1>7. ViewsTypeOK
    BY <1>1, <1>3, <1>4, <1>5, <1>6 DEF ViewsTypeOK, RequestsOK
<1>8. ReaderInv
    BY <1>1, <1>4 DEF ReaderInv
<1>9. PagesFollowListing
    BY <1>1, <1>4 DEF PagesFollowListing, Follows
<1> QED BY <1>5, <1>7, <1>8, <1>9 DEF ViewsInv

\* Every step preserves it.
LEMMA NextPreserves ==
    ASSUME ViewsInv, [ViewsNext]_allVars
    PROVE  ViewsInv'
<1>1. CASE SearchingView
    BY <1>1, SearchingViewStep
<1>2. CASE SearchingViewFetches
    BY <1>2, FetchesStep
<1>3. CASE Failure
    BY <1>3, RaisesStep, WorkerCrashStep, BulkRaisesStep DEF Failure
<1>4. CASE NewReader
    BY <1>4, NewReaderStep
<1>5. ASSUME NEW q \in Owners, NEW n \in 1..MaxResults, TopicRegistration(q, n) PROVE ViewsInv'
    BY <1>5, TopicRegistrationStep
<1>6. ASSUME NEW t \in Threads,
             \/ \E k \in 1..MaxQueries, offset \in 0..1, limit \in Limits :
                   \E queries \in [1..k -> Owners] : BulkFind(t, queries, offset, limit)
             \/ BulkDelay(t)
      PROVE  ViewsInv'
    <2>1. ASSUME NEW k \in 1..MaxQueries, NEW offset \in 0..1, NEW limit \in Limits,
                 NEW queries \in [1..k -> Owners], BulkFind(t, queries, offset, limit)
          PROVE  ViewsInv'
        <3>1. k \in Nat
            BY ViewsAssumption
        <3> QED BY <2>1, <3>1, BulkFindStep
    <2> QED BY <1>6, <2>1, BulkDelayStep
<1>7. ASSUME NEW w \in Workers, TakeTask(w) \/ WorkerStep(w) PROVE ViewsInv'
    BY <1>7, TakeTaskStep, WorkerStepStep
<1>8. CASE Publish /\ UNCHANGED viewVars
    BY <1>8, PublishStep
<1>9. CASE UNCHANGED allVars
    BY <1>9, Stuttering
<1> QED BY <1>1, <1>2, <1>3, <1>4, <1>5, <1>6, <1>7, <1>8, <1>9 DEF ViewsNext

\* The types, and that the server thread runs a task only for a client that
\* waits for it.
THEOREM TypeCorrect == ViewsSpec => []ViewsTypeOK
<1>1. ViewsInv => ViewsTypeOK
    BY DEF ViewsInv
<1> QED BY <1>1, InitEstablishes, NextPreserves, PTL DEF ViewsSpec

\* The pages of searchingView that come from the documents are consecutive
\* parts of the listing, and "No More Videos" comes with the last of them.
THEOREM PagesConsecutive == ViewsSpec => []PagesFollowListing
<1>1. ViewsInv => PagesFollowListing
    BY DEF ViewsInv
<1> QED BY <1>1, InitEstablishes, NextPreserves, PTL DEF ViewsSpec
=============================================================================
