---------------------------- MODULE SearchViews ----------------------------
(***************************************************************************)
(* topicRegistration, bulkRegistration and searchingView of                *)
(* searchingApp/views.py, for a user that getUser has found, together with *)
(* the tasks they start (module QueryTasks).   The registrations put       *)
(* fetch_youtube_data into the queue of the Celery workers; searchingView  *)
(* runs it in its own thread, Web, when a page is short.                   *)
(*                                                                         *)
(* Owners are the queries of this user.  A client reads the results of a   *)
(* query page by page: it asks for a page and follows the next_link of the *)
(* answer.  published_date is a day, and MongoDB may return videos of the  *)
(* same day in any order, in every aggregation anew.                       *)
(***************************************************************************)
EXTENDS QueryTasks, SequencesExt

CONSTANTS
    Topic,       \* the query that the client below reads; others are like it
    Web,         \* the server thread that runs searchingView
    PerDay,      \* YouTube publishes this many videos on a day
    Limits,      \* the page sizes that clients ask for
    Threads,     \* the server threads that run bulkRegistration
    MaxQueries,  \* bound on the queries of a bulk registration
    MaxPending   \* bound on the tasks that are queued or about to be

ASSUME ViewsAssumption ==
    /\ Topic \in Owners
    /\ Web \in Executors
    /\ PerDay \in Nat \ {0}
    /\ Limits \subseteq 0..MaxResults
    /\ MaxQueries \in Nat

VARIABLES
    pending,   \* the tasks in the queue of the Celery workers, oldest first
    bulk,      \* bulk[t]: the bulk registration that thread t is handling
    asked,     \* history: the queries of bulk registrations that are owed a document
    reader     \* the client that pages through the videos of a query

viewVars == <<pending, bulk, asked, reader>>
allVars == <<taskVars, viewVars>>

Workers == Executors \ {Web}
Message == [owner : Owners, n : Nat]

\* saved: the queries on the page; todo: what is left of the loop over
\* all_queries, which is not empty when it begins.
Bulk == [saved : SUBSET Owners, todo : Seq(Owners)]
NoBulk == [saved |-> {}, todo |-> <<>>]

-----------------------------------------------------------------------------
(* The aggregation of searchingView *)

Day(v) == (v - 1) \div PerDay

\* $skip and $limit
Slice(s, offset, limit) ==
    SubSeq(s, offset + 1, IF offset + limit < Len(s) THEN offset + limit ELSE Len(s))

\* $match and $unwind: the videos of all documents of the query, a video once
\* for every document that has it.
Unwound(q) == {e \in DocsOf(q) \X Videos : e[2] \in queryDocs[e[1]].videos}

\* $sort by published_date, latest first: the days are determined, the order
\* within a day is not.  The day at place k is the one such that fewer than k
\* videos are of a later day, and k or more of this one or later.
DayListing(q) ==
    LET From(d) == Cardinality({e \in Unwound(q) : Day(e[2]) >= d})
    IN  [k \in 1..Cardinality(Unwound(q)) |->
            CHOOSE d \in 0..MaxVideos : From(d + 1) < k /\ k <= From(d)]

\* The page at offset of one such order.
Pages(q, offset, limit) ==
    UNION {{[k \in DOMAIN days |-> p[k][2]] :
              p \in {f \in [DOMAIN days -> Unwound(q)] :
                        /\ IsInjective(f)
                        /\ \A k \in DOMAIN days : Day(f[k][2]) = days[k]}} :
           days \in {Slice(DayListing(q), offset, limit)}}

-----------------------------------------------------------------------------
(* The client's side of the paging *)

\* pc: "ask" (it will request the page at offset), "fetching" (searchingView
\* runs the task for it), "end" (the last answer had no link to follow).
\* History: got is what the pages contained; stored is FALSE after a page that
\* was fetched; same is FALSE if a worker wrote a document of the query since
\* the first page.
Reader == [pc : {"ask", "fetching", "end"}, limit : Limits, offset : Nat,
           got : Seq(Videos), stored : BOOLEAN, same : BOOLEAN]

Start(limit) ==
    [pc |-> "ask", limit |-> limit, offset |-> 0, got |-> <<>>,
     stored |-> TRUE, same |-> TRUE]

\* The client receives the videos of a page and the offset of next_link.
NextLink(r, videos, offset) ==
    [r EXCEPT !.pc = "ask", !.got = @ \o videos, !.offset = offset]

\* Mutation: the client is sent back to the same page after a fetch.
NoMoreVideosRetry(r, videos) == [r EXCEPT !.pc = "ask"]

\* next_link is "No More Videos".
NoMoreVideos(r, videos) == [r EXCEPT !.pc = "end", !.got = @ \o videos]

ViewsInit ==
    /\ Init
    /\ pending = <<>>
    /\ bulk = [t \in Threads |-> NoBulk]
    /\ asked = {}
    /\ \E limit \in Limits : reader = Start(limit)

-----------------------------------------------------------------------------
(* searchingView *)

\* Mutation: the next page begins one video too late.
FullPageSkips(r, page) ==
    IF Len(page) = r.limit + 1
    THEN NextLink(r, SubSeq(page, 1, r.limit), r.offset + r.limit + 1)
    ELSE NoMoreVideos(r, page)

\* all_videos.extend(videos[:limit]), and next_link
FullPage(r, page) ==
    IF Len(page) = r.limit + 1
    THEN NextLink(r, SubSeq(page, 1, r.limit), r.offset + r.limit)
    ELSE NoMoreVideos(r, page)

\* Mutation: the view answers while the task still runs.
SearchingViewAsync ==
    /\ reader.pc = "ask"
    /\ Doing(Web, "idle")
    /\ \E page \in Pages(Topic, reader.offset, reader.limit + 1) :
          /\ page = <<>> \/ reader.limit > Len(page)
          /\ reader' = NoMoreVideos(reader, page)
          /\ StartTask(Web, Topic, reader.limit)
    /\ UNCHANGED <<pending, bulk, asked>>

\* The aggregation asks for limit + 1 videos.  Enough of them are the answer;
\* if there are fewer than limit, or none, fetch_youtube_data runs at once.
SearchingView ==
    /\ reader.pc = "ask"
    /\ Doing(Web, "idle")
    /\ \E page \in Pages(Topic, reader.offset, reader.limit + 1) :
          LET r == [reader EXCEPT !.same = @ \/ reader.offset = 0] IN
          IF page = <<>> \/ reader.limit > Len(page)
          THEN /\ reader' = [r EXCEPT !.pc = "fetching", !.stored = FALSE]
               /\ StartTask(Web, Topic, reader.limit)
          ELSE /\ reader' = FullPage(r, page)
               /\ UNCHANGED taskVars
    /\ UNCHANGED <<pending, bulk, asked>>

\* The records of an answer of YouTube, latest first.
Records(videos) ==
    {r \in [1..Cardinality(videos) -> videos] : \A i, k \in DOMAIN r : i < k => r[i] > r[k]}

\* A step of the task that searchingView runs.  Its end is the view's answer:
\* the records without a link.
SearchingViewFetches ==
    /\ Step(Web)
    /\ \E records \in Records(IF Doing(Web, "search") THEN {} ELSE task[Web].videos) :
          reader' = IF task'[Web] = NoTask THEN NoMoreVideos(reader, records) ELSE reader
    /\ UNCHANGED <<pending, bulk, asked>>

\* The client begins to read again.
NewReader ==
    /\ reader.pc = "end"
    /\ \E limit \in Limits : reader' = Start(limit)
    /\ UNCHANGED <<taskVars, pending, bulk, asked>>

-----------------------------------------------------------------------------
(* The registrations and the workers *)

\* The bound on the queue keeps room for what bulkRegistration has yet to put
\* there, since .delay never waits.
Room(tasks) ==
    Len(pending) + MapThenSumSet(LAMBDA t : Len(bulk[t].todo), Threads) + tasks <= MaxPending

\* fetch_youtube_data.delay(...)
Delay(q, n) == pending' = Append(pending, [owner |-> q, n |-> n])

\* topicRegistration: fetch_youtube_data.delay(user, numberOfVideos, query)
TopicRegistration(q, n) ==
    /\ Room(1)
    /\ Delay(q, n)
    /\ UNCHANGED <<taskVars, bulk, asked, reader>>

\* The documents on the page of bulkRegistration, cut to limit, which is any
\* part of those of all_queries that has the right size: they are sorted by
\* query_lasttime, which a task takes before save(), so that the documents of
\* tasks that ran at the same time can be in either order.
BulkPages(queries, offset, limit) ==
    LET docs == UNION {DocsOf(q) : q \in Range(queries)}
        rest == Cardinality(docs) - offset
    IN  kSubset(IF rest < 0 THEN 0 ELSE IF rest < limit THEN rest ELSE limit, docs)

\* Mutation: the condition is inverted.
ToFetchReversed(saved, q) == q \in saved

\* if query not in saved_queries
ToFetch(saved, q) == q \notin saved

\* bulkRegistration up to the aggregation and the list of saved_queries.
BulkFind(t, queries, offset, limit) ==
    /\ bulk[t] = NoBulk
    /\ Room(Len(queries))
    /\ \E page \in BulkPages(queries, offset, limit) :
          bulk' = [bulk EXCEPT ![t] = [saved |-> {queryDocs[i].owner : i \in page}, todo |-> queries]]
    /\ asked' = IF published > 0 THEN asked \cup Range(queries) ELSE asked
    /\ UNCHANGED <<taskVars, pending, reader>>

\* One turn of the loop: fetch_youtube_data.delay(user, n=5, query=query,
\* force=True).  force is not used, and MaxResults stands for the 5.  After the
\* last turn the client gets the page.
BulkDelay(t) ==
    LET q == Head(bulk[t].todo)
        rest == Tail(bulk[t].todo)
    IN
    /\ bulk[t].todo # <<>>
    /\ IF ToFetch(bulk[t].saved, q) THEN Delay(q, MaxResults) ELSE UNCHANGED pending
    /\ bulk' = [bulk EXCEPT ![t] = IF rest = <<>> THEN NoBulk ELSE [@ EXCEPT !.todo = rest]]
    /\ UNCHANGED <<taskVars, asked, reader>>

\* A worker process takes the oldest task.
TakeTask(w) ==
    /\ pending # <<>>
    /\ StartTask(w, Head(pending).owner, Head(pending).n)
    /\ pending' = Tail(pending)
    /\ UNCHANGED <<bulk, asked, reader>>

\* A step of a worker's task.
WorkerStep(w) ==
    /\ Step(w)
    /\ reader' = [reader EXCEPT !.same = @ /\ (queryDocs' = queryDocs \/ task[w].owner # Topic)]
    /\ UNCHANGED <<pending, bulk, asked>>

-----------------------------------------------------------------------------
(* Failures *)

\* The query has a document, or there is still a task of it that runs, is queued
\* or will be.
Coming(q) ==
    \/ DocsOf(q) # {}
    \/ \E e \in Executors : ~Doing(e, "idle") /\ task[e].owner = q /\ (Doing(e, "search") => task[e].n > 0)
    \/ \E i \in DOMAIN pending : pending[i].owner = q
    \/ \E t \in Threads : q \in Range(bulk[t].todo) \ bulk[t].saved

\* History: a failure that takes the last task of a query leaves it owed nothing.
OwedStill == asked' = {q \in asked : Coming(q)'}

\* An exception in the task is status 500.
SearchingViewRaises ==
    /\ Abort(Web)
    /\ reader' = NoMoreVideos(reader, <<>>)
    /\ UNCHANGED <<pending, bulk>>
    /\ OwedStill

\* The worker dies, and its task with it.
WorkerCrash(w) ==
    /\ Abort(w)
    /\ UNCHANGED <<pending, bulk, reader>>
    /\ OwedStill

\* .delay raises, or the server process dies: the tasks that were queued before
\* stay in the queue.  With nothing left to queue this leaves what the rest of
\* the loop leaves.
BulkRaises(t) ==
    /\ CanFail
    /\ Range(bulk[t].todo) \ bulk[t].saved # {}
    /\ bulk' = [bulk EXCEPT ![t] = NoBulk]
    /\ UNCHANGED <<taskVars, pending, reader>>
    /\ OwedStill

Failure ==
    \/ SearchingViewRaises
    \/ \E w \in Workers : WorkerCrash(w)
    \/ \E t \in Threads : BulkRaises(t)

-----------------------------------------------------------------------------

ViewsNext ==
    \/ SearchingView
    \/ SearchingViewFetches
    \/ NewReader
    \/ \E q \in Owners, n \in 1..MaxResults : TopicRegistration(q, n)
    \/ \E t \in Threads :
          \/ \E k \in 1..MaxQueries, offset \in 0..1, limit \in Limits :
                \E queries \in [1..k -> Owners] : BulkFind(t, queries, offset, limit)
          \/ BulkDelay(t)
    \/ \E w \in Workers : TakeTask(w) \/ WorkerStep(w)
    \/ Failure
    \/ Publish /\ UNCHANGED viewVars

\* The client follows the links it is given, the server carries its requests on,
\* and the workers take tasks and carry them on.
ViewsFairness ==
    /\ WF_allVars(SearchingView)
    /\ WF_allVars(SearchingViewFetches)
    /\ \A t \in Threads : WF_allVars(BulkDelay(t))
    /\ \A w \in Workers : WF_allVars(TakeTask(w)) /\ WF_allVars(WorkerStep(w))

ViewsSpec == ViewsInit /\ [][ViewsNext]_allVars /\ ViewsFairness

-----------------------------------------------------------------------------
(* Properties *)

\* The variables have the types the comments at their declaration give.
ViewsTypeOK ==
    /\ TypeOK
    /\ pending \in Seq(Message)
    /\ bulk \in [Threads -> Bulk]
    /\ asked \subseteq Owners
    /\ reader \in Reader
    /\ reader.pc # "fetching" => Doing(Web, "idle")

\* The pages that searchingView takes from the documents are consecutive parts
\* of the query's listing, whatever the limit, with the videos of duplicate
\* documents among them and in whatever order MongoDB returns the videos of one
\* day; "No More Videos" comes with the last of them.  That is, as long as no
\* worker changes the documents between two pages.
PagesFollowListing ==
    reader.stored /\ reader.same =>
        /\ [i \in DOMAIN reader.got |-> Day(reader.got[i])]
              = Slice(DayListing(Topic), 0, Len(reader.got))
        /\ reader.pc = "end" => Len(reader.got) = Len(DayListing(Topic))

\* A client that follows next_link comes to an end, although workers replace
\* the documents under it.  It does not with limit 0, where every link leads to
\* the same empty page.
ReaderFinishes == reader.pc = "ask" /\ reader.limit > 0 ~> reader.pc = "end"

\* Every query of a bulk registration comes to have a document: the one that was
\* on the page, or that of a task, queued by this request or an earlier one.  It
\* does not matter what workers write between the aggregation and the tasks, nor
\* that a task dies or the request fails after some of its .delay calls, as long
\* as one task of the query is left, and the failures end some time.
BulkQueriesGetDocs ==
    <>[][~Failure]_allVars =>
        \A q \in Owners : q \in asked ~> q \notin asked \/ DocsOf(q) # {}

\* The documentation of searchingView: if the query is present, its videos are
\* returned.  So a client that has followed the links to "No More Videos" has
\* been given all that were stored, if no worker wrote since it began.
AllVideosReturned ==
    [][reader.pc # "end" /\ reader'.pc = "end" /\ reader.offset > 0 /\ reader'.same
          => \A e \in Unwound(Topic) : e[2] \in Range(reader'.got)]_allVars

=============================================================================
