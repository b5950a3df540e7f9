---------------------------- MODULE VideoIngest ----------------------------
(***************************************************************************)
(* fetch_youtube_data, insert_into_database and insert_into_elastic of     *)
(* searchingApp/tasks.py.  The task is run by Celery workers (after        *)
(* fetch_youtube_data.delay in topicRegistration and bulkRegistration) and *)
(* by the web server's threads (searchingView calls it directly), so that  *)
(* several executors write the same collections at the same time.  Every   *)
(* call of YouTube, MongoDB and Elasticsearch is a step of its own.        *)
(*                                                                         *)
(* YouTube publishes the videos 1, 2, 3... in this order, and every query  *)
(* matches all of them: what the properties tell apart is which videos a   *)
(* search returned, and how recent they are.                               *)
(***************************************************************************)
EXTENDS Integers, Sequences, FiniteSets, SequencesExt

CONSTANTS
    Executors,   \* Celery worker processes and web server threads
    Owners,      \* the (user, query) pairs that are registered or searched
    MaxVideos,   \* bound on the videos YouTube publishes
    MaxResults,  \* bound on n, the number of videos asked for
    Faults       \* subset of {"crash", "api", "elastic", "duplicate"}

ASSUME BoundsAssumption == MaxVideos \in Nat /\ MaxResults \in Nat
ASSUME ExecutorsAssumption == IsFiniteSet(Executors)

VARIABLES
    published,    \* YouTube has published the videos 1..published
    youtubeData,  \* the ids in the collection of YoutubeData
    index,        \* the ids in the Elasticsearch index youtubevideos
    queryDocs,    \* the collection of queryModel, in the order of insertion
    job           \* job[e]: the task executor e runs

vars == <<published, youtubeData, index, queryDocs, job>>

-----------------------------------------------------------------------------
Videos == 1..MaxVideos

\* A document of queryModel.  query_lasttime is written once and left out.
QueryDoc == [owner : Owners, videos : Seq(Videos)]

\* The place of a task in the code: the next external call it makes.
Pc == {"idle", "search", "details", "findVideo", "saveVideo", "indexVideo",
       "findQuery", "replaceQuery", "createQuery"}

\* The fields of a task that runs: todo is the part of recordsAsDictionary that
\* the loop has not reached, url the ids with a 'url', complete and new are
\* complete_list_videos and all_new_videos, doc is query_object.
NoJob == [pc |-> "idle"]
Task(q, n) == [pc |-> "search", owner |-> q, n |-> n, todo |-> <<>>, url |-> {},
               complete |-> <<>>, new |-> <<>>, doc |-> 0]

At(e, p) == job[e].pc = p
Become(e, j) == job' = [job EXCEPT ![e] = j]
Goto(e, p) == Become(e, [job[e] EXCEPT !.pc = p])

\* The exception ends the task; what it has written stays.
Raise(e) == Become(e, NoJob)

\* Mutation: off by one.
SearchResultAhead(n) ==
    [i \in 1..(IF n < published THEN n ELSE published) |-> published + 2 - i]

\* YouTube's answer to maxResults = n, order = date: the n latest videos.
SearchResult(n) ==
    [i \in 1..(IF n < published THEN n ELSE published) |-> published + 1 - i]

\* Mutation: the function returns after the loop.
NextVideoOnly(j) == IF j.todo = <<>> THEN NoJob ELSE [j EXCEPT !.pc = "findVideo"]

\* The loop's next video; after the last one, the queryModel part.
NextVideo(j) == [j EXCEPT !.pc = IF j.todo = <<>> THEN "findQuery" ELSE "findVideo"]

DocsOf(q) == {i \in DOMAIN queryDocs : queryDocs[i].owner = q}

Init ==
    /\ published = 0
    /\ youtubeData = {}
    /\ index = {}
    /\ queryDocs = <<>>
    /\ job = [e \in Executors |-> NoJob]

-----------------------------------------------------------------------------
(* fetch_youtube_data *)

\* A worker takes the task, or searchingView calls it.
StartTask(e, q, n) ==
    /\ At(e, "idle")
    /\ Become(e, Task(q, n))
    /\ UNCHANGED <<published, youtubeData, index, queryDocs>>

\* requests.get(search_url): without items the task returns {}.  As a fault the
\* answer is an error report (quota, bad key), which has no items either.
SearchVideos(e) ==
    /\ At(e, "search")
    /\ \E items \in {SearchResult(job[e].n)} \cup (IF "api" \in Faults THEN {<<>>} ELSE {}) :
          Become(e, IF items = <<>> THEN NoJob
                    ELSE [job[e] EXCEPT !.pc = "details", !.todo = items])
    /\ UNCHANGED <<published, youtubeData, index, queryDocs>>

\* requests.get(video_url): each video that is returned gets its 'url'.  As a
\* fault a video is missing from the answer, or the answer has no 'items'.
GetDetails(e) ==
    LET all == Range(job[e].todo) IN
    /\ At(e, "details")
    /\ \/ \E got \in (IF "api" \in Faults THEN SUBSET all ELSE {all}) :
             Become(e, NextVideo([job[e] EXCEPT !.url = got]))
       \/ "api" \in Faults /\ Raise(e)
    /\ UNCHANGED <<published, youtubeData, index, queryDocs>>

-----------------------------------------------------------------------------
(* insert_into_database *)

\* YoutubeData.objects.raw({"_id": video_id}).first(): a known video goes to
\* complete_list_videos; a new one without 'url' is a KeyError.
FindVideo(e) ==
    LET v == Head(job[e].todo)
        j == job[e] IN
    /\ At(e, "findVideo")
    /\ IF v \in youtubeData
       THEN Become(e, NextVideo([j EXCEPT !.complete = Append(@, v), !.todo = Tail(@)]))
       ELSE IF v \in j.url THEN Goto(e, "saveVideo") ELSE Raise(e)
    /\ UNCHANGED <<published, youtubeData, index, queryDocs>>

\* Mutation: a video that is only built, not saved.
SaveVideoNot(e) ==
    /\ At(e, "saveVideo")
    /\ Goto(e, "indexVideo")
    /\ UNCHANGED <<published, youtubeData, index, queryDocs>>

\* Mutation: no insert_into_elastic.
SaveVideoOnly(e) ==
    LET v == Head(job[e].todo) IN
    /\ At(e, "saveVideo")
    /\ youtubeData' = youtubeData \cup {v}
    /\ Become(e, NextVideo([job[e] EXCEPT !.new = Append(@, v), !.todo = Tail(@)]))
    /\ UNCHANGED <<published, index, queryDocs>>

\* video_instance.save() is an upsert.  If another task stored the video since
\* FindVideo it replaces it, or the two upserts meet in the server and this
\* one raises DuplicateKeyError.
SaveVideo(e) ==
    LET v == Head(job[e].todo) IN
    /\ At(e, "saveVideo")
    /\ \/ /\ youtubeData' = youtubeData \cup {v}
          /\ Goto(e, "indexVideo")
       \/ /\ "duplicate" \in Faults
          /\ v \in youtubeData
          /\ Raise(e)
          /\ UNCHANGED youtubeData
    /\ UNCHANGED <<published, index, queryDocs>>

\* insert_into_elastic(...), which raises if Elasticsearch cannot be reached
\* or refuses the document; then all_new_videos.append
IndexVideo(e) ==
    LET v == Head(job[e].todo)
        j == job[e] IN
    /\ At(e, "indexVideo")
    /\ \/ /\ index' = index \cup {v}
          /\ Become(e, NextVideo([j EXCEPT !.new = Append(@, v), !.todo = Tail(@)]))
       \/ /\ "elastic" \in Faults
          /\ Raise(e)
          /\ UNCHANGED index
    /\ UNCHANGED <<published, youtubeData, queryDocs>>

\* Mutation: every task creates a document.
FindQueryNever(e) ==
    /\ At(e, "findQuery")
    /\ Become(e, [job[e] EXCEPT !.pc = "createQuery", !.complete = @ \o job[e].new])
    /\ UNCHANGED <<published, youtubeData, index, queryDocs>>

\* Mutation: the list is not extended by all_new_videos.
FindQueryNoExtend(e) ==
    LET docs == DocsOf(job[e].owner) IN
    /\ At(e, "findQuery")
    /\ IF docs = {}
       THEN Become(e, [job[e] EXCEPT !.pc = "createQuery"])
       ELSE Become(e, [job[e] EXCEPT !.pc = "replaceQuery",
                                     !.doc = CHOOSE i \in docs : \A k \in docs : i <= k])
    /\ UNCHANGED <<published, youtubeData, index, queryDocs>>

\* Mutation: the last document instead of the first.
FindQueryLast(e) ==
    LET j == [job[e] EXCEPT !.complete = @ \o job[e].new]
        docs == DocsOf(j.owner) IN
    /\ At(e, "findQuery")
    /\ IF docs = {}
       THEN Become(e, [j EXCEPT !.pc = "createQuery"])
       ELSE Become(e, [j EXCEPT !.pc = "replaceQuery",
                                !.doc = CHOOSE i \in docs : \A k \in docs : i >= k])
    /\ UNCHANGED <<published, youtubeData, index, queryDocs>>

\* complete_list_videos.extend(all_new_videos), and the first document of
\* queryModel for this user and query
FindQuery(e) ==
    LET j == [job[e] EXCEPT !.complete = @ \o job[e].new]
        docs == DocsOf(j.owner) IN
    /\ At(e, "findQuery")
    /\ IF docs = {}
       THEN Become(e, [j EXCEPT !.pc = "createQuery"])
       ELSE Become(e, [j EXCEPT !.pc = "replaceQuery",
                                !.doc = CHOOSE i \in docs : \A k \in docs : i <= k])
    /\ UNCHANGED <<published, youtubeData, index, queryDocs>>

\* query_object.videos = complete_list_videos; query_object.save()
ReplaceQuery(e) ==
    /\ At(e, "replaceQuery")
    /\ queryDocs' = [queryDocs EXCEPT ![job[e].doc].videos = job[e].complete]
    /\ Become(e, NoJob)
    /\ UNCHANGED <<published, youtubeData, index>>

\* queryModel(...).save(): the document has no _id yet, and the index on
\* (query, user) is not unique
CreateQuery(e) ==
    /\ At(e, "createQuery")
    /\ queryDocs' = Append(queryDocs, [owner |-> job[e].owner, videos |-> job[e].complete])
    /\ Become(e, NoJob)
    /\ UNCHANGED <<published, youtubeData, index>>

-----------------------------------------------------------------------------
(* The environment *)

Publish ==
    /\ published < MaxVideos
    /\ published' = published + 1
    /\ UNCHANGED <<youtubeData, index, queryDocs, job>>

\* The worker is killed, or a call other than the ones above raises.  The task
\* was acknowledged when it started and is not run again.
Crash(e) ==
    /\ "crash" \in Faults
    /\ ~At(e, "idle")
    /\ Raise(e)
    /\ UNCHANGED <<published, youtubeData, index, queryDocs>>

Step(e) ==
    \/ SearchVideos(e)
    \/ GetDetails(e)
    \/ FindVideo(e)
    \/ SaveVideo(e)
    \/ IndexVideo(e)
    \/ FindQuery(e)
    \/ ReplaceQuery(e)
    \/ CreateQuery(e)

Next ==
    \/ \E e \in Executors :
          \/ \E q \in Owners, n \in 0..MaxResults : StartTask(e, q, n)
          \/ Step(e)
          \/ Crash(e)
    \/ Publish

Spec == Init /\ [][Next]_vars

\* A task that has started is carried on: a worker process runs nothing else,
\* and every call it makes answers or raises.  Nothing makes a client ask for a
\* query, or YouTube publish a video.
FairSpec == Spec /\ \A e \in Executors : WF_vars(Step(e))

-----------------------------------------------------------------------------
(* Properties *)

RunningTask == [pc : Pc \ {"idle"}, owner : Owners, n : 0..MaxResults,
                todo : Seq(Videos), url : SUBSET Videos,
                complete : Seq(Videos), new : Seq(Videos), doc : Nat]
Job == {NoJob} \cup RunningTask

\* The variables have the types the comments at their declaration give, and
\* query_object names a document that exists.
TypeOK ==
    /\ published \in 0..MaxVideos
    /\ youtubeData \subseteq Videos
    /\ index \subseteq Videos
    /\ queryDocs \in Seq(QueryDoc)
    /\ job \in [Executors -> Job]
    /\ \A e \in Executors : At(e, "replaceQuery") => job[e].doc \in DOMAIN queryDocs

\* The videos embedded in a query's document are documents of YoutubeData of
\* their own: whatever insert_into_database appends to complete_list_videos or
\* all_new_videos has been stored before, whichever task stored it.
QueryVideosStored ==
    \A i \in DOMAIN queryDocs : Range(queryDocs[i].videos) \subseteq youtubeData

\* A video that MongoDB has and Elasticsearch has not is being indexed right
\* now by the task that stored it (save, then insert_into_elastic).
OnlyFreshVideosUnindexed ==
    \A v \in youtubeData \ index :
        \E e \in Executors : At(e, "indexVideo") /\ Head(job[e].todo) = v

\* The documents of one user's query are never more than the executors: only
\* tasks that looked for the document before the first one was saved create
\* another, and none after that.
DuplicatesBounded == \A q \in Owners : Cardinality(DocsOf(q)) <= Cardinality(Executors)

\* A document of queryModel that is not the first of its user and query is
\* never written again: insert_into_database updates .first() only.
LaterDocsFrozen ==
    [][\A i \in DOMAIN queryDocs :
          (\E k \in 1..(i - 1) : queryDocs[k].owner = queryDocs[i].owner)
              => queryDocs'[i] = queryDocs[i]]_vars

\* A video that is stored in MongoDB ends up in Elasticsearch, which
\* insert_into_database writes synchronously.
StoredVideosGetIndexed == \A v \in Videos : v \in youtubeData ~> v \in index

\* Tasks that store the same new videos make each other fail: of two upserts
\* that meet in MongoDB one raises DuplicateKeyError, and its task ends without
\* a document.  They do not all fail: whenever a task has found videos, it or a
\* task that runs beside it, of whatever query, comes to write its document,
\* since the one that stored the last of the videos is not in anyone's way.
SomeTaskSaves ==
    (\E e \in Executors : At(e, "details"))
        ~> (\E e \in Executors : At(e, "replaceQuery") \/ At(e, "createQuery"))

\* A task, seen from the collection of queryModel: what it will store is known
\* from YouTube's answer on.
AbstractTask(j) ==
    CASE j.pc = "idle" -> [pc |-> "idle"]
      [] j.pc = "search" -> [pc |-> "search", owner |-> j.owner, n |-> j.n]
      [] OTHER ->
            [pc |-> IF j.pc = "replaceQuery" THEN "replace"
                    ELSE IF j.pc = "createQuery" THEN "create" ELSE "find",
             owner |-> j.owner, doc |-> j.doc,
             videos |-> Range(j.todo) \cup Range(j.complete) \cup Range(j.new)]

AbstractDocs == [i \in DOMAIN queryDocs |-> [owner |-> queryDocs[i].owner,
                                             videos |-> Range(queryDocs[i].videos)]]

Tasks == INSTANCE QueryTasks WITH task <- [e \in Executors |-> AbstractTask(job[e])],
                                  queryDocs <- AbstractDocs,
                                  CanFail <- Faults # {}

\* fetch_youtube_data and insert_into_database together are a task of
\* QueryTasks: whatever other tasks do and wherever it fails, a task puts the
\* videos of its own search, all of them and no others, into one document, or
\* leaves the collection alone.  This is what the code does: the docstring has
\* the document extended with the new videos instead of replaced.
ImplementsQueryTasks == Tasks!Spec

=============================================================================
