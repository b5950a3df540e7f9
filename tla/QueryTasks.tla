----------------------------- MODULE QueryTasks -----------------------------
(***************************************************************************)
(* What fetch_youtube_data promises about the collection of queryModel:    *)
(* a task asks YouTube once, and either leaves exactly the videos of that  *)
(* answer in one document of its query or leaves the collection alone.     *)
(* The videos are sets here, and what the task does to YoutubeData and     *)
(* Elasticsearch is left out.  Module VideoIngest, which has every call    *)
(* of the code, implements this specification; SearchViews builds on it.   *)
(***************************************************************************)
EXTENDS Integers, Sequences, FiniteSets

CONSTANTS
    Executors,   \* Celery worker processes and web server threads
    Owners,      \* the (user, query) pairs that are registered or searched
    MaxVideos,   \* bound on the videos YouTube publishes
    MaxResults,  \* bound on n, the number of videos asked for
    CanFail      \* whether tasks may die or raise

ASSUME TasksAssumption ==
    /\ MaxVideos \in Nat
    /\ MaxResults \in Nat
    /\ CanFail \in BOOLEAN

VARIABLES
    published,   \* YouTube has published the videos 1..published
    queryDocs,   \* the collection of queryModel, in the order of insertion
    task         \* task[e]: the task executor e runs

taskVars == <<published, queryDocs, task>>

Videos == 1..MaxVideos
QueryDoc == [owner : Owners, videos : SUBSET Videos]

\* pc is the next call that matters here: the search, queryModel's .first(), or
\* save() of the document that was found (doc) or of a new one.
NoTask == [pc |-> "idle"]
Started == [pc : {"search"}, owner : Owners, n : 0..MaxResults]
Answered == [pc : {"find", "replace", "create"}, owner : Owners,
             videos : SUBSET Videos, doc : Nat]

Doing(e, p) == task[e].pc = p
SetTask(e, t) == task' = [task EXCEPT ![e] = t]

\* The n latest videos.
Latest(n) == {v \in 1..published : v > published - n}

DocsOf(q) == {i \in DOMAIN queryDocs : queryDocs[i].owner = q}

Init ==
    /\ published = 0
    /\ queryDocs = <<>>
    /\ task = [e \in Executors |-> NoTask]

StartTask(e, q, n) ==
    /\ Doing(e, "idle")
    /\ SetTask(e, [pc |-> "search", owner |-> q, n |-> n])
    /\ UNCHANGED <<published, queryDocs>>

\* The answer of YouTube; without items the task returns.
Search(e) ==
    /\ Doing(e, "search")
    /\ SetTask(e, IF Latest(task[e].n) = {} THEN NoTask
                  ELSE [pc |-> "find", owner |-> task[e].owner,
                        videos |-> Latest(task[e].n), doc |-> 0])
    /\ UNCHANGED <<published, queryDocs>>

\* The first document of the query, if there is one.
FindQuery(e) ==
    LET docs == DocsOf(task[e].owner) IN
    /\ Doing(e, "find")
    /\ SetTask(e, IF docs = {} THEN [task[e] EXCEPT !.pc = "create"]
                  ELSE [task[e] EXCEPT !.pc = "replace",
                                       !.doc = CHOOSE i \in docs : \A k \in docs : i <= k])
    /\ UNCHANGED <<published, queryDocs>>

\* save() of that document with the videos of the answer
ReplaceQuery(e) ==
    /\ Doing(e, "replace")
    /\ queryDocs' = [queryDocs EXCEPT ![task[e].doc].videos = task[e].videos]
    /\ SetTask(e, NoTask)
    /\ UNCHANGED published

\* save() of a new document
CreateQuery(e) ==
    /\ Doing(e, "create")
    /\ queryDocs' = Append(queryDocs, [owner |-> task[e].owner, videos |-> task[e].videos])
    /\ SetTask(e, NoTask)
    /\ UNCHANGED published

\* The process dies, or a call raises: the collection stays as it is.
Abort(e) ==
    /\ CanFail
    /\ ~Doing(e, "idle")
    /\ SetTask(e, NoTask)
    /\ UNCHANGED <<published, queryDocs>>

Publish ==
    /\ published < MaxVideos
    /\ published' = published + 1
    /\ UNCHANGED <<queryDocs, task>>

Step(e) == Search(e) \/ FindQuery(e) \/ ReplaceQuery(e) \/ CreateQuery(e)

Next ==
    \/ \E e \in Executors :
          \/ \E q \in Owners, n \in 0..MaxResults : StartTask(e, q, n)
          \/ Step(e)
          \/ Abort(e)
    \/ Publish

Spec == Init /\ [][Next]_taskVars

\* The variables have the types the comments at their declaration give, and
\* the document that a task has found exists and belongs to its query.
TypeOK ==
    /\ published \in 0..MaxVideos
    /\ queryDocs \in Seq(QueryDoc)
    /\ task \in [Executors -> {NoTask} \cup Started \cup Answered]
    /\ \A e \in Executors :
          Doing(e, "replace") => task[e].doc \in DocsOf(task[e].owner)

=============================================================================
