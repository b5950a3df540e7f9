------------------------- MODULE VideoIngestProofs -------------------------
(***************************************************************************)
(* Proofs about VideoIngest, for every set of executors and of owners,     *)
(* every bound on the videos and the results, and every set of faults.     *)
(***************************************************************************)
EXTENDS VideoIngest, TLAPS, WellFoundedInduction, FiniteSetTheorems

-----------------------------------------------------------------------------
(* Sequences *)

\* Appending adds one element to the range.
LEMMA AppendRange ==
    ASSUME NEW S, NEW s \in Seq(S), NEW x \in S
    PROVE  /\ Append(s, x) \in Seq(S)
           /\ Range(Append(s, x)) = Range(s) \cup {x}
<1>1. Append(s, x) \in Seq(S) /\ Len(Append(s, x)) = Len(s) + 1
    OBVIOUS
<1>2. DOMAIN Append(s, x) = 1..(Len(s) + 1) /\ DOMAIN s = 1..Len(s) /\ Len(s) \in Nat
    OBVIOUS
<1>3. \A i \in 1..Len(s) : Append(s, x)[i] = s[i]
    OBVIOUS
<1>4. Append(s, x)[Len(s) + 1] = x
    OBVIOUS
<1> QED BY <1>1, <1>2, <1>3, <1>4 DEF Range

\* Concatenation unites the ranges.
LEMMA ConcatRange ==
    ASSUME NEW S, NEW s \in Seq(S), NEW u \in Seq(S)
    PROVE  /\ s \o u \in Seq(S)
           /\ Range(s \o u) = Range(s) \cup Range(u)
<1>1. s \o u \in Seq(S) /\ Len(s \o u) = Len(s) + Len(u)
    OBVIOUS
<1>2. /\ DOMAIN (s \o u) = 1..(Len(s) + Len(u)) /\ DOMAIN s = 1..Len(s)
      /\ DOMAIN u = 1..Len(u) /\ Len(s) \in Nat /\ Len(u) \in Nat
    OBVIOUS
<1>3. \A i \in 1..Len(s) : (s \o u)[i] = s[i]
    OBVIOUS
<1>4. \A i \in (Len(s) + 1)..(Len(s) + Len(u)) :
          (s \o u)[i] = u[i - Len(s)] /\ i - Len(s) \in 1..Len(u)
    OBVIOUS
<1>5. Range(s \o u) \subseteq Range(s) \cup Range(u)
    BY <1>1, <1>2, <1>3, <1>4 DEF Range
<1>6. Range(s) \subseteq Range(s \o u)
    BY <1>2, <1>3 DEF Range
<1>7. \A k \in 1..Len(u) : k + Len(s) \in DOMAIN (s \o u) /\ (s \o u)[k + Len(s)] = u[k]
    BY <1>2, <1>4
<1>8. Range(u) \subseteq Range(s \o u)
    BY <1>2, <1>7 DEF Range
<1> QED BY <1>1, <1>5, <1>6, <1>8

\* A sequence that is not empty has a first element and a rest.
LEMMA HeadTail ==
    ASSUME NEW S, NEW s \in Seq(S), s # <<>>
    PROVE  Head(s) \in S /\ Tail(s) \in Seq(S)
OBVIOUS

\* Which between them have its elements.
LEMMA HeadTailRange ==
    ASSUME NEW S, NEW s \in Seq(S), s # <<>>
    PROVE  Range(s) = {Head(s)} \cup Range(Tail(s))
<1>1. Len(s) \in Nat \ {0} /\ DOMAIN s = 1..Len(s) /\ Head(s) = s[1]
    OBVIOUS
<1>2. DOMAIN Tail(s) = 1..(Len(s) - 1) /\ \A i \in 1..(Len(s) - 1) : Tail(s)[i] = s[i + 1]
    OBVIOUS
<1>3. \A i \in 1..Len(s) : i = 1 \/ (i - 1 \in 1..(Len(s) - 1) /\ s[i] = Tail(s)[i - 1])
    BY <1>1, <1>2
<1>4. Range(s) \subseteq {Head(s)} \cup Range(Tail(s))
    <2> SUFFICES ASSUME NEW i \in 1..Len(s), i # 1 PROVE s[i] \in Range(Tail(s))
        BY <1>1 DEF Range
    <2>1. i - 1 \in DOMAIN Tail(s) /\ s[i] = Tail(s)[i - 1]
        BY <1>2, <1>3
    <2> QED BY <2>1 DEF Range
<1>5. Range(Tail(s)) \subseteq Range(s) /\ Head(s) \in Range(s)
    BY <1>1, <1>2 DEF Range
<1> QED BY <1>4, <1>5

\* A set of numbers that is not empty has a least element.
LEMMA LeastElement ==
    ASSUME NEW T, T \subseteq Nat, T # {}
    PROVE  \E i \in T : \A k \in T : i <= k
<1>1. PICK i \in T : \A k \in T : ~ (<<k, i>> \in OpToRel(<, Nat))
    BY WFMin, NatLessThanWellFounded
<1>2. \A k \in T : ~ (k < i)
    BY <1>1 DEF OpToRel
<1> QED BY <1>2

-----------------------------------------------------------------------------
(* The inductive invariant.  QueryVideosStored is about the documents; what *)
(* keeps it true is that the two lists a task carries hold stored videos,   *)
(* and that a task at insert_into_elastic has saved the video at hand.      *)

Loop == {"findVideo", "saveVideo", "indexVideo"}

\* The state j of a task, where data are the stored videos and docs the
\* documents of queryModel.
TaskOK(j, data, docs) ==
    /\ j \in Job
    /\ j.pc \in Loop \cup {"details"} => j.todo # <<>>
    /\ j.pc = "indexVideo" => Head(j.todo) \in data
    /\ j.pc # "idle" => Range(j.complete) \subseteq data /\ Range(j.new) \subseteq data
    /\ j.pc = "replaceQuery" => j.doc \in docs

StateOK ==
    /\ published \in 0..MaxVideos
    /\ youtubeData \subseteq Videos
    /\ index \subseteq Videos
    /\ queryDocs \in Seq(QueryDoc)
    /\ job \in [Executors -> Job]

TasksOK == \A e \in Executors : TaskOK(job[e], youtubeData, DOMAIN queryDocs)

IInv == StateOK /\ TasksOK /\ QueryVideosStored

\* The invariant implies the type invariant.
LEMMA IInvTypes == IInv => TypeOK
BY DEF IInv, StateOK, TasksOK, TaskOK, TypeOK, At

\* A step that changes one task, and removes nothing that is stored.
LEMMA OneTask ==
    ASSUME IInv, NEW e \in Executors, NEW j, job' = [job EXCEPT ![e] = j],
           TaskOK(j, youtubeData', DOMAIN queryDocs'),
           youtubeData \subseteq youtubeData', DOMAIN queryDocs \subseteq DOMAIN queryDocs'
    PROVE  job' \in [Executors -> Job] /\ TasksOK'
<1>1. job' \in [Executors -> Job]
    BY DEF IInv, StateOK, TaskOK
<1>2. ASSUME NEW f \in Executors
      PROVE  TaskOK(job'[f], youtubeData', DOMAIN queryDocs')
    <2>1. CASE f = e
        BY <2>1 DEF IInv, StateOK
    <2>2. CASE f # e
        <3>1. job'[f] = job[f] /\ TaskOK(job[f], youtubeData, DOMAIN queryDocs)
            BY <2>2 DEF IInv, StateOK, TasksOK
        <3> QED BY <3>1 DEF TaskOK
    <2> QED BY <2>1, <2>2
<1> QED BY <1>1, <1>2 DEF TasksOK

\* The same, when the collections stay as they are.
LEMMA TaskOnly ==
    ASSUME IInv, NEW e \in Executors, NEW j, job' = [job EXCEPT ![e] = j],
           TaskOK(j, youtubeData, DOMAIN queryDocs),
           UNCHANGED <<published, youtubeData, index, queryDocs>>
    PROVE  IInv'
<1>1. job' \in [Executors -> Job] /\ TasksOK'
    BY OneTask
<1> QED BY <1>1 DEF IInv, StateOK, QueryVideosStored

\* A task that ends leaves a state that is allowed.
LEMMA NoJobOK == ASSUME NEW data, NEW docs PROVE TaskOK(NoJob, data, docs)
BY DEF TaskOK, NoJob, Job, Loop

\* The fields of a task that runs.
LEMMA Running ==
    ASSUME IInv, NEW e \in Executors, job[e].pc # "idle"
    PROVE  job[e] \in RunningTask /\ TaskOK(job[e], youtubeData, DOMAIN queryDocs)
BY DEF IInv, StateOK, TasksOK, Job, NoJob

\* NextVideo only moves the task on.
LEMMA NextVideoOK ==
    ASSUME NEW data, NEW docs, NEW j \in RunningTask,
           Range(j.complete) \subseteq data, Range(j.new) \subseteq data
    PROVE  TaskOK(NextVideo(j), data, docs)
<1>1. NextVideo(j) \in RunningTask
    BY DEF NextVideo, RunningTask, Pc
<1> QED BY <1>1 DEF NextVideo, TaskOK, RunningTask, Job, Loop

-----------------------------------------------------------------------------
(* One lemma per action *)

\* The initial state has no documents and no tasks.
LEMMA InitOK == Init => IInv
<1> SUFFICES ASSUME Init PROVE IInv
    OBVIOUS
<1>1. StateOK
    BY BoundsAssumption DEF Init, StateOK, Videos, Job
<1>2. TasksOK
    BY NoJobOK DEF Init, TasksOK
<1>3. QueryVideosStored
    BY DEF Init, QueryVideosStored
<1> QED BY <1>1, <1>2, <1>3 DEF IInv

\* A task starts with empty lists.
LEMMA StartTaskOK ==
    ASSUME IInv, NEW e \in Executors, NEW q \in Owners, NEW n \in 0..MaxResults,
           StartTask(e, q, n)
    PROVE  IInv'
<1>1. Task(q, n) \in RunningTask
    BY DEF Task, RunningTask, Pc
<1>2. TaskOK(Task(q, n), youtubeData, DOMAIN queryDocs)
    BY <1>1 DEF Task, TaskOK, Job, Loop, Range
<1> QED BY <1>2, TaskOnly DEF StartTask, Become

\* YouTube's answer is a list of videos.
LEMMA SearchResultType ==
    ASSUME IInv, NEW n \in 0..MaxResults
    PROVE  SearchResult(n) \in Seq(Videos)
<1>1. published \in 0..MaxVideos /\ MaxVideos \in Nat /\ MaxResults \in Nat
    BY BoundsAssumption DEF IInv, StateOK
<1> DEFINE m == IF n < published THEN n ELSE published
<1>2. m \in Nat /\ m <= published
    BY <1>1
<1> HIDE DEF m
<1>3. \A i \in 1..m : published + 1 - i \in Videos
    BY <1>1, <1>2 DEF Videos
<1>4. [i \in 1..m |-> published + 1 - i] \in Seq(Videos)
    BY <1>2, <1>3
<1> QED BY <1>4 DEF SearchResult, m

\* A task that has an answer is in the loop with all of it to do.
LEMMA SearchVideosOK ==
    ASSUME IInv, NEW e \in Executors, SearchVideos(e)
    PROVE  IInv'
<1>1. job[e] \in RunningTask /\ TaskOK(job[e], youtubeData, DOMAIN queryDocs)
    BY Running DEF SearchVideos, At
<1>2. SearchResult(job[e].n) \in Seq(Videos)
    BY <1>1, SearchResultType DEF RunningTask
<1>3. PICK items \in Seq(Videos) :
          job' = [job EXCEPT ![e] = IF items = <<>> THEN NoJob
                                    ELSE [job[e] EXCEPT !.pc = "details", !.todo = items]]
    <2> DEFINE answers == {SearchResult(job[e].n)} \cup (IF "api" \in Faults THEN {<<>>} ELSE {})
               After(items) == IF items = <<>> THEN NoJob
                               ELSE [job[e] EXCEPT !.pc = "details", !.todo = items]
    <2>1. PICK items \in answers : job' = [job EXCEPT ![e] = After(items)]
        BY DEF SearchVideos, Become
    <2>2. items = SearchResult(job[e].n) \/ items = <<>>
        BY <2>1, Zenon
    <2>3. <<>> \in Seq(Videos)
        OBVIOUS
    <2>4. items \in Seq(Videos)
        BY <1>2, <2>2, <2>3, Zenon
    <2> QED BY <2>1, <2>4
<1>4. UNCHANGED <<published, youtubeData, index, queryDocs>>
    BY DEF SearchVideos
<1>5. CASE items = <<>>
    BY <1>3, <1>4, <1>5, NoJobOK, TaskOnly
<1>6. CASE items # <<>>
    <2> DEFINE j == [job[e] EXCEPT !.pc = "details", !.todo = items]
    <2>1. j \in RunningTask
        BY <1>1, <1>3 DEF RunningTask, Pc
    <2>2. TaskOK(j, youtubeData, DOMAIN queryDocs)
        BY <1>1, <1>6, <2>1 DEF TaskOK, Job, Loop, RunningTask
    <2> QED BY <1>3, <1>4, <1>6, <2>2, TaskOnly
<1> QED BY <1>5, <1>6

\* The details change only the ids that have a 'url'.
LEMMA GetDetailsOK ==
    ASSUME IInv, NEW e \in Executors, GetDetails(e)
    PROVE  IInv'
<1>1. job[e] \in RunningTask /\ TaskOK(job[e], youtubeData, DOMAIN queryDocs)
    BY Running DEF GetDetails, At
<1>2. UNCHANGED <<published, youtubeData, index, queryDocs>>
    BY DEF GetDetails
<1>3. CASE Raise(e)
    BY <1>2, <1>3, NoJobOK, TaskOnly DEF Raise, Become
<1>4. ASSUME NEW got \in SUBSET Range(job[e].todo),
             Become(e, NextVideo([job[e] EXCEPT !.url = got]))
      PROVE  IInv'
    <2> DEFINE j == [job[e] EXCEPT !.url = got]
    <2>1. Range(job[e].todo) \subseteq Videos
        BY <1>1 DEF RunningTask, Range
    <2>2. j \in RunningTask
        BY <1>1, <2>1 DEF RunningTask
    <2>3. Range(j.complete) \subseteq youtubeData /\ Range(j.new) \subseteq youtubeData
        BY <1>1 DEF TaskOK, RunningTask
    <2>4. TaskOK(NextVideo(j), youtubeData, DOMAIN queryDocs)
        BY <2>2, <2>3, NextVideoOK
    <2> QED BY <1>2, <1>4, <2>4, TaskOnly DEF Become
<1> QED BY <1>3, <1>4 DEF GetDetails

\* A known video joins complete_list_videos: it is stored.
LEMMA FindVideoOK ==
    ASSUME IInv, NEW e \in Executors, FindVideo(e)
    PROVE  IInv'
<1>1. job[e] \in RunningTask /\ TaskOK(job[e], youtubeData, DOMAIN queryDocs)
    BY Running DEF FindVideo, At
<1>2. UNCHANGED <<published, youtubeData, index, queryDocs>>
    BY DEF FindVideo
<1> DEFINE v == Head(job[e].todo)
<1>3. v \in Videos /\ Tail(job[e].todo) \in Seq(Videos)
    BY <1>1, HeadTail DEF TaskOK, Loop, FindVideo, At, RunningTask
<1>4. CASE v \in youtubeData
    <2> DEFINE j == [job[e] EXCEPT !.complete = Append(@, v), !.todo = Tail(@)]
    <2>1. job[e].complete \in Seq(Videos)
        BY <1>1 DEF RunningTask
    <2>2. /\ Append(job[e].complete, v) \in Seq(Videos)
          /\ Range(Append(job[e].complete, v)) = Range(job[e].complete) \cup {v}
        BY <1>3, <2>1, AppendRange
    <2>3. j \in RunningTask
        BY <1>1, <1>3, <2>2 DEF RunningTask
    <2>4. Range(j.complete) \subseteq youtubeData /\ Range(j.new) \subseteq youtubeData
        BY <1>1, <1>4, <2>2 DEF TaskOK, RunningTask
    <2>5. TaskOK(NextVideo(j), youtubeData, DOMAIN queryDocs)
        BY <2>3, <2>4, NextVideoOK
    <2>6. job' = [job EXCEPT ![e] = NextVideo(j)]
        BY <1>4 DEF FindVideo, Become
    <2> QED BY <1>2, <2>5, <2>6, TaskOnly
<1>5. CASE v \notin youtubeData /\ Goto(e, "saveVideo")
    <2> DEFINE j == [job[e] EXCEPT !.pc = "saveVideo"]
    <2>1. j \in RunningTask
        BY <1>1 DEF RunningTask, Pc
    <2>2. TaskOK(j, youtubeData, DOMAIN queryDocs)
        BY <1>1, <2>1 DEF TaskOK, Job, Loop, RunningTask, FindVideo, At
    <2> QED BY <1>2, <1>5, <2>2, TaskOnly DEF Goto, Become
<1>6. CASE Raise(e)
    BY <1>2, <1>6, NoJobOK, TaskOnly DEF Raise, Become
<1> QED BY <1>4, <1>5, <1>6 DEF FindVideo

\* save() stores the video at hand.
LEMMA SaveVideoOK ==
    ASSUME IInv, NEW e \in Executors, SaveVideo(e)
    PROVE  IInv'
<1>1. job[e] \in RunningTask /\ TaskOK(job[e], youtubeData, DOMAIN queryDocs)
    BY Running DEF SaveVideo, At
<1> DEFINE v == Head(job[e].todo)
<1>2. v \in Videos
    BY <1>1, HeadTail DEF TaskOK, Loop, SaveVideo, At, RunningTask
<1>3. CASE youtubeData' = youtubeData \cup {v} /\ Goto(e, "indexVideo")
    <2> DEFINE j == [job[e] EXCEPT !.pc = "indexVideo"]
    <2>1. j \in RunningTask
        BY <1>1 DEF RunningTask, Pc
    <2>2. TaskOK(j, youtubeData', DOMAIN queryDocs)
        BY <1>1, <1>3, <2>1 DEF TaskOK, Job, Loop, RunningTask, SaveVideo, At
    <2>3. UNCHANGED <<published, index, queryDocs>>
        BY DEF SaveVideo
    <2>4. job' \in [Executors -> Job] /\ TasksOK'
        BY <1>3, <2>2, <2>3, OneTask DEF Goto, Become
    <2>5. StateOK'
        BY <1>2, <1>3, <2>3, <2>4 DEF IInv, StateOK
    <2>6. QueryVideosStored'
        BY <1>3, <2>3 DEF IInv, QueryVideosStored
    <2> QED BY <2>4, <2>5, <2>6 DEF IInv
<1>4. CASE Raise(e) /\ UNCHANGED youtubeData
    BY <1>4, NoJobOK, TaskOnly DEF SaveVideo, Raise, Become
<1> QED BY <1>3, <1>4 DEF SaveVideo

\* The indexed video joins all_new_videos: it was stored by SaveVideo.
LEMMA IndexVideoOK ==
    ASSUME IInv, NEW e \in Executors, IndexVideo(e)
    PROVE  IInv'
<1>1. job[e] \in RunningTask /\ TaskOK(job[e], youtubeData, DOMAIN queryDocs)
    BY Running DEF IndexVideo, At
<1> DEFINE v == Head(job[e].todo)
           j == [job[e] EXCEPT !.new = Append(@, v), !.todo = Tail(@)]
<1>2. v \in Videos /\ Tail(job[e].todo) \in Seq(Videos) /\ v \in youtubeData
    BY <1>1, HeadTail DEF TaskOK, Loop, IndexVideo, At, RunningTask
<1>3. CASE index' = index \cup {v} /\ Become(e, NextVideo(j))
    <2>1. job[e].new \in Seq(Videos)
        BY <1>1 DEF RunningTask
    <2>2. /\ Append(job[e].new, v) \in Seq(Videos)
          /\ Range(Append(job[e].new, v)) = Range(job[e].new) \cup {v}
        BY <1>2, <2>1, AppendRange
    <2>3. j \in RunningTask
        BY <1>1, <1>2, <2>2 DEF RunningTask
    <2>4. Range(j.complete) \subseteq youtubeData /\ Range(j.new) \subseteq youtubeData
        BY <1>1, <1>2, <2>2 DEF TaskOK, RunningTask
    <2>5. TaskOK(NextVideo(j), youtubeData, DOMAIN queryDocs)
        BY <2>3, <2>4, NextVideoOK
    <2>6. UNCHANGED <<published, youtubeData, queryDocs>>
        BY DEF IndexVideo
    <2>7. job' \in [Executors -> Job] /\ TasksOK'
        BY <1>3, <2>5, <2>6, OneTask DEF Become
    <2> QED BY <1>2, <1>3, <2>6, <2>7 DEF IInv, StateOK, QueryVideosStored
<1>4. CASE Raise(e) /\ UNCHANGED index
    BY <1>4, NoJobOK, TaskOnly DEF IndexVideo, Raise, Become
<1> QED BY <1>3, <1>4 DEF IndexVideo

\* The lists are joined, and query_object is the first document if there is one.
LEMMA FindQueryOK ==
    ASSUME IInv, NEW e \in Executors, FindQuery(e)
    PROVE  IInv'
<1>1. job[e] \in RunningTask /\ TaskOK(job[e], youtubeData, DOMAIN queryDocs)
    BY Running DEF FindQuery, At
<1>2. UNCHANGED <<published, youtubeData, index, queryDocs>>
    BY DEF FindQuery
<1> DEFINE all == job[e].complete \o job[e].new
           j == [job[e] EXCEPT !.complete = all]
           docs == DocsOf(job[e].owner)
           first == CHOOSE i \in docs : \A k \in docs : i <= k
<1>3. all \in Seq(Videos) /\ Range(all) \subseteq youtubeData
    <2>1. job[e].complete \in Seq(Videos) /\ job[e].new \in Seq(Videos)
        BY <1>1 DEF RunningTask
    <2>2. Range(job[e].complete) \subseteq youtubeData /\ Range(job[e].new) \subseteq youtubeData
        BY <1>1 DEF TaskOK, RunningTask
    <2> QED BY <2>1, <2>2, ConcatRange
<1>4. j \in RunningTask
    BY <1>1, <1>3 DEF RunningTask
<1>5. CASE docs = {}
    <2> DEFINE j2 == [j EXCEPT !.pc = "createQuery"]
    <2>1. j2 \in RunningTask
        BY <1>4 DEF RunningTask, Pc
    <2>2. TaskOK(j2, youtubeData, DOMAIN queryDocs)
        BY <1>1, <1>3, <2>1 DEF TaskOK, Job, Loop, RunningTask
    <2>3. job' = [job EXCEPT ![e] = j2]
        BY <1>1, <1>5 DEF FindQuery, Become, RunningTask
    <2> QED BY <1>2, <2>2, <2>3, TaskOnly
<1>6. CASE docs # {}
    <2>1. docs \subseteq DOMAIN queryDocs /\ DOMAIN queryDocs \subseteq Nat
        BY DEF DocsOf, IInv, StateOK
    <2>2. first \in DOMAIN queryDocs /\ first \in Nat
        <3>1. \E i \in docs : \A k \in docs : i <= k
            BY <1>6, <2>1, LeastElement
        <3>2. first \in docs
            BY <3>1
        <3> QED BY <2>1, <3>2
    <2> HIDE DEF first
    <2> DEFINE j2 == [j EXCEPT !.pc = "replaceQuery", !.doc = first]
    <2>3. j2 \in RunningTask
        BY <1>4, <2>2 DEF RunningTask, Pc
    <2>4. TaskOK(j2, youtubeData, DOMAIN queryDocs)
        BY <1>1, <1>3, <2>2, <2>3 DEF TaskOK, Job, Loop, RunningTask
    <2>5. job' = [job EXCEPT ![e] = j2]
        BY <1>1, <1>6 DEF FindQuery, Become, RunningTask, first
    <2> QED BY <1>2, <2>4, <2>5, TaskOnly
<1> QED BY <1>5, <1>6

\* The documents get the joined lists, whose videos are stored.
LEMMA ReplaceQueryOK ==
    ASSUME IInv, NEW e \in Executors, ReplaceQuery(e)
    PROVE  IInv'
<1>1. job[e] \in RunningTask /\ TaskOK(job[e], youtubeData, DOMAIN queryDocs)
    BY Running DEF ReplaceQuery, At
<1> DEFINE d == job[e].doc
           all == job[e].complete
<1>2. d \in DOMAIN queryDocs /\ all \in Seq(Videos) /\ Range(all) \subseteq youtubeData
    BY <1>1 DEF TaskOK, RunningTask, ReplaceQuery, At
<1>3. queryDocs' = [queryDocs EXCEPT ![d] = [@ EXCEPT !.videos = all]]
    BY DEF ReplaceQuery
<1>4. queryDocs \in Seq(QueryDoc)
    BY DEF IInv, StateOK
<1>5. queryDocs[d] \in QueryDoc
    BY <1>2, <1>4
<1>6. /\ [queryDocs[d] EXCEPT !.videos = all] \in QueryDoc
      /\ [queryDocs[d] EXCEPT !.videos = all].videos = all
    BY <1>2, <1>5 DEF QueryDoc
<1>7. queryDocs' \in Seq(QueryDoc) /\ DOMAIN queryDocs' = DOMAIN queryDocs
    BY <1>2, <1>3, <1>4, <1>6
<1>8. UNCHANGED <<published, youtubeData, index>>
    BY DEF ReplaceQuery
<1>9. job' \in [Executors -> Job] /\ TasksOK'
    BY <1>7, <1>8, NoJobOK, OneTask DEF ReplaceQuery, Become
<1>10. QueryVideosStored'
    <2> SUFFICES ASSUME NEW i \in DOMAIN queryDocs
                 PROVE  Range(queryDocs'[i].videos) \subseteq youtubeData
        BY <1>7, <1>8 DEF QueryVideosStored
    <2>1. CASE i = d
        BY <1>2, <1>3, <1>6, <2>1
    <2>2. CASE i # d
        BY <1>3, <2>2 DEF IInv, QueryVideosStored
    <2> QED BY <2>1, <2>2
<1> QED BY <1>7, <1>8, <1>9, <1>10 DEF IInv, StateOK

\* The same for a new document.
LEMMA CreateQueryOK ==
    ASSUME IInv, NEW e \in Executors, CreateQuery(e)
    PROVE  IInv'
<1>1. job[e] \in RunningTask /\ TaskOK(job[e], youtubeData, DOMAIN queryDocs)
    BY Running DEF CreateQuery, At
<1> DEFINE all == job[e].complete
           new == [owner |-> job[e].owner, videos |-> all]
<1>2. all \in Seq(Videos) /\ Range(all) \subseteq youtubeData /\ new \in QueryDoc
    BY <1>1 DEF TaskOK, RunningTask, QueryDoc
<1>3. queryDocs' = Append(queryDocs, new)
    BY DEF CreateQuery
<1>4. queryDocs \in Seq(QueryDoc)
    BY DEF IInv, StateOK
<1> HIDE DEF new
<1>5. /\ queryDocs' \in Seq(QueryDoc)
      /\ DOMAIN queryDocs' = DOMAIN queryDocs \cup {Len(queryDocs) + 1}
      /\ \A i \in DOMAIN queryDocs : queryDocs'[i] = queryDocs[i]
      /\ queryDocs'[Len(queryDocs) + 1] = new
    BY <1>2, <1>3, <1>4
<1>6. UNCHANGED <<published, youtubeData, index>>
    BY DEF CreateQuery
<1>7. job' \in [Executors -> Job] /\ TasksOK'
    BY <1>5, <1>6, NoJobOK, OneTask DEF CreateQuery, Become
<1>8. QueryVideosStored'
    <2>1. new.videos = all
        BY DEF new
    <2> QED BY <1>2, <1>5, <1>6, <2>1 DEF IInv, QueryVideosStored
<1> QED BY <1>5, <1>6, <1>7, <1>8 DEF IInv, StateOK

\* The environment writes none of the collections.
LEMMA EnvironmentOK ==
    ASSUME IInv, Publish \/ \E e \in Executors : Crash(e)
    PROVE  IInv'
<1>1. CASE Publish
    <2>1. published' \in 0..MaxVideos
        BY <1>1, BoundsAssumption DEF Publish, IInv, StateOK
    <2> QED BY <1>1, <2>1 DEF Publish, IInv, StateOK, TasksOK, QueryVideosStored
<1>2. ASSUME NEW e \in Executors, Crash(e)
      PROVE  IInv'
    BY <1>2, NoJobOK, TaskOnly DEF Crash, Raise, Become
<1> QED BY <1>1, <1>2

-----------------------------------------------------------------------------
(* The theorems *)

\* Every step of Next preserves the invariant.
LEMMA Inductive == IInv /\ [Next]_vars => IInv'
<1> SUFFICES ASSUME IInv, [Next]_vars PROVE IInv'
    OBVIOUS
<1>1. ASSUME NEW e \in Executors, NEW q \in Owners, NEW n \in 0..MaxResults, StartTask(e, q, n)
      PROVE  IInv'
    BY <1>1, StartTaskOK
<1>2. ASSUME NEW e \in Executors, Step(e)
      PROVE  IInv'
    BY <1>2, SearchVideosOK, GetDetailsOK, FindVideoOK, SaveVideoOK, IndexVideoOK,
       FindQueryOK, ReplaceQueryOK, CreateQueryOK DEF Step
<1>3. CASE Publish \/ \E e \in Executors : Crash(e)
    BY <1>3, EnvironmentOK
<1>4. CASE UNCHANGED vars
    BY <1>4 DEF vars, IInv, StateOK, TasksOK, QueryVideosStored
<1> QED BY <1>1, <1>2, <1>3, <1>4 DEF Next

\* The variables keep their types, and query_object names a document of the
\* collection whenever insert_into_database saves it.
THEOREM TypeCorrect == Spec => []TypeOK
<1>1. Spec => []IInv
    BY InitOK, Inductive, PTL DEF Spec
<1> QED BY <1>1, IInvTypes, PTL

\* The videos embedded in the documents of queryModel are stored in YoutubeData,
\* however many tasks run at the same time and wherever they fail.
THEOREM VideosStored == Spec => []QueryVideosStored
<1>1. Spec => []IInv
    BY InitOK, Inductive, PTL DEF Spec
<1>2. IInv => QueryVideosStored
    BY DEF IInv
<1> QED BY <1>1, <1>2, PTL

-----------------------------------------------------------------------------
(* The documents of queryModel.  Few steps concern them: a task comes to    *)
(* write a document in FindQuery only, and documents change in the two      *)
(* steps that follow it.                                                    *)

Writing == {"replaceQuery", "createQuery"}

\* A step of executor e's task outside the queryModel part: the task goes on as
\* j, the documents stay.
MovesOn(e, j) ==
    /\ job' = [job EXCEPT ![e] = j]
    /\ j.pc \notin Writing
    /\ UNCHANGED queryDocs

\* NextVideo leads to the loop or to the look-up of the document.
LEMMA NextVideoPc ==
    ASSUME NEW j \in RunningTask
    PROVE  NextVideo(j).pc \in {"findVideo", "findQuery"}
BY DEF NextVideo, RunningTask

\* Every step is one of these, as far as the documents are concerned.
LEMMA DocSteps ==
    ASSUME IInv, [Next]_vars
    PROVE  \/ UNCHANGED <<queryDocs, job>>
           \/ \E e \in Executors : \E j : MovesOn(e, j)
           \/ \E e \in Executors : FindQuery(e) \/ ReplaceQuery(e) \/ CreateQuery(e)
<1> DEFINE Moves == \E e \in Executors : \E j : MovesOn(e, j)
<1>1. ASSUME NEW e \in Executors, Raise(e), UNCHANGED queryDocs
      PROVE  Moves
    BY <1>1 DEF Raise, Become, NoJob, MovesOn, Writing
<1>2. ASSUME NEW e \in Executors, NEW j \in RunningTask, Become(e, NextVideo(j)),
             UNCHANGED queryDocs
      PROVE  Moves
    BY <1>2, NextVideoPc DEF Become, MovesOn, Writing
<1>3. ASSUME NEW e \in Executors, job[e] \in RunningTask, NEW p, Goto(e, p), p \notin Writing,
             UNCHANGED queryDocs
      PROVE  Moves
    <2>1. [job[e] EXCEPT !.pc = p].pc = p
        BY <1>3 DEF RunningTask
    <2> QED BY <1>3, <2>1 DEF Goto, Become, MovesOn
<1>4. ASSUME NEW e \in Executors, NEW q \in Owners, NEW n \in 0..MaxResults, StartTask(e, q, n)
      PROVE  Moves
    <2>1. Task(q, n).pc = "search"
        BY DEF Task
    <2> QED BY <1>4, <2>1 DEF StartTask, Become, MovesOn, Writing
<1>5. ASSUME NEW e \in Executors, SearchVideos(e)
      PROVE  Moves
    <2>1. job[e] \in RunningTask
        BY <1>5, Running DEF SearchVideos, At
    <2>2. PICK items : job' = [job EXCEPT ![e] =
                                 IF items = <<>> THEN NoJob
                                 ELSE [job[e] EXCEPT !.pc = "details", !.todo = items]]
        BY <1>5 DEF SearchVideos, Become
    <2>3. [job[e] EXCEPT !.pc = "details", !.todo = items].pc = "details"
        BY <2>1 DEF RunningTask
    <2> QED BY <1>5, <2>2, <2>3 DEF SearchVideos, MovesOn, Writing, NoJob
<1>6. ASSUME NEW e \in Executors, GetDetails(e)
      PROVE  Moves
    <2>1. job[e] \in RunningTask
        BY <1>6, Running DEF GetDetails, At
    <2>2. ASSUME NEW got \in SUBSET Range(job[e].todo)
          PROVE  [job[e] EXCEPT !.url = got] \in RunningTask
        <3>1. got \subseteq Videos
            BY <2>1, <2>2 DEF RunningTask, Range
        <3> QED BY <2>1, <3>1 DEF RunningTask
    <2>3. UNCHANGED queryDocs
        BY <1>6 DEF GetDetails
    <2>4. \/ \E got \in SUBSET Range(job[e].todo) :
                Become(e, NextVideo([job[e] EXCEPT !.url = got]))
          \/ Raise(e)
        BY <1>6 DEF GetDetails
    <2> QED BY <1>1, <1>2, <2>2, <2>3, <2>4
<1>7. ASSUME NEW e \in Executors, FindVideo(e)
      PROVE  Moves
    <2>1. job[e] \in RunningTask /\ job[e].todo # <<>>
        BY <1>7, Running DEF FindVideo, At, TaskOK, Loop
    <2> DEFINE v == Head(job[e].todo)
               j == [job[e] EXCEPT !.complete = Append(@, v), !.todo = Tail(@)]
    <2>2. job[e].todo \in Seq(Videos) /\ job[e].complete \in Seq(Videos)
        BY <2>1 DEF RunningTask
    <2>3. Append(job[e].complete, v) \in Seq(Videos) /\ Tail(job[e].todo) \in Seq(Videos)
        BY <2>1, <2>2, HeadTail, AppendRange
    <2>4. j \in RunningTask
        BY <2>1, <2>3 DEF RunningTask
    <2>5. UNCHANGED queryDocs
        BY <1>7 DEF FindVideo
    <2>6. Become(e, NextVideo(j)) \/ Goto(e, "saveVideo") \/ Raise(e)
        BY <1>7 DEF FindVideo
    <2> QED BY <1>1, <1>2, <1>3, <2>1, <2>4, <2>5, <2>6 DEF Writing
<1>8. ASSUME NEW e \in Executors, SaveVideo(e)
      PROVE  Moves
    <2>1. job[e] \in RunningTask
        BY <1>8, Running DEF SaveVideo, At
    <2>2. UNCHANGED queryDocs /\ (Goto(e, "indexVideo") \/ Raise(e))
        BY <1>8 DEF SaveVideo
    <2> QED BY <1>1, <1>3, <2>1, <2>2 DEF Writing
<1>9. ASSUME NEW e \in Executors, IndexVideo(e)
      PROVE  Moves
    <2>1. job[e] \in RunningTask /\ job[e].todo # <<>>
        BY <1>9, Running DEF IndexVideo, At, TaskOK, Loop
    <2> DEFINE v == Head(job[e].todo)
               j == [job[e] EXCEPT !.new = Append(@, v), !.todo = Tail(@)]
    <2>2. job[e].todo \in Seq(Videos) /\ job[e].new \in Seq(Videos)
        BY <2>1 DEF RunningTask
    <2>3. Append(job[e].new, v) \in Seq(Videos) /\ Tail(job[e].todo) \in Seq(Videos)
        BY <2>1, <2>2, HeadTail, AppendRange
    <2>4. j \in RunningTask
        BY <2>1, <2>3 DEF RunningTask
    <2>5. UNCHANGED queryDocs
        BY <1>9 DEF IndexVideo
    <2>6. Become(e, NextVideo(j)) \/ Raise(e)
        BY <1>9 DEF IndexVideo
    <2> QED BY <1>1, <1>2, <2>4, <2>5, <2>6
<1>10. ASSUME NEW e \in Executors, Crash(e)
       PROVE  Moves
    BY <1>1, <1>10 DEF Crash
<1>11. CASE Publish \/ UNCHANGED vars
    BY <1>11 DEF Publish, vars
<1> QED BY <1>4, <1>5, <1>6, <1>7, <1>8, <1>9, <1>10, <1>11 DEF Next, Step

-----------------------------------------------------------------------------
(* LaterDocsFrozen: the document a task is about to replace is the first of *)
(* its query and stays the first, since documents are only appended and     *)
(* keep their owner.                                                        *)

FoundFirst ==
    \A e \in Executors :
        At(e, "replaceQuery") =>
            /\ job[e].doc \in DocsOf(job[e].owner)
            /\ \A k \in DocsOf(job[e].owner) : job[e].doc <= k

\* FindQuery leaves the task about to create a document if there is none, and
\* about to replace the first one otherwise.
LEMMA FindQueryFinds ==
    ASSUME IInv, NEW e \in Executors, FindQuery(e)
    PROVE  /\ UNCHANGED queryDocs
           /\ \A f \in Executors \ {e} : job'[f] = job[f]
           /\ job'[e].owner = job[e].owner
           /\ DocsOf(job[e].owner) = {} => job'[e].pc = "createQuery"
           /\ DocsOf(job[e].owner) # {} =>
                 /\ job'[e].pc = "replaceQuery"
                 /\ job'[e].doc \in DocsOf(job[e].owner)
                 /\ \A k \in DocsOf(job[e].owner) : job'[e].doc <= k
<1>1. job[e] \in RunningTask /\ job \in [Executors -> Job]
    BY Running DEF FindQuery, At, IInv, StateOK
<1>2. UNCHANGED queryDocs
    BY DEF FindQuery
<1> DEFINE all == job[e].complete \o job[e].new
           j == [job[e] EXCEPT !.complete = all]
           docs == DocsOf(job[e].owner)
           first == CHOOSE i \in docs : \A k \in docs : i <= k
           created == [j EXCEPT !.pc = "createQuery"]
           replaced == [j EXCEPT !.pc = "replaceQuery", !.doc = first]
<1>3. j.owner = job[e].owner
    BY <1>1 DEF RunningTask
<1>4. job' = [job EXCEPT ![e] = IF docs = {} THEN created ELSE replaced]
    BY <1>3 DEF FindQuery, Become
<1>5. docs # {} => first \in docs /\ \A k \in docs : first <= k
    <2>1. docs \subseteq Nat
        BY DEF DocsOf, IInv, StateOK
    <2>2. docs # {} => \E i \in docs : \A k \in docs : i <= k
        BY <2>1, LeastElement
    <2> QED BY <2>2
<1> HIDE DEF first, docs, all
<1>6. /\ created.pc = "createQuery" /\ created.owner = job[e].owner
      /\ replaced.pc = "replaceQuery" /\ replaced.owner = job[e].owner
      /\ replaced.doc = first
    BY <1>1 DEF RunningTask
<1> HIDE DEF created, replaced
<1>7. /\ job'[e] = IF docs = {} THEN created ELSE replaced
      /\ \A f \in Executors \ {e} : job'[f] = job[f]
    BY <1>1, <1>4
<1> QED BY <1>2, <1>5, <1>6, <1>7 DEF docs

\* ReplaceQuery writes the document the task has found, and no owner.
LEMMA ReplaceQueryWrites ==
    ASSUME IInv, NEW e \in Executors, ReplaceQuery(e)
    PROVE  /\ DOMAIN queryDocs' = DOMAIN queryDocs
           /\ \A i \in DOMAIN queryDocs : queryDocs'[i].owner = queryDocs[i].owner
           /\ \A i \in DOMAIN queryDocs : i # job[e].doc => queryDocs'[i] = queryDocs[i]
           /\ \A q : DocsOf(q)' = DocsOf(q)
           /\ job'[e] = NoJob
           /\ \A f \in Executors \ {e} : job'[f] = job[f]
<1>1. job[e] \in RunningTask /\ TaskOK(job[e], youtubeData, DOMAIN queryDocs)
    BY Running DEF ReplaceQuery, At
<1> DEFINE d == job[e].doc
           all == job[e].complete
<1>2. d \in DOMAIN queryDocs
    BY <1>1 DEF TaskOK, ReplaceQuery, At
<1>3. queryDocs' = [queryDocs EXCEPT ![d] = [@ EXCEPT !.videos = all]]
    BY DEF ReplaceQuery
<1>4. queryDocs \in Seq(QueryDoc) /\ queryDocs[d] \in QueryDoc
    BY <1>2 DEF IInv, StateOK
<1>5. [queryDocs[d] EXCEPT !.videos = all].owner = queryDocs[d].owner
    BY <1>4 DEF QueryDoc
<1>6. DOMAIN queryDocs' = DOMAIN queryDocs
    BY <1>3, <1>4
<1>7. \A i \in DOMAIN queryDocs : i # d => queryDocs'[i] = queryDocs[i]
    BY <1>3, <1>4
<1>8. \A i \in DOMAIN queryDocs : queryDocs'[i].owner = queryDocs[i].owner
    BY <1>2, <1>3, <1>4, <1>5
<1>9. \A q : DocsOf(q)' = DocsOf(q)
    BY <1>6, <1>8 DEF DocsOf
<1>10. job'[e] = NoJob /\ \A f \in Executors \ {e} : job'[f] = job[f]
    BY DEF ReplaceQuery, Become, IInv, StateOK
<1> QED BY <1>6, <1>7, <1>8, <1>9, <1>10

\* CreateQuery appends a document of the task's query.
LEMMA CreateQueryAppends ==
    ASSUME IInv, NEW e \in Executors, CreateQuery(e)
    PROVE  /\ Len(queryDocs) \in Nat /\ DOMAIN queryDocs = 1..Len(queryDocs)
           /\ \A i \in DOMAIN queryDocs : queryDocs'[i] = queryDocs[i]
           /\ \A q : q = job[e].owner => DocsOf(q)' = DocsOf(q) \cup {Len(queryDocs) + 1}
           /\ \A q : q # job[e].owner => DocsOf(q)' = DocsOf(q)
           /\ job'[e] = NoJob
           /\ \A f \in Executors \ {e} : job'[f] = job[f]
<1>1. job[e] \in RunningTask
    BY Running DEF CreateQuery, At
<1> DEFINE new == [owner |-> job[e].owner, videos |-> job[e].complete]
<1>2. new \in QueryDoc /\ new.owner = job[e].owner
    BY <1>1 DEF RunningTask, QueryDoc
<1>3. queryDocs' = Append(queryDocs, new)
    BY DEF CreateQuery
<1>4. queryDocs \in Seq(QueryDoc)
    BY DEF IInv, StateOK
<1> HIDE DEF new
<1>5. Len(queryDocs) \in Nat /\ DOMAIN queryDocs = 1..Len(queryDocs)
    BY <1>4
<1>6. /\ DOMAIN queryDocs' = DOMAIN queryDocs \cup {Len(queryDocs) + 1}
      /\ \A i \in DOMAIN queryDocs : queryDocs'[i] = queryDocs[i]
      /\ queryDocs'[Len(queryDocs) + 1] = new
    BY <1>2, <1>3, <1>4
<1>7. \A q : q = job[e].owner => DocsOf(q)' = DocsOf(q) \cup {Len(queryDocs) + 1}
    BY <1>2, <1>6 DEF DocsOf
<1>8. \A q : q # job[e].owner => DocsOf(q)' = DocsOf(q)
    BY <1>2, <1>6 DEF DocsOf
<1>9. job'[e] = NoJob /\ \A f \in Executors \ {e} : job'[f] = job[f]
    BY DEF CreateQuery, Become, IInv, StateOK
<1> QED BY <1>5, <1>6, <1>7, <1>8, <1>9

\* FoundFirst is preserved by every step.
LEMMA FoundFirstInductive == IInv /\ FoundFirst /\ [Next]_vars => FoundFirst'
<1> SUFFICES ASSUME IInv, FoundFirst, [Next]_vars, NEW f \in Executors,
                    job'[f].pc = "replaceQuery"
             PROVE  /\ job'[f].doc \in {i \in DOMAIN queryDocs' : queryDocs'[i].owner = job'[f].owner}
                    /\ \A k \in {i \in DOMAIN queryDocs' : queryDocs'[i].owner = job'[f].owner} :
                          job'[f].doc <= k
    BY DEF FoundFirst, At, DocsOf
<1>1. CASE job'[f] = job[f] /\ UNCHANGED queryDocs
    BY <1>1 DEF FoundFirst, At, DocsOf
<1>2. ASSUME NEW e \in Executors, NEW j, MovesOn(e, j), f = e
      PROVE  FALSE
    BY <1>2 DEF MovesOn, Writing, IInv, StateOK
<1>3. ASSUME NEW e \in Executors, NEW j, MovesOn(e, j), f # e
      PROVE  job'[f] = job[f] /\ UNCHANGED queryDocs
    BY <1>3 DEF MovesOn, IInv, StateOK
<1>4. ASSUME NEW e \in Executors, FindQuery(e), f = e
      PROVE  /\ job'[f].doc \in DocsOf(job'[f].owner) /\ UNCHANGED queryDocs
             /\ \A k \in DocsOf(job'[f].owner) : job'[f].doc <= k
    BY <1>4, FindQueryFinds
<1>5. ASSUME NEW e \in Executors, FindQuery(e), f # e
      PROVE  job'[f] = job[f] /\ UNCHANGED queryDocs
    BY <1>5, FindQueryFinds
<1>6. ASSUME NEW e \in Executors, ReplaceQuery(e) \/ CreateQuery(e)
      PROVE  f # e /\ job'[f] = job[f]
    BY <1>6, ReplaceQueryWrites, CreateQueryAppends DEF NoJob
<1>7. /\ job[f].pc = "replaceQuery" => job[f].doc \in DocsOf(job[f].owner)
      /\ job[f].pc = "replaceQuery" => \A k \in DocsOf(job[f].owner) : job[f].doc <= k
    BY DEF FoundFirst, At
<1>8. ASSUME NEW e \in Executors, ReplaceQuery(e)
      PROVE  DocsOf(job[f].owner)
               = {i \in DOMAIN queryDocs' : queryDocs'[i].owner = job[f].owner}
    BY <1>8, ReplaceQueryWrites DEF DocsOf
<1>9. ASSUME NEW e \in Executors, CreateQuery(e),
             NEW k \in {i \in DOMAIN queryDocs' : queryDocs'[i].owner = job[f].owner}
      PROVE  job[f].doc <= k
    <2> DEFINE q == job[f].owner
    <2>1. k \in DocsOf(q) \cup {Len(queryDocs) + 1}
        <3>1. \A p : {i \in DOMAIN queryDocs' : queryDocs'[i].owner = p}
                        \subseteq DocsOf(p) \cup {Len(queryDocs) + 1}
            BY <1>9, CreateQueryAppends DEF DocsOf
        <3> QED BY <1>9, <3>1
    <2>2. job[f].doc \in 1..Len(queryDocs) /\ Len(queryDocs) \in Nat
        BY <1>6, <1>7, <1>9, CreateQueryAppends DEF DocsOf
    <2>3. \A i \in DocsOf(q) : job[f].doc <= i
        BY <1>6, <1>7, <1>9
    <2> QED BY <2>1, <2>2, <2>3
<1>10. ASSUME NEW e \in Executors, CreateQuery(e)
       PROVE  job[f].doc \in {i \in DOMAIN queryDocs' : queryDocs'[i].owner = job[f].owner}
    <2>1. job[f].doc \in DOMAIN queryDocs /\ queryDocs[job[f].doc].owner = job[f].owner
        BY <1>6, <1>7, <1>10 DEF DocsOf
    <2>2. queryDocs'[job[f].doc].owner = job[f].owner
        BY <1>10, <2>1, CreateQueryAppends
    <2>3. DOMAIN queryDocs \subseteq DOMAIN queryDocs'
        BY <1>10, <2>1, CreateQueryOK DEF CreateQuery, IInv, StateOK
    <2> QED BY <2>1, <2>2, <2>3
<1>11. CASE UNCHANGED <<queryDocs, job>>
    BY <1>1, <1>11
<1>12. ASSUME NEW e \in Executors, NEW j, MovesOn(e, j)
       PROVE  job'[f] = job[f] /\ UNCHANGED queryDocs
    BY <1>2, <1>3, <1>12
<1>13. ASSUME NEW e \in Executors, FindQuery(e) \/ ReplaceQuery(e) \/ CreateQuery(e)
       PROVE  /\ job'[f].doc \in {i \in DOMAIN queryDocs' : queryDocs'[i].owner = job'[f].owner}
              /\ \A k \in {i \in DOMAIN queryDocs' : queryDocs'[i].owner = job'[f].owner} :
                    job'[f].doc <= k
    <2>1. CASE FindQuery(e) /\ f = e
        BY <1>4, <2>1 DEF DocsOf
    <2>2. CASE FindQuery(e) /\ f # e
        BY <1>1, <1>5, <2>2
    <2>3. CASE ReplaceQuery(e)
        BY <1>6, <1>7, <1>8, <2>3
    <2>4. CASE CreateQuery(e)
        BY <1>6, <1>9, <1>10, <2>4
    <2> QED BY <1>13, <2>1, <2>2, <2>3, <2>4
<1> QED BY <1>1, <1>11, <1>12, <1>13, DocSteps

\* A step that changes a document changes the first of its query.
LEMMA StepFreezes ==
    ASSUME IInv, FoundFirst, [Next]_vars, NEW i \in DOMAIN queryDocs,
           NEW k \in 1..(i - 1), queryDocs[k].owner = queryDocs[i].owner
    PROVE  queryDocs'[i] = queryDocs[i]
<1>1. ASSUME NEW e \in Executors, ReplaceQuery(e)
      PROVE  queryDocs'[i] = queryDocs[i]
    <2> SUFFICES ASSUME i = job[e].doc PROVE FALSE
        BY <1>1, ReplaceQueryWrites
    <2>1. job[e].doc \in DocsOf(job[e].owner) /\ \A m \in DocsOf(job[e].owner) : job[e].doc <= m
        BY <1>1 DEF FoundFirst, ReplaceQuery, At
    <2>2. i \in Nat /\ k \in DOMAIN queryDocs /\ k \in Nat /\ k < i
        BY DEF IInv, StateOK
    <2>3. k \in DocsOf(job[e].owner)
        BY <2>1, <2>2 DEF DocsOf
    <2> QED BY <2>1, <2>2, <2>3
<1>2. ASSUME NEW e \in Executors, FindQuery(e) \/ CreateQuery(e)
      PROVE  queryDocs'[i] = queryDocs[i]
    BY <1>2, FindQueryFinds, CreateQueryAppends
<1>3. ASSUME NEW e \in Executors, NEW j, MovesOn(e, j)
      PROVE  queryDocs'[i] = queryDocs[i]
    BY <1>3 DEF MovesOn
<1> QED BY <1>1, <1>2, <1>3, DocSteps

\* A document of queryModel that is not the first of its user and query is
\* never written again, however the tasks of that query interleave.
THEOREM LaterDocsStayFrozen == Spec => LaterDocsFrozen
<1>1. Init => IInv /\ FoundFirst
    BY InitOK DEF Init, FoundFirst, At, NoJob
<1>2. IInv /\ FoundFirst /\ [Next]_vars => (IInv /\ FoundFirst)'
    BY Inductive, FoundFirstInductive
<1> DEFINE Freezes == \A i \in DOMAIN queryDocs :
                         (\E k \in 1..(i - 1) : queryDocs[k].owner = queryDocs[i].owner)
                             => queryDocs'[i] = queryDocs[i]
<1>3. IInv /\ FoundFirst /\ [Next]_vars => [Freezes]_vars
    BY StepFreezes
<1> QED BY <1>1, <1>2, <1>3, PTL DEF Spec, LaterDocsFrozen

-----------------------------------------------------------------------------
(* DuplicatesBounded.  A task that is about to create a document of the     *)
(* query counts as one: it can be so only because it saw none, and once     *)
(* there is a document no task joins it.                                    *)

Creators(q) == {e \in Executors : At(e, "createQuery") /\ job[e].owner = q}

CreationsBounded ==
    \A q \in Owners :
        Cardinality(DocsOf(q)) + Cardinality(Creators(q)) <= Cardinality(Executors)

\* The sets that are counted are finite.
LEMMA CountedFinite ==
    ASSUME IInv, NEW q
    PROVE  /\ IsFiniteSet(DocsOf(q)) /\ Cardinality(DocsOf(q)) \in Nat
           /\ IsFiniteSet(Creators(q)) /\ Cardinality(Creators(q)) \in Nat
           /\ Cardinality(Creators(q)) <= Cardinality(Executors)
           /\ Cardinality(Executors) \in Nat
<1>1. DocsOf(q) \subseteq 1..Len(queryDocs) /\ Len(queryDocs) \in Nat
    BY DEF DocsOf, IInv, StateOK
<1>2. IsFiniteSet(1..Len(queryDocs))
    BY <1>1, FS_Interval
<1>3. Creators(q) \subseteq Executors
    BY DEF Creators
<1> QED BY <1>1, <1>2, <1>3, FS_Subset, FS_CardinalityType, ExecutorsAssumption

\* Fewer creators and as many documents keep the bound.
LEMMA FewerCreators ==
    ASSUME IInv, CreationsBounded, NEW q \in Owners,
           DocsOf(q)' = DocsOf(q), Creators(q)' \subseteq Creators(q)
    PROVE  Cardinality(DocsOf(q)') + Cardinality(Creators(q)') <= Cardinality(Executors)
<1> DEFINE C == Creators(q)'
<1> HIDE DEF C
<1>1. Cardinality(C) \in Nat /\ Cardinality(C) <= Cardinality(Creators(q))
    BY CountedFinite, FS_Subset, FS_CardinalityType DEF C
<1>2. Cardinality(DocsOf(q)) + Cardinality(Creators(q)) <= Cardinality(Executors)
    BY DEF CreationsBounded
<1>3. Cardinality(DocsOf(q)) + Cardinality(C) <= Cardinality(Executors)
    BY <1>1, <1>2, CountedFinite
<1> QED BY <1>3 DEF C

\* A new document takes the place of its creator.
LEMMA CreationCounted ==
    ASSUME IInv, CreationsBounded, NEW e \in Executors, CreateQuery(e),
           NEW q \in Owners, q = job[e].owner
    PROVE  Cardinality(DocsOf(q)') + Cardinality(Creators(q)') <= Cardinality(Executors)
<1> DEFINE D == DocsOf(q)
           C == Creators(q)
           n == Len(queryDocs) + 1
<1>1. DocsOf(q)' = D \cup {n} /\ n \notin D
    BY CreateQueryAppends DEF DocsOf
<1>2. Creators(q)' = C \ {e} /\ e \in C
    <2>1. e \in C
        BY DEF Creators, CreateQuery
    <2>2. \A f \in Executors : f # e => job'[f] = job[f]
        BY CreateQueryAppends
    <2>3. job'[e].pc # "createQuery"
        BY CreateQueryAppends DEF NoJob
    <2> QED BY <2>1, <2>2, <2>3 DEF Creators, At
<1>3. /\ IsFiniteSet(D) /\ Cardinality(D) \in Nat
      /\ IsFiniteSet(C) /\ Cardinality(C) \in Nat /\ Cardinality(Executors) \in Nat
    BY CountedFinite
<1>4. Cardinality(D) + Cardinality(C) <= Cardinality(Executors)
    BY DEF CreationsBounded
<1> HIDE DEF D, C, n
<1>5. Cardinality(D \cup {n}) = Cardinality(D) + 1
    BY <1>1, <1>3, FS_AddElement
<1>6. Cardinality(C \ {e}) = Cardinality(C) - 1
    BY <1>2, <1>3, FS_RemoveElement
<1>7. Cardinality(D \cup {n}) + Cardinality(C \ {e}) <= Cardinality(Executors)
    BY <1>3, <1>4, <1>5, <1>6
<1> QED BY <1>1, <1>2, <1>7

\* The bound is preserved by every step.
LEMMA CreationsInductive == IInv /\ CreationsBounded /\ [Next]_vars => CreationsBounded'
<1> SUFFICES ASSUME IInv, CreationsBounded, [Next]_vars, NEW q \in Owners
             PROVE  Cardinality(DocsOf(q)') + Cardinality(Creators(q)') <= Cardinality(Executors)
    BY DEF CreationsBounded
<1>1. ASSUME NEW e \in Executors, \A f \in Executors \ {e} : job'[f] = job[f],
             job'[e].pc # "createQuery" \/ job'[e].owner # q
      PROVE  Creators(q)' \subseteq Creators(q)
    BY <1>1 DEF Creators, At
<1>2. ASSUME NEW e \in Executors, NEW j, MovesOn(e, j)
      PROVE  DocsOf(q)' = DocsOf(q) /\ Creators(q)' \subseteq Creators(q)
    <2>1. job'[e] = j /\ \A f \in Executors \ {e} : job'[f] = job[f]
        BY <1>2 DEF MovesOn, IInv, StateOK
    <2> QED BY <1>1, <1>2, <2>1 DEF MovesOn, Writing, DocsOf
<1>3. ASSUME NEW e \in Executors, FindQuery(e), job[e].owner # q \/ DocsOf(q) # {}
      PROVE  DocsOf(q)' = DocsOf(q) /\ Creators(q)' \subseteq Creators(q)
    <2>1. UNCHANGED queryDocs /\ \A f \in Executors \ {e} : job'[f] = job[f]
        BY <1>3, FindQueryFinds
    <2>2. job'[e].pc # "createQuery" \/ job'[e].owner # q
        BY <1>3, FindQueryFinds
    <2> QED BY <1>1, <2>1, <2>2 DEF DocsOf
<1>4. ASSUME NEW e \in Executors, FindQuery(e), job[e].owner = q, DocsOf(q) = {}
      PROVE  Cardinality(DocsOf(q)') + Cardinality(Creators(q)') <= Cardinality(Executors)
    <2>1. DocsOf(q)' = {}
        BY <1>4, FindQueryFinds DEF DocsOf
    <2>2. Creators(q)' \subseteq Executors
        BY DEF Creators
    <2> DEFINE C == Creators(q)'
    <2> HIDE DEF C
    <2>3. Cardinality(C) <= Cardinality(Executors) /\ Cardinality(C) \in Nat
        BY <2>2, FS_Subset, FS_CardinalityType, ExecutorsAssumption DEF C
    <2>4. Cardinality({}) + Cardinality(C) <= Cardinality(Executors)
        BY <2>3, FS_EmptySet, FS_CardinalityType, ExecutorsAssumption
    <2> QED BY <2>1, <2>4 DEF C
<1>5. ASSUME NEW e \in Executors, ReplaceQuery(e)
      PROVE  DocsOf(q)' = DocsOf(q) /\ Creators(q)' \subseteq Creators(q)
    BY <1>1, <1>5, ReplaceQueryWrites DEF NoJob
<1>6. ASSUME NEW e \in Executors, CreateQuery(e), job[e].owner # q
      PROVE  DocsOf(q)' = DocsOf(q) /\ Creators(q)' \subseteq Creators(q)
    BY <1>1, <1>6, CreateQueryAppends DEF NoJob
<1>7. CASE UNCHANGED <<queryDocs, job>>
    BY <1>7, FewerCreators DEF DocsOf, Creators, At
<1> QED BY <1>2, <1>3, <1>4, <1>5, <1>6, <1>7, DocSteps, FewerCreators, CreationCounted

\* However many tasks of one query run at the same time, and however long the
\* system runs, its documents never outnumber the executors.
THEOREM DuplicatesStayBounded == Spec => []DuplicatesBounded
<1>1. Init => IInv /\ CreationsBounded
    <2> SUFFICES ASSUME Init, NEW q \in Owners
                 PROVE  Cardinality(DocsOf(q)) + Cardinality(Creators(q)) <= Cardinality(Executors)
        BY InitOK DEF CreationsBounded
    <2>1. DocsOf(q) = {}
        BY DEF Init, DocsOf
    <2>2. Creators(q) = {}
        BY DEF Init, Creators, At, NoJob
    <2> QED BY <2>1, <2>2, FS_EmptySet, FS_CardinalityType, ExecutorsAssumption
<1>2. IInv /\ CreationsBounded /\ [Next]_vars => (IInv /\ CreationsBounded)'
    BY Inductive, CreationsInductive
<1>3. IInv /\ CreationsBounded => DuplicatesBounded
    <2> SUFFICES ASSUME IInv, CreationsBounded, NEW q \in Owners
                 PROVE  Cardinality(DocsOf(q)) <= Cardinality(Executors)
        BY DEF DuplicatesBounded
    <2> QED BY CountedFinite DEF CreationsBounded
<1> QED BY <1>1, <1>2, <1>3, PTL DEF Spec

-----------------------------------------------------------------------------
(* OnlyFreshVideosUnindexed, in a system in which no task dies and          *)
(* Elasticsearch answers.  DuplicateKeyError and errors of YouTube's API    *)
(* may happen: they end a task, but not one that has stored a video.        *)

\* A video enters MongoDB by the step that brings its task to insert_into_elastic.
LEMMA StoredOnlyBySave ==
    ASSUME IInv, [Next]_vars, {"crash", "elastic"} \cap Faults = {},
           NEW v \in youtubeData' \ index', v \notin youtubeData
    PROVE  \E e \in Executors : job'[e].pc = "indexVideo" /\ Head(job'[e].todo) = v
<1>1. PICK e \in Executors : SaveVideo(e)
    BY DEF Next, Step, StartTask, SearchVideos, GetDetails, FindVideo, IndexVideo,
           FindQuery, ReplaceQuery, CreateQuery, Publish, Crash, vars
<1>2. job[e] \in RunningTask
    BY <1>1, Running DEF SaveVideo, At
<1>3. v = Head(job[e].todo) /\ Goto(e, "indexVideo")
    BY <1>1 DEF SaveVideo
<1>4. job'[e] = [job[e] EXCEPT !.pc = "indexVideo"]
    BY <1>3 DEF Goto, Become, IInv, StateOK
<1> QED BY <1>2, <1>3, <1>4 DEF RunningTask

\* A task that has stored a video and not indexed it stays where it is while
\* others take their steps.
LEMMA IndexingStays ==
    ASSUME IInv, [Next]_vars, {"crash", "elastic"} \cap Faults = {},
           NEW e \in Executors, job[e].pc = "indexVideo", Head(job[e].todo) \notin index'
    PROVE  job'[e] = job[e]
<1>1. ASSUME NEW f \in Executors, NEW j, job' = [job EXCEPT ![f] = j], f # e
      PROVE  job'[e] = job[e]
    BY <1>1 DEF IInv, StateOK
<1>2. ASSUME NEW f \in Executors, NEW q \in Owners, NEW n \in 0..MaxResults, StartTask(f, q, n)
      PROVE  job'[e] = job[e]
    BY <1>1, <1>2 DEF StartTask, At, Become
<1>3. ASSUME NEW f \in Executors, SearchVideos(f)
      PROVE  job'[e] = job[e]
    BY <1>1, <1>3 DEF SearchVideos, At, Become
<1>4. ASSUME NEW f \in Executors, GetDetails(f)
      PROVE  job'[e] = job[e]
    BY <1>1, <1>4 DEF GetDetails, At, Become, Raise
<1>5. ASSUME NEW f \in Executors, FindVideo(f)
      PROVE  job'[e] = job[e]
    BY <1>1, <1>5 DEF FindVideo, At, Become, Raise, Goto
<1>6. ASSUME NEW f \in Executors, SaveVideo(f)
      PROVE  job'[e] = job[e]
    BY <1>1, <1>6 DEF SaveVideo, At, Become, Raise, Goto
<1>7. ASSUME NEW f \in Executors, IndexVideo(f)
      PROVE  job'[e] = job[e]
    <2>1. f # e
        BY <1>7 DEF IndexVideo
    <2> QED BY <1>1, <1>7, <2>1 DEF IndexVideo, Become
<1>8. ASSUME NEW f \in Executors, FindQuery(f)
      PROVE  job'[e] = job[e]
    BY <1>1, <1>8 DEF FindQuery, At, Become
<1>9. ASSUME NEW f \in Executors, ReplaceQuery(f) \/ CreateQuery(f)
      PROVE  job'[e] = job[e]
    BY <1>1, <1>9 DEF ReplaceQuery, CreateQuery, At, Become
<1>10. CASE Publish \/ UNCHANGED vars
    BY <1>10 DEF Publish, vars
<1>11. \A f \in Executors : ~Crash(f)
    BY DEF Crash
<1> QED BY <1>2, <1>3, <1>4, <1>5, <1>6, <1>7, <1>8, <1>9, <1>10, <1>11 DEF Next, Step

\* Nothing is removed from MongoDB or from Elasticsearch.
LEMMA CollectionsGrow ==
    [Next]_vars => youtubeData \subseteq youtubeData' /\ index \subseteq index'
BY DEF Next, Step, StartTask, SearchVideos, GetDetails, FindVideo, SaveVideo, IndexVideo,
       FindQuery, ReplaceQuery, CreateQuery, Publish, Crash, vars

\* Without crashes and failures of Elasticsearch, a video that MongoDB has and
\* Elasticsearch has not is being indexed by the task that stored it.
THEOREM UnindexedAreFresh ==
    ASSUME {"crash", "elastic"} \cap Faults = {}
    PROVE  Spec => []OnlyFreshVideosUnindexed
<1>1. Init => IInv /\ OnlyFreshVideosUnindexed
    BY InitOK DEF Init, OnlyFreshVideosUnindexed
<1>2. IInv /\ OnlyFreshVideosUnindexed /\ [Next]_vars => (IInv /\ OnlyFreshVideosUnindexed)'
    <2> SUFFICES ASSUME IInv, OnlyFreshVideosUnindexed, [Next]_vars, NEW v \in youtubeData' \ index'
                 PROVE  \E e \in Executors : job'[e].pc = "indexVideo" /\ Head(job'[e].todo) = v
        BY Inductive DEF OnlyFreshVideosUnindexed, At
    <2>1. CASE v \notin youtubeData
        BY <2>1, StoredOnlyBySave
    <2>2. CASE v \in youtubeData
        <3>1. v \in youtubeData \ index
            BY <2>2, CollectionsGrow
        <3>2. PICK e \in Executors : job[e].pc = "indexVideo" /\ Head(job[e].todo) = v
            BY <3>1 DEF OnlyFreshVideosUnindexed, At
        <3>3. job'[e] = job[e]
            BY <3>2, IndexingStays
        <3> QED BY <3>2, <3>3
    <2> QED BY <2>1, <2>2
<1> QED BY <1>1, <1>2, PTL DEF Spec

-----------------------------------------------------------------------------
(* The refinement.  What the abstract task holds in one set is spread over  *)
(* the lists of the code's task; the mapping needs to know which of them    *)
(* are empty where, and that a video can only lack its 'url' by a fault.    *)

TaskShape(j) ==
    j.pc # "idle" =>
        /\ j.pc # "replaceQuery" => j.doc = 0
        /\ j.pc \in {"search", "details"} => j.complete = <<>> /\ j.new = <<>>
        /\ j.pc \in {"findQuery"} \cup Writing => j.todo = <<>>
        /\ j.pc \in Writing => Range(j.new) \subseteq Range(j.complete)
        /\ j.pc \in Loop => Range(j.todo) \subseteq j.url \/ Faults # {}

Shapes == \A e \in Executors : TaskShape(job[e])

\* A step that changes one task.
LEMMA OneShape ==
    ASSUME IInv, Shapes, NEW e \in Executors, NEW j, job' = [job EXCEPT ![e] = j], TaskShape(j)
    PROVE  Shapes'
<1>1. \A f \in Executors : job'[f] = IF f = e THEN j ELSE job[f]
    BY DEF IInv, StateOK
<1> QED BY <1>1 DEF Shapes, TaskShape

\* A task that ends has no lists.
LEMMA NoJobShape == TaskShape(NoJob)
BY DEF TaskShape, NoJob

\* The abstract task of each stage.
LEMMA AbstractStages ==
    ASSUME NEW j \in RunningTask
    PROVE  LET answered(p) == [pc |-> p, owner |-> j.owner, doc |-> j.doc,
                               videos |-> Range(j.todo) \cup Range(j.complete) \cup Range(j.new)]
           IN  /\ j.pc = "search" =>
                     AbstractTask(j) = [pc |-> "search", owner |-> j.owner, n |-> j.n]
               /\ j.pc \in Loop \cup {"details", "findQuery"} => AbstractTask(j) = answered("find")
               /\ j.pc = "replaceQuery" => AbstractTask(j) = answered("replace")
               /\ j.pc = "createQuery" => AbstractTask(j) = answered("create")
BY DEF AbstractTask, Loop

\* A task that has ended.
LEMMA AbstractNoJob == AbstractTask(NoJob) = [pc |-> "idle"]
BY DEF AbstractTask, NoJob

TaskBar == [e \in Executors |-> AbstractTask(job[e])]

\* A step of one task is a step of one abstract task.
LEMMA OneTaskBar ==
    ASSUME IInv, NEW e \in Executors, NEW j, job' = [job EXCEPT ![e] = j]
    PROVE  TaskBar' = [TaskBar EXCEPT ![e] = AbstractTask(j)]
<1>1. \A f \in Executors : job'[f] = IF f = e THEN j ELSE job[f]
    BY DEF IInv, StateOK
<1>2. TaskBar' = [f \in Executors |-> IF f = e THEN AbstractTask(j) ELSE AbstractTask(job[f])]
    <2>1. \A f \in Executors :
             AbstractTask(job'[f]) = IF f = e THEN AbstractTask(j) ELSE AbstractTask(job[f])
        BY <1>1
    <2>2. TaskBar' = [f \in Executors |-> AbstractTask(job'[f])]
        BY DEF TaskBar, AbstractTask
    <2> QED BY <2>1, <2>2, Zenon
<1> QED BY <1>2, Zenon DEF TaskBar

\* The range of YouTube's answer.
LEMMA SearchResultLatest ==
    ASSUME IInv, NEW n \in 0..MaxResults
    PROVE  /\ Range(SearchResult(n)) = Tasks!Latest(n)
           /\ SearchResult(n) = <<>> <=> Tasks!Latest(n) = {}
<1> DEFINE m == IF n < published THEN n ELSE published
<1>1. published \in Nat /\ n \in Nat
    BY BoundsAssumption DEF IInv, StateOK
<1>2. m \in Nat /\ m <= published /\ m <= n /\ (m = n \/ m = published)
    BY <1>1
<1> HIDE DEF m
<1>3. SearchResult(n) = [i \in 1..m |-> published + 1 - i]
    BY DEF SearchResult, m
<1>4. ASSUME NEW v \in Tasks!Latest(n)
      PROVE  published + 1 - v \in 1..m /\ published + 1 - (published + 1 - v) = v
    BY <1>1, <1>2 DEF Tasks!Latest
<1>5. Tasks!Latest(n) \subseteq Range(SearchResult(n))
    BY <1>3, <1>4 DEF Range
<1>6. \A i \in 1..m : published + 1 - i \in Tasks!Latest(n)
    BY <1>1, <1>2 DEF Tasks!Latest
<1>7. Range(SearchResult(n)) \subseteq Tasks!Latest(n)
    BY <1>3, <1>6 DEF Range
<1>8. SearchResult(n) = <<>> <=> Range(SearchResult(n)) = {}
    <2>1. SearchResult(n) \in Seq(Int)
        BY <1>1, <1>2, <1>3
    <2>2. CASE SearchResult(n) # <<>>
        BY <2>1, <2>2, HeadTailRange
    <2>3. CASE SearchResult(n) = <<>>
        BY <2>3 DEF Range
    <2> QED BY <2>2, <2>3
<1> QED BY <1>5, <1>7, <1>8

\* The abstract variables stay when the task only moves between calls that the
\* abstract task does not have.
LEMMA BarStutters ==
    ASSUME IInv, NEW e \in Executors, NEW j, job' = [job EXCEPT ![e] = j],
           AbstractTask(j) = AbstractTask(job[e]), UNCHANGED <<published, queryDocs>>
    PROVE  UNCHANGED Tasks!taskVars
<1>1. TaskBar' = [TaskBar EXCEPT ![e] = AbstractTask(job[e])]
    BY OneTaskBar
<1>2. TaskBar' = TaskBar
    BY <1>1 DEF TaskBar
<1>3. AbstractDocs' = AbstractDocs
    BY DEF AbstractDocs
<1> QED BY <1>2, <1>3 DEF Tasks!taskVars, TaskBar

\* An exception aborts the abstract task.
LEMMA BarAborts ==
    ASSUME IInv, NEW e \in Executors, job[e] \in RunningTask, Raise(e), Faults # {},
           UNCHANGED <<published, queryDocs>>
    PROVE  Tasks!Abort(e)
<1>1. TaskBar' = [TaskBar EXCEPT ![e] = Tasks!NoTask]
    BY OneTaskBar, AbstractNoJob DEF Raise, Become, Tasks!NoTask
<1>2. AbstractTask(job[e]).pc # "idle"
    BY AbstractStages DEF RunningTask, Pc, Loop
<1>3. TaskBar[e].pc # "idle"
    BY <1>2 DEF TaskBar
<1>4. AbstractDocs' = AbstractDocs
    BY DEF AbstractDocs
<1> QED BY <1>1, <1>3, <1>4 DEF Tasks!Abort, Tasks!Doing, Tasks!SetTask, TaskBar

\* Every task begins like the abstract one.
LEMMA StartTaskBar ==
    ASSUME IInv, Shapes, NEW e \in Executors, NEW q \in Owners, NEW n \in 0..MaxResults,
           StartTask(e, q, n)
    PROVE  Shapes' /\ Tasks!StartTask(e, q, n)
<1>1. Task(q, n) \in RunningTask
    BY DEF Task, RunningTask, Pc
<1>2. TaskShape(Task(q, n))
    BY DEF TaskShape, Task, Loop, Writing
<1>3. AbstractTask(Task(q, n)) = [pc |-> "search", owner |-> q, n |-> n]
    BY <1>1, AbstractStages DEF Task
<1>4. job[e] = NoJob
    BY DEF StartTask, At, IInv, StateOK, Job, RunningTask
<1>5. TaskBar[e].pc = "idle"
    BY <1>4, AbstractNoJob DEF TaskBar
<1>6. TaskBar' = [TaskBar EXCEPT ![e] = [pc |-> "search", owner |-> q, n |-> n]]
    BY <1>3, OneTaskBar DEF StartTask, Become
<1>7. UNCHANGED <<published, AbstractDocs>>
    BY DEF StartTask, AbstractDocs
<1>8. Shapes'
    BY <1>2, OneShape DEF StartTask, Become
<1> QED BY <1>5, <1>6, <1>7, <1>8 DEF Tasks!StartTask, Tasks!Doing, Tasks!SetTask, TaskBar

\* YouTube's answer is the abstract one, or a fault that aborts the task.
LEMMA SearchVideosBar ==
    ASSUME IInv, Shapes, NEW e \in Executors, SearchVideos(e)
    PROVE  Shapes' /\ (Tasks!Search(e) \/ Tasks!Abort(e))
<1>1. job[e] \in RunningTask /\ job[e].pc = "search" /\ job[e].n \in 0..MaxResults
    BY Running DEF SearchVideos, At, RunningTask
<1>2. TaskShape(job[e])
    BY DEF Shapes
<1> DEFINE n == job[e].n
           After(items) == IF items = <<>> THEN NoJob
                           ELSE [job[e] EXCEPT !.pc = "details", !.todo = items]
<1>3. PICK items \in {SearchResult(n)} \cup (IF "api" \in Faults THEN {<<>>} ELSE {}) :
          job' = [job EXCEPT ![e] = After(items)]
    BY DEF SearchVideos, Become
<1>4. UNCHANGED <<published, queryDocs>> /\ AbstractDocs' = AbstractDocs
    BY DEF SearchVideos, AbstractDocs
<1>5. items = SearchResult(n) \/ (items = <<>> /\ Faults # {})
    BY <1>3
<1>6. CASE items = <<>>
    <2>1. Raise(e)
        BY <1>3, <1>6 DEF Raise, Become
    <2>2. Shapes'
        BY <2>1, OneShape, NoJobShape DEF Raise, Become
    <2>3. CASE Faults # {}
        BY <1>1, <1>4, <2>1, <2>2, <2>3, BarAborts
    <2>4. CASE items = SearchResult(n)
        <3>1. Tasks!Latest(n) = {}
            BY <1>1, <1>6, <2>4, SearchResultLatest
        <3>2. TaskBar[e].pc = "search" /\ TaskBar[e].n = n
            BY <1>1, AbstractStages DEF TaskBar
        <3>3. TaskBar' = [TaskBar EXCEPT ![e] = Tasks!NoTask]
            BY <2>1, OneTaskBar, AbstractNoJob DEF Raise, Become, Tasks!NoTask
        <3> QED BY <1>4, <2>2, <3>1, <3>2, <3>3
                DEF Tasks!Search, Tasks!Doing, Tasks!SetTask, TaskBar
    <2> QED BY <1>5, <2>3, <2>4
<1>7. CASE items # <<>>
    <2> DEFINE j == [job[e] EXCEPT !.pc = "details", !.todo = items]
    <2>1. items = SearchResult(n) /\ job' = [job EXCEPT ![e] = j]
        BY <1>3, <1>5, <1>7
    <2>2. Range(items) = Tasks!Latest(n) /\ Tasks!Latest(n) # {}
        BY <1>1, <1>7, <2>1, SearchResultLatest
    <2>3. items \in Seq(Videos)
        BY <1>1, <2>1, SearchResultType
    <2>4. j \in RunningTask
        BY <1>1, <2>3 DEF RunningTask, Pc
    <2>5. /\ j.pc = "details" /\ j.todo = items /\ j.owner = job[e].owner
          /\ j.doc = 0 /\ j.complete = <<>> /\ j.new = <<>>
        BY <1>1, <1>2 DEF TaskShape, RunningTask
    <2> HIDE DEF j
    <2>6. TaskShape(j)
        BY <2>5 DEF TaskShape, Loop, Writing
    <2>7. AbstractTask(j) = [pc |-> "find", owner |-> job[e].owner,
                             videos |-> Tasks!Latest(n), doc |-> 0]
        <3>1. Range(<<>>) = {}
            BY DEF Range
        <3> QED BY <2>2, <2>4, <2>5, <3>1, AbstractStages
    <2>8. Shapes'
        BY <2>1, <2>6, OneShape
    <2>9. TaskBar[e].pc = "search" /\ TaskBar[e].n = n /\ TaskBar[e].owner = job[e].owner
        BY <1>1, AbstractStages DEF TaskBar
    <2>10. TaskBar' = [TaskBar EXCEPT ![e] = [pc |-> "find", owner |-> TaskBar[e].owner,
                                             videos |-> Tasks!Latest(n), doc |-> 0]]
        BY <2>1, <2>7, <2>9, OneTaskBar
    <2> QED BY <1>4, <2>2, <2>8, <2>9, <2>10
            DEF Tasks!Search, Tasks!Doing, Tasks!SetTask, TaskBar
<1> QED BY <1>6, <1>7

\* What NextVideo makes of a task that has the videos of its answer in the
\* three lists, in whichever.
LEMMA NextVideoBar ==
    ASSUME NEW j \in RunningTask, j.doc = 0, Range(j.todo) \subseteq j.url \/ Faults # {}
    PROVE  /\ TaskShape(NextVideo(j))
           /\ AbstractTask(NextVideo(j))
                = [pc |-> "find", owner |-> j.owner, doc |-> 0,
                   videos |-> Range(j.todo) \cup Range(j.complete) \cup Range(j.new)]
<1> DEFINE k == NextVideo(j)
<1>1. k \in RunningTask
    BY DEF NextVideo, RunningTask, Pc
<1>2. /\ k.pc = IF j.todo = <<>> THEN "findQuery" ELSE "findVideo"
      /\ k.owner = j.owner /\ k.doc = 0 /\ k.url = j.url
      /\ k.todo = j.todo /\ k.complete = j.complete /\ k.new = j.new
    BY DEF NextVideo, RunningTask
<1> HIDE DEF k
<1>3. TaskShape(k)
    BY <1>2 DEF TaskShape, Loop, Writing
<1>4. AbstractTask(k) = [pc |-> "find", owner |-> j.owner, doc |-> 0,
                         videos |-> Range(j.todo) \cup Range(j.complete) \cup Range(j.new)]
    BY <1>1, <1>2, AbstractStages DEF Loop
<1> QED BY <1>3, <1>4 DEF k

\* The task at "find" as its lists have it.
LEMMA FindStage ==
    ASSUME IInv, Shapes, NEW e \in Executors, job[e].pc \in Loop \cup {"details", "findQuery"}
    PROVE  /\ job[e] \in RunningTask /\ TaskShape(job[e]) /\ job[e].doc = 0
           /\ AbstractTask(job[e])
                = [pc |-> "find", owner |-> job[e].owner, doc |-> 0,
                   videos |-> Range(job[e].todo) \cup Range(job[e].complete) \cup Range(job[e].new)]
<1>1. job[e] \in RunningTask /\ TaskShape(job[e])
    BY Running DEF Shapes, Loop
<1>2. job[e].doc = 0
    BY <1>1 DEF TaskShape, Loop
<1> QED BY <1>1, <1>2, AbstractStages

\* The details are nothing to the abstract task, unless they fail.
LEMMA GetDetailsBar ==
    ASSUME IInv, Shapes, NEW e \in Executors, GetDetails(e)
    PROVE  Shapes' /\ (UNCHANGED Tasks!taskVars \/ Tasks!Abort(e))
<1>1. /\ job[e] \in RunningTask /\ TaskShape(job[e]) /\ job[e].doc = 0
      /\ AbstractTask(job[e])
           = [pc |-> "find", owner |-> job[e].owner, doc |-> 0,
              videos |-> Range(job[e].todo) \cup Range(job[e].complete) \cup Range(job[e].new)]
    BY FindStage DEF GetDetails, At
<1>2. UNCHANGED <<published, queryDocs>>
    BY DEF GetDetails
<1>3. CASE Raise(e) /\ Faults # {}
    BY <1>1, <1>2, <1>3, BarAborts, OneShape, NoJobShape DEF Raise, Become
<1>4. ASSUME NEW got \in SUBSET Range(job[e].todo),
             got = Range(job[e].todo) \/ Faults # {},
             Become(e, NextVideo([job[e] EXCEPT !.url = got]))
      PROVE  Shapes' /\ UNCHANGED Tasks!taskVars
    <2> DEFINE j == [job[e] EXCEPT !.url = got]
    <2>1. got \subseteq Videos
        BY <1>1 DEF RunningTask, Range
    <2>2. j \in RunningTask
        BY <1>1, <2>1 DEF RunningTask
    <2>3. /\ j.doc = 0 /\ j.url = got /\ j.owner = job[e].owner
          /\ j.todo = job[e].todo /\ j.complete = job[e].complete /\ j.new = job[e].new
        BY <1>1 DEF RunningTask
    <2> HIDE DEF j
    <2>4. TaskShape(NextVideo(j)) /\ AbstractTask(NextVideo(j)) = AbstractTask(job[e])
        BY <1>1, <1>4, <2>2, <2>3, NextVideoBar
    <2>5. job' = [job EXCEPT ![e] = NextVideo(j)]
        BY <1>4 DEF Become, j
    <2> QED BY <1>2, <2>4, <2>5, OneShape, BarStutters
<1>5. \/ \E got \in SUBSET Range(job[e].todo) :
            /\ got = Range(job[e].todo) \/ Faults # {}
            /\ Become(e, NextVideo([job[e] EXCEPT !.url = got]))
      \/ Raise(e) /\ Faults # {}
    BY DEF GetDetails
<1> QED BY <1>3, <1>4, <1>5

\* A known video moves from one list to another; KeyError needs a fault.
LEMMA FindVideoBar ==
    ASSUME IInv, Shapes, NEW e \in Executors, FindVideo(e)
    PROVE  Shapes' /\ (UNCHANGED Tasks!taskVars \/ Tasks!Abort(e))
<1>1. /\ job[e] \in RunningTask /\ TaskShape(job[e]) /\ job[e].doc = 0
      /\ AbstractTask(job[e])
           = [pc |-> "find", owner |-> job[e].owner, doc |-> 0,
              videos |-> Range(job[e].todo) \cup Range(job[e].complete) \cup Range(job[e].new)]
    BY FindStage DEF FindVideo, At, Loop
<1>2. UNCHANGED <<published, queryDocs>>
    BY DEF FindVideo
<1> DEFINE v == Head(job[e].todo)
<1>3. /\ job[e].todo # <<>> /\ job[e].todo \in Seq(Videos) /\ job[e].complete \in Seq(Videos)
      /\ Range(job[e].todo) \subseteq job[e].url \/ Faults # {}
    BY <1>1, Running DEF FindVideo, At, TaskOK, TaskShape, Loop, RunningTask
<1>4. /\ v \in Videos /\ Tail(job[e].todo) \in Seq(Videos)
      /\ Range(job[e].todo) = {v} \cup Range(Tail(job[e].todo))
    BY <1>3, HeadTail, HeadTailRange
<1>5. CASE v \in youtubeData
    <2> DEFINE j == [job[e] EXCEPT !.complete = Append(@, v), !.todo = Tail(@)]
    <2>1. /\ Append(job[e].complete, v) \in Seq(Videos)
          /\ Range(Append(job[e].complete, v)) = Range(job[e].complete) \cup {v}
        BY <1>3, <1>4, AppendRange
    <2>2. j \in RunningTask
        BY <1>1, <1>4, <2>1 DEF RunningTask
    <2>3. /\ j.doc = 0 /\ j.url = job[e].url /\ j.owner = job[e].owner /\ j.new = job[e].new
          /\ j.todo = Tail(job[e].todo) /\ j.complete = Append(job[e].complete, v)
        BY <1>1 DEF RunningTask
    <2>4. job' = [job EXCEPT ![e] = NextVideo(j)]
        BY <1>5 DEF FindVideo, Become
    <2> HIDE DEF j
    <2>5. Range(j.todo) \cup Range(j.complete) \cup Range(j.new)
            = Range(job[e].todo) \cup Range(job[e].complete) \cup Range(job[e].new)
        BY <1>4, <2>1, <2>3
    <2>6. TaskShape(NextVideo(j)) /\ AbstractTask(NextVideo(j)) = AbstractTask(job[e])
        BY <1>1, <1>3, <1>4, <2>2, <2>3, <2>5, NextVideoBar
    <2> QED BY <1>2, <2>4, <2>6, OneShape, BarStutters
<1>6. CASE v \notin youtubeData /\ v \in job[e].url
    <2> DEFINE j == [job[e] EXCEPT !.pc = "saveVideo"]
    <2>1. j \in RunningTask
        BY <1>1 DEF RunningTask, Pc
    <2>2. /\ j.pc = "saveVideo" /\ j.doc = 0 /\ j.url = job[e].url /\ j.owner = job[e].owner
          /\ j.todo = job[e].todo /\ j.complete = job[e].complete /\ j.new = job[e].new
        BY <1>1 DEF RunningTask
    <2>3. job' = [job EXCEPT ![e] = j]
        BY <1>6 DEF FindVideo, Goto, Become
    <2> HIDE DEF j
    <2>4. TaskShape(j)
        BY <1>3, <2>2 DEF TaskShape, Loop, Writing
    <2>5. AbstractTask(j) = AbstractTask(job[e])
        BY <1>1, <2>1, <2>2, AbstractStages DEF Loop
    <2> QED BY <1>2, <2>3, <2>4, <2>5, OneShape, BarStutters
<1>7. CASE v \notin youtubeData /\ v \notin job[e].url
    <2>1. Faults # {}
        BY <1>3, <1>4, <1>7
    <2>2. Raise(e)
        BY <1>7 DEF FindVideo
    <2> QED BY <1>1, <1>2, <2>1, <2>2, BarAborts, OneShape, NoJobShape DEF Raise, Become
<1> QED BY <1>5, <1>6, <1>7

\* Storing a video is nothing to the abstract task, unless it raises.
LEMMA SaveVideoBar ==
    ASSUME IInv, Shapes, NEW e \in Executors, SaveVideo(e)
    PROVE  Shapes' /\ (UNCHANGED Tasks!taskVars \/ Tasks!Abort(e))
<1>1. /\ job[e] \in RunningTask /\ TaskShape(job[e]) /\ job[e].doc = 0
      /\ AbstractTask(job[e])
           = [pc |-> "find", owner |-> job[e].owner, doc |-> 0,
              videos |-> Range(job[e].todo) \cup Range(job[e].complete) \cup Range(job[e].new)]
    BY FindStage DEF SaveVideo, At, Loop
<1>2. UNCHANGED <<published, queryDocs>>
    BY DEF SaveVideo
<1>3. CASE Goto(e, "indexVideo")
    <2> DEFINE j == [job[e] EXCEPT !.pc = "indexVideo"]
    <2>1. j \in RunningTask
        BY <1>1 DEF RunningTask, Pc
    <2>2. /\ j.pc = "indexVideo" /\ j.doc = 0 /\ j.url = job[e].url /\ j.owner = job[e].owner
          /\ j.todo = job[e].todo /\ j.complete = job[e].complete /\ j.new = job[e].new
        BY <1>1 DEF RunningTask
    <2>3. job' = [job EXCEPT ![e] = j]
        BY <1>3 DEF Goto, Become
    <2>4. Range(job[e].todo) \subseteq job[e].url \/ Faults # {}
        BY <1>1 DEF TaskShape, Loop, SaveVideo, At
    <2> HIDE DEF j
    <2>5. TaskShape(j)
        BY <2>2, <2>4 DEF TaskShape, Loop, Writing
    <2>6. AbstractTask(j) = AbstractTask(job[e])
        BY <1>1, <2>1, <2>2, AbstractStages DEF Loop
    <2> QED BY <1>2, <2>3, <2>5, <2>6, OneShape, BarStutters
<1>4. CASE Raise(e) /\ Faults # {}
    BY <1>1, <1>2, <1>4, BarAborts, OneShape, NoJobShape DEF Raise, Become
<1> QED BY <1>3, <1>4 DEF SaveVideo

\* An indexed video moves from one list to another.
LEMMA IndexVideoBar ==
    ASSUME IInv, Shapes, NEW e \in Executors, IndexVideo(e)
    PROVE  Shapes' /\ (UNCHANGED Tasks!taskVars \/ Tasks!Abort(e))
<1>1. /\ job[e] \in RunningTask /\ TaskShape(job[e]) /\ job[e].doc = 0
      /\ AbstractTask(job[e])
           = [pc |-> "find", owner |-> job[e].owner, doc |-> 0,
              videos |-> Range(job[e].todo) \cup Range(job[e].complete) \cup Range(job[e].new)]
    BY FindStage DEF IndexVideo, At, Loop
<1>2. UNCHANGED <<published, queryDocs>>
    BY DEF IndexVideo
<1> DEFINE v == Head(job[e].todo)
           j == [job[e] EXCEPT !.new = Append(@, v), !.todo = Tail(@)]
<1>3. /\ job[e].todo # <<>> /\ job[e].todo \in Seq(Videos) /\ job[e].new \in Seq(Videos)
      /\ Range(job[e].todo) \subseteq job[e].url \/ Faults # {}
    BY <1>1, Running DEF IndexVideo, At, TaskOK, TaskShape, Loop, RunningTask
<1>4. /\ v \in Videos /\ Tail(job[e].todo) \in Seq(Videos)
      /\ Range(job[e].todo) = {v} \cup Range(Tail(job[e].todo))
    BY <1>3, HeadTail, HeadTailRange
<1>5. CASE Become(e, NextVideo(j))
    <2>1. /\ Append(job[e].new, v) \in Seq(Videos)
          /\ Range(Append(job[e].new, v)) = Range(job[e].new) \cup {v}
        BY <1>3, <1>4, AppendRange
    <2>2. j \in RunningTask
        BY <1>1, <1>4, <2>1 DEF RunningTask
    <2>3. /\ j.doc = 0 /\ j.url = job[e].url /\ j.owner = job[e].owner
          /\ j.todo = Tail(job[e].todo) /\ j.complete = job[e].complete
          /\ j.new = Append(job[e].new, v)
        BY <1>1 DEF RunningTask
    <2> HIDE DEF j
    <2>4. Range(j.todo) \cup Range(j.complete) \cup Range(j.new)
            = Range(job[e].todo) \cup Range(job[e].complete) \cup Range(job[e].new)
        BY <1>4, <2>1, <2>3
    <2>5. TaskShape(NextVideo(j)) /\ AbstractTask(NextVideo(j)) = AbstractTask(job[e])
        BY <1>1, <1>3, <1>4, <2>2, <2>3, <2>4, NextVideoBar
    <2> QED BY <1>2, <1>5, <2>5, OneShape, BarStutters DEF Become
<1>6. CASE Raise(e) /\ Faults # {}
    BY <1>1, <1>2, <1>6, BarAborts, OneShape, NoJobShape DEF Raise, Become
<1> QED BY <1>5, <1>6 DEF IndexVideo

\* The documents of a query are the same on both levels.
LEMMA SameDocs == ASSUME NEW q PROVE Tasks!DocsOf(q) = DocsOf(q)
BY DEF Tasks!DocsOf, DocsOf, AbstractDocs

\* The two look-ups find the same document, and what the task will store is
\* now all in complete_list_videos.
LEMMA FindQueryBar ==
    ASSUME IInv, Shapes, NEW e \in Executors, FindQuery(e)
    PROVE  Shapes' /\ Tasks!FindQuery(e)
<1>1. /\ job[e] \in RunningTask /\ TaskShape(job[e]) /\ job[e].doc = 0
      /\ AbstractTask(job[e])
           = [pc |-> "find", owner |-> job[e].owner, doc |-> 0,
              videos |-> Range(job[e].todo) \cup Range(job[e].complete) \cup Range(job[e].new)]
    BY FindStage DEF FindQuery, At, Loop
<1>2. UNCHANGED <<published, queryDocs>> /\ AbstractDocs' = AbstractDocs
    BY DEF FindQuery, AbstractDocs
<1> DEFINE all == job[e].complete \o job[e].new
           j == [job[e] EXCEPT !.complete = all]
           docs == DocsOf(job[e].owner)
           first == CHOOSE i \in docs : \A k \in docs : i <= k
           created == [j EXCEPT !.pc = "createQuery"]
           replaced == [j EXCEPT !.pc = "replaceQuery", !.doc = first]
           videos == Range(job[e].todo) \cup Range(job[e].complete) \cup Range(job[e].new)
<1>3. /\ all \in Seq(Videos) /\ Range(all) = Range(job[e].complete) \cup Range(job[e].new)
      /\ job[e].todo = <<>>
    BY <1>1, ConcatRange DEF RunningTask, TaskShape, FindQuery, At
<1>4. j \in RunningTask /\ j.owner = job[e].owner
    BY <1>1, <1>3 DEF RunningTask
<1>5. docs # {} => first \in Nat
    <2>1. docs \subseteq Nat
        BY DEF DocsOf, IInv, StateOK
    <2>2. docs # {} => \E i \in docs : \A k \in docs : i <= k
        BY <2>1, LeastElement
    <2> QED BY <2>1, <2>2
<1>6. job' = [job EXCEPT ![e] = IF docs = {} THEN created ELSE replaced]
    BY <1>4 DEF FindQuery, Become
<1>7. TaskBar[e] = [pc |-> "find", owner |-> job[e].owner, doc |-> 0, videos |-> videos]
    BY <1>1 DEF TaskBar
<1>8. Tasks!DocsOf(TaskBar[e].owner) = docs
    BY <1>7, SameDocs
<1> HIDE DEF first, docs, all
<1>9. /\ created.pc = "createQuery" /\ created.owner = job[e].owner /\ created.doc = 0
      /\ created.todo = <<>> /\ created.complete = all /\ created.new = job[e].new
    BY <1>1, <1>3 DEF RunningTask
<1>10. /\ replaced.pc = "replaceQuery" /\ replaced.owner = job[e].owner /\ replaced.doc = first
       /\ replaced.todo = <<>> /\ replaced.complete = all /\ replaced.new = job[e].new
    BY <1>1, <1>3 DEF RunningTask
<1>11. created \in RunningTask
    BY <1>4 DEF RunningTask, Pc
<1>12. docs # {} => replaced \in RunningTask
    BY <1>4, <1>5 DEF RunningTask, Pc
<1> HIDE DEF created, replaced, j
<1>13. Range(<<>>) \cup Range(all) \cup Range(job[e].new) = videos
    BY <1>3
<1> HIDE DEF videos
<1>14. CASE docs = {}
    <2>1. TaskShape(created)
        BY <1>3, <1>9 DEF TaskShape, Loop, Writing
    <2>2. AbstractTask(created) = [pc |-> "create", owner |-> job[e].owner, doc |-> 0, videos |-> videos]
        BY <1>9, <1>11, <1>13, AbstractStages
    <2>3. job' = [job EXCEPT ![e] = created]
        BY <1>6, <1>14
    <2>4. Shapes'
        BY <2>1, <2>3, OneShape
    <2>5. TaskBar' = [TaskBar EXCEPT ![e] = [TaskBar[e] EXCEPT !.pc = "create"]]
        <3>1. [TaskBar[e] EXCEPT !.pc = "create"] = AbstractTask(created)
            BY <1>7, <2>2
        <3>2. TaskBar' = [TaskBar EXCEPT ![e] = AbstractTask(created)]
            BY <2>3, OneTaskBar
        <3> QED BY <3>1, <3>2, Zenon
    <2> QED BY <1>2, <1>7, <1>8, <1>14, <2>4, <2>5
            DEF Tasks!FindQuery, Tasks!Doing, Tasks!SetTask, TaskBar
<1>15. CASE docs # {}
    <2>1. TaskShape(replaced)
        BY <1>3, <1>10 DEF TaskShape, Loop, Writing
    <2>2. AbstractTask(replaced) = [pc |-> "replace", owner |-> job[e].owner, doc |-> first, videos |-> videos]
        BY <1>10, <1>12, <1>13, <1>15, AbstractStages
    <2>3. job' = [job EXCEPT ![e] = replaced]
        BY <1>6, <1>15
    <2>4. Shapes'
        BY <2>1, <2>3, OneShape
    <2>5. TaskBar' = [TaskBar EXCEPT ![e] = [TaskBar[e] EXCEPT !.pc = "replace", !.doc = first]]
        <3>1. [TaskBar[e] EXCEPT !.pc = "replace", !.doc = first] = AbstractTask(replaced)
            <4> DEFINE found == [TaskBar[e] EXCEPT !.pc = "replace"]
            <4>1. found = [pc |-> "replace", owner |-> job[e].owner, doc |-> 0, videos |-> videos]
                BY <1>7
            <4> HIDE DEF found
            <4>2. [found EXCEPT !.doc = first]
                    = [pc |-> "replace", owner |-> job[e].owner, doc |-> first, videos |-> videos]
                BY <4>1
            <4> QED BY <2>2, <4>2, Zenon DEF found
        <3>2. TaskBar' = [TaskBar EXCEPT ![e] = AbstractTask(replaced)]
            BY <2>3, OneTaskBar
        <3> QED BY <3>1, <3>2, Zenon
    <2>6. TaskBar[e].pc = "find"
        BY <1>7
    <2> QED BY <1>2, <1>8, <1>15, <2>4, <2>5, <2>6
            DEF Tasks!FindQuery, Tasks!Doing, Tasks!SetTask, TaskBar, first
<1> QED BY <1>14, <1>15

\* The document gets the videos of the answer, all of them and no others.
LEMMA ReplaceQueryBar ==
    ASSUME IInv, Shapes, NEW e \in Executors, ReplaceQuery(e)
    PROVE  Shapes' /\ Tasks!ReplaceQuery(e)
<1>1. job[e] \in RunningTask /\ TaskOK(job[e], youtubeData, DOMAIN queryDocs) /\ TaskShape(job[e])
    BY Running DEF ReplaceQuery, At, Shapes
<1> DEFINE d == job[e].doc
           all == job[e].complete
<1>2. d \in DOMAIN queryDocs /\ job[e].todo = <<>> /\ Range(job[e].new) \subseteq Range(all)
    BY <1>1 DEF TaskOK, TaskShape, Writing, ReplaceQuery, At
<1>3. Range(job[e].todo) \cup Range(all) \cup Range(job[e].new) = Range(all)
    <2>1. Range(<<>>) = {}
        BY DEF Range
    <2> QED BY <1>2, <2>1
<1>4. TaskBar[e].pc = "replace" /\ TaskBar[e].doc = d /\ TaskBar[e].videos = Range(all)
    <2>1. AbstractTask(job[e]) = [pc |-> "replace", owner |-> job[e].owner, doc |-> d,
                                  videos |-> Range(all)]
        BY <1>1, <1>3, AbstractStages DEF ReplaceQuery, At
    <2> QED BY <2>1 DEF TaskBar
<1>5. TaskBar' = [TaskBar EXCEPT ![e] = Tasks!NoTask]
    BY OneTaskBar, AbstractNoJob DEF ReplaceQuery, Become, Tasks!NoTask
<1>6. AbstractDocs' = [AbstractDocs EXCEPT ![d].videos = Range(all)]
    <2>1. queryDocs' = [queryDocs EXCEPT ![d] = [@ EXCEPT !.videos = all]]
        BY DEF ReplaceQuery
    <2>2. queryDocs \in Seq(QueryDoc) /\ queryDocs[d] \in QueryDoc
        BY <1>2 DEF IInv, StateOK
    <2>3. /\ [queryDocs[d] EXCEPT !.videos = all].owner = queryDocs[d].owner
          /\ [queryDocs[d] EXCEPT !.videos = all].videos = all
        BY <2>2 DEF QueryDoc
    <2>4. /\ DOMAIN queryDocs' = DOMAIN queryDocs
          /\ \A i \in DOMAIN queryDocs : i # d => queryDocs'[i] = queryDocs[i]
          /\ queryDocs'[d].owner = queryDocs[d].owner /\ queryDocs'[d].videos = all
        BY <1>2, <2>1, <2>2, <2>3
    <2>5. AbstractDocs' = [i \in DOMAIN queryDocs |->
                             [owner |-> queryDocs'[i].owner, videos |-> Range(queryDocs'[i].videos)]]
        BY <2>4 DEF AbstractDocs
    <2>6. \A i \in DOMAIN queryDocs : i # d =>
              [owner |-> queryDocs'[i].owner, videos |-> Range(queryDocs'[i].videos)]
                = AbstractDocs[i]
        BY <2>4 DEF AbstractDocs
    <2>7. [owner |-> queryDocs'[d].owner, videos |-> Range(queryDocs'[d].videos)]
            = [AbstractDocs[d] EXCEPT !.videos = Range(all)]
        BY <1>2, <2>4 DEF AbstractDocs
    <2>8. DOMAIN AbstractDocs = DOMAIN queryDocs /\ AbstractDocs = [i \in DOMAIN queryDocs |-> AbstractDocs[i]]
        BY DEF AbstractDocs
    <2> QED BY <1>2, <2>5, <2>6, <2>7, <2>8
<1>7. Shapes'
    BY OneShape, NoJobShape DEF ReplaceQuery, Become
<1>8. UNCHANGED published
    BY DEF ReplaceQuery
<1> QED BY <1>4, <1>5, <1>6, <1>7, <1>8
        DEF Tasks!ReplaceQuery, Tasks!Doing, Tasks!SetTask, TaskBar

\* The same for a new document.
LEMMA CreateQueryBar ==
    ASSUME IInv, Shapes, NEW e \in Executors, CreateQuery(e)
    PROVE  Shapes' /\ Tasks!CreateQuery(e)
<1>1. job[e] \in RunningTask /\ TaskShape(job[e])
    BY Running DEF CreateQuery, At, Shapes
<1> DEFINE all == job[e].complete
           new == [owner |-> job[e].owner, videos |-> all]
           newBar == [owner |-> job[e].owner, videos |-> Range(all)]
<1>2. job[e].todo = <<>> /\ Range(job[e].new) \subseteq Range(all)
    BY <1>1 DEF TaskShape, Writing, CreateQuery, At
<1>3. Range(job[e].todo) \cup Range(all) \cup Range(job[e].new) = Range(all)
    <2>1. Range(<<>>) = {}
        BY DEF Range
    <2> QED BY <1>2, <2>1
<1>4. TaskBar[e].pc = "create" /\ TaskBar[e].owner = job[e].owner /\ TaskBar[e].videos = Range(all)
    <2>1. AbstractTask(job[e]) = [pc |-> "create", owner |-> job[e].owner, doc |-> job[e].doc,
                                  videos |-> Range(all)]
        BY <1>1, <1>3, AbstractStages DEF CreateQuery, At
    <2> QED BY <2>1 DEF TaskBar
<1>5. TaskBar' = [TaskBar EXCEPT ![e] = Tasks!NoTask]
    BY OneTaskBar, AbstractNoJob DEF CreateQuery, Become, Tasks!NoTask
<1>6. AbstractDocs' = Append(AbstractDocs, newBar)
    <2>1. queryDocs \in Seq(QueryDoc) /\ new \in QueryDoc /\ queryDocs' = Append(queryDocs, new)
        BY <1>1 DEF CreateQuery, IInv, StateOK, RunningTask, QueryDoc
    <2> DEFINE n == Len(queryDocs)
    <2>2. new.owner = job[e].owner /\ new.videos = all
        OBVIOUS
    <2> HIDE DEF new
    <2>3. /\ n \in Nat /\ DOMAIN queryDocs = 1..n /\ DOMAIN queryDocs' = 1..(n + 1)
          /\ \A i \in 1..n : queryDocs'[i] = queryDocs[i]
          /\ queryDocs'[n + 1] = new
        BY <2>1
    <2>4. AbstractDocs' = [i \in 1..(n + 1) |->
                             [owner |-> queryDocs'[i].owner, videos |-> Range(queryDocs'[i].videos)]]
        BY <2>3 DEF AbstractDocs
    <2> DEFINE S == [owner : Owners, videos : SUBSET Videos]
               D == [i \in 1..n |-> [owner |-> queryDocs[i].owner, videos |-> Range(queryDocs[i].videos)]]
    <2>5. AbstractDocs = D
        BY <2>3 DEF AbstractDocs
    <2>6. \A i \in 1..n : [owner |-> queryDocs[i].owner, videos |-> Range(queryDocs[i].videos)] \in S
        <3> SUFFICES ASSUME NEW i \in 1..n
                     PROVE  queryDocs[i].owner \in Owners /\ Range(queryDocs[i].videos) \subseteq Videos
            OBVIOUS
        <3>1. queryDocs[i] \in QueryDoc
            BY <2>1, <2>3
        <3> QED BY <3>1 DEF QueryDoc, Range
    <2> HIDE DEF n
    <2>7. D \in Seq(S) /\ Len(D) = n
        BY <2>3, <2>6
    <2>8. newBar \in S
        BY <1>1 DEF RunningTask, Range
    <2> HIDE DEF newBar, S
    <2>9. Append(D, newBar) = [i \in 1..(n + 1) |-> IF i = n + 1 THEN newBar ELSE D[i]]
        BY <2>3, <2>7, <2>8
    <2>10. \A i \in 1..(n + 1) :
              [owner |-> queryDocs'[i].owner, videos |-> Range(queryDocs'[i].videos)]
                = IF i = n + 1 THEN newBar ELSE D[i]
        BY <2>2, <2>3 DEF newBar
    <2> HIDE DEF D
    <2> QED BY <2>4, <2>5, <2>9, <2>10
<1>7. Shapes'
    BY OneShape, NoJobShape DEF CreateQuery, Become
<1>8. UNCHANGED published
    BY DEF CreateQuery
<1> QED BY <1>4, <1>5, <1>6, <1>7, <1>8
        DEF Tasks!CreateQuery, Tasks!Doing, Tasks!SetTask, TaskBar

\* Every step is a step of QueryTasks or leaves its variables alone.
LEMMA StepImplements ==
    ASSUME IInv, Shapes, [Next]_vars
    PROVE  Shapes' /\ [Tasks!Next]_(Tasks!taskVars)
<1>1. ASSUME NEW e \in Executors, NEW q \in Owners, NEW n \in 0..MaxResults, StartTask(e, q, n)
      PROVE  Shapes' /\ Tasks!Next
    BY <1>1, StartTaskBar DEF Tasks!Next
<1>2. ASSUME NEW e \in Executors, Step(e)
      PROVE  Shapes' /\ [Tasks!Next]_(Tasks!taskVars)
    <2>1. Shapes' /\ (Tasks!Step(e) \/ Tasks!Abort(e) \/ UNCHANGED Tasks!taskVars)
        BY <1>2, SearchVideosBar, GetDetailsBar, FindVideoBar, SaveVideoBar, IndexVideoBar,
           FindQueryBar, ReplaceQueryBar, CreateQueryBar DEF Step, Tasks!Step
    <2> QED BY <2>1 DEF Tasks!Next
<1>3. ASSUME NEW e \in Executors, Crash(e)
      PROVE  Shapes' /\ Tasks!Next
    <2>1. Raise(e) /\ Faults # {} /\ UNCHANGED <<published, queryDocs>> /\ job[e] \in RunningTask
        BY <1>3, Running DEF Crash, At
    <2> QED BY <2>1, BarAborts, OneShape, NoJobShape DEF Raise, Become, Tasks!Next
<1>4. CASE Publish
    <2>1. AbstractDocs' = AbstractDocs /\ TaskBar' = TaskBar /\ Shapes'
        BY <1>4 DEF Publish, AbstractDocs, TaskBar, Shapes
    <2> QED BY <1>4, <2>1 DEF Publish, Tasks!Publish, Tasks!Next, TaskBar
<1>5. CASE UNCHANGED vars
    <2>1. AbstractDocs' = AbstractDocs /\ TaskBar' = TaskBar /\ Shapes'
        BY <1>5 DEF vars, AbstractDocs, TaskBar, Shapes
    <2> QED BY <1>5, <2>1 DEF vars, Tasks!taskVars, TaskBar
<1> QED BY <1>1, <1>2, <1>3, <1>4, <1>5 DEF Next

\* fetch_youtube_data and insert_into_database together are a task of
\* QueryTasks, for any number of executors and under any of the faults.
THEOREM Implementation == Spec => ImplementsQueryTasks
<1>1. Init => IInv /\ Shapes
    BY InitOK, NoJobShape DEF Init, Shapes
<1>2. IInv /\ Shapes /\ [Next]_vars => (IInv /\ Shapes)'
    BY Inductive, StepImplements
<1>3. Init => Tasks!Init
    <2> SUFFICES ASSUME Init PROVE Tasks!Init
        OBVIOUS
    <2>1. AbstractDocs = <<>>
        BY DEF Init, AbstractDocs
    <2>2. TaskBar = [e \in Executors |-> Tasks!NoTask]
        BY AbstractNoJob DEF Init, TaskBar, Tasks!NoTask
    <2> QED BY <2>1, <2>2 DEF Init, Tasks!Init, TaskBar
<1>4. IInv /\ Shapes /\ [Next]_vars => [Tasks!Next]_(Tasks!taskVars)
    BY StepImplements
<1> QED BY <1>1, <1>2, <1>3, <1>4, PTL DEF Spec, ImplementsQueryTasks, Tasks!Spec

=============================================================================
