--------------------------- MODULE MCSearchViews ---------------------------
(***************************************************************************)
(* Instances of SearchViews for TLC.  The inputs, which are requests of    *)
(* clients and videos that YouTube publishes, are bounded in one of two    *)
(* ways: no other step leads out of the bounds, so that the fairness of    *)
(* the steps asks for nothing that the bounds forbid.                      *)
(***************************************************************************)
EXTENDS SearchViews

\* The queries that have documents or tasks.
InUse ==
    {queryDocs[i].owner : i \in DOMAIN queryDocs} \cup {pending[i].owner : i \in DOMAIN pending}
    \cup {task[e].owner : e \in {e \in Executors : ~Doing(e, "idle")}}

\* One query, with all that its reader can meet, and a queue of one task.
ReaderBound ==
    /\ InUse \subseteq {Topic}
    /\ Len(pending) <= 1
    /\ bulk = [t \in Threads |-> NoBulk]
    /\ asked = {}

\* All queries and the whole queue, with one video.
BulkBound ==
    /\ reader.limit = 2
    /\ published <= 1
    /\ \A i \in DOMAIN pending : pending[i].n = MaxResults

BoundedSpec ==
    ViewsInit /\ [][ViewsNext /\ (ReaderBound \/ BulkBound)']_allVars /\ ViewsFairness
=============================================================================
