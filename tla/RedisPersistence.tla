-------------------------- MODULE RedisPersistence --------------------------
(***************************************************************************)
(* How the Redis server keeps its dataset (rdb.c, server.c): SAVE and      *)
(* SHUTDOWN write dump.rdb themselves, BGSAVE and the save points of       *)
(* serverCron fork a child that does, and the server counts in dirty how   *)
(* many changes the dump lacks.  The append only file is off, as in        *)
(* redis.conf, so the child that saves is the only kind of child.          *)
(*                                                                         *)
(* A dataset is the set of the writes that led to it.  rdbSave writes a    *)
(* temporary file and renames it over the dump when it is complete and     *)
(* synced, so that a dump is a dataset too.  Expired keys count neither as *)
(* changes nor as part of a dump: loading drops them.  Times are left out: *)
(* that a save point's seconds or the delay of a retry pass is fairness.   *)
(***************************************************************************)
EXTENDS Integers, FiniteSets

CONSTANTS
    SaveChanges,   \* the changes of the first save point (1 by default)
    MaxWrites,     \* bound on the writes
    MaxFaults      \* bound on the crashes and on the calls that fail

ASSUME PersistenceAssumption ==
    /\ SaveChanges \in Nat \ {0}
    /\ MaxWrites \in Nat
    /\ MaxFaults \in Nat

VARIABLES
    up,            \* the server is running
    data,          \* the dataset in its memory
    dirty,         \* server.dirty
    dirtyBefore,   \* server.dirty_before_bgsave
    status,        \* server.lastbgsave_status
    child,         \* the child that saves, until the server has waited for it
    file,          \* the dataset in dump.rdb
    orphans,       \* the datasets that children of killed servers are saving
    writes,        \* the number of writes so far
    faults,        \* the number of faults so far
    saved,         \* history: the dataset of the latest save known to be good
    overwritten    \* history: the dump is what an orphan left behind

server == <<up, data, dirty, dirtyBefore, status, child>>
history == <<saved, overwritten>>
vars == <<server, file, orphans, writes, faults, history>>

Writes == 1..MaxWrites

\* A child is saving, or has renamed the file and goes on to exit; or it has
\* ended: with 0, with 1, by an ordinary signal, or by SIGUSR1, with which
\* killRDBChild ends it.
NoChild == [exit |-> "none", snap |-> {}]
Saving(snap) == [exit |-> "saving", snap |-> snap]
ChildRuns == child.exit \in {"saving", "renamed"}

\* The state of a process that is not running, or that initServer has set up.
Memory(running, dataset) ==
    /\ up' = running
    /\ data' = dataset
    /\ dirty' = 0
    /\ dirtyBefore' = 0
    /\ status' = "ok"
    /\ child' = NoChild

Fault == faults < MaxFaults /\ faults' = faults + 1

Init ==
    /\ up = TRUE
    /\ data = {}
    /\ dirty = 0
    /\ dirtyBefore = 0
    /\ status = "ok"
    /\ child = NoChild
    /\ file = {}
    /\ orphans = {}
    /\ writes = 0
    /\ faults = 0
    /\ saved = {}
    /\ overwritten = FALSE

\* A write command, which processCommand rejects after a failed save
\* (writeCommandsDeniedByDiskError).
WriteCommand ==
    /\ up
    /\ status = "ok"
    /\ writes < MaxWrites
    /\ writes' = writes + 1
    /\ data' = data \cup {writes + 1}
    /\ dirty' = dirty + 1
    /\ UNCHANGED <<up, dirtyBefore, status, child, file, orphans, faults, history>>

-----------------------------------------------------------------------------
(* Saving *)

\* The end of rdbSave in the server's own process: the rename succeeded.
RdbSaveDone ==
    /\ file' = data
    /\ saved' = data
    /\ overwritten' = FALSE

\* Mutation: a save that is under way does not matter.
SaveCommandAnytime ==
    /\ up
    /\ RdbSaveDone
    /\ dirty' = 0
    /\ status' = "ok"
    /\ UNCHANGED <<up, data, dirtyBefore, child, orphans, writes, faults>>

\* SAVE, refused while a child saves.  It may fail, which changes nothing.
SaveCommand ==
    /\ up
    /\ child = NoChild
    /\ RdbSaveDone
    /\ dirty' = 0
    /\ status' = "ok"
    /\ UNCHANGED <<up, data, dirtyBefore, child, orphans, writes, faults>>

\* rdbSaveBackground: the child has a copy of the dataset, or fork fails.
RdbSaveBackground ==
    /\ up
    /\ child = NoChild
    /\ dirtyBefore' = dirty
    /\ \/ /\ child' = Saving(data)
          /\ UNCHANGED <<status, faults>>
       \/ /\ Fault
          /\ status' = "err"
          /\ UNCHANGED child
    /\ UNCHANGED <<up, data, dirty, file, orphans, writes, history>>

\* BGSAVE
BgsaveCommand == RdbSaveBackground

\* Mutation: no retry after a failed save.
SavePointsOnce == dirty >= SaveChanges /\ status = "ok" /\ RdbSaveBackground

\* serverCron, when a save point is reached; after a failed save it waits for
\* CONFIG_BGSAVE_RETRY_DELAY.
SavePoints == dirty >= SaveChanges /\ RdbSaveBackground

\* The child has written the temporary file and renames it.
ChildRenames ==
    /\ child.exit = "saving"
    /\ child' = [child EXCEPT !.exit = "renamed"]
    /\ file' = child.snap
    /\ overwritten' = FALSE
    /\ UNCHANGED <<up, data, dirty, dirtyBefore, status, orphans, writes, faults, saved>>

\* It reports to the server (sendChildCowInfo) and exits.
ChildExits ==
    /\ child.exit = "renamed"
    /\ child' = [child EXCEPT !.exit = "0"]
    /\ UNCHANGED <<up, data, dirty, dirtyBefore, status, file, orphans, writes, faults, history>>

\* A write error, or a signal such as that of the kernel short of memory, which
\* may come after the rename too.
ChildFails ==
    /\ ChildRuns
    /\ Fault
    /\ \E exit \in IF child.exit = "saving" THEN {"1", "signal"} ELSE {"signal"} :
          child' = [child EXCEPT !.exit = exit]
    /\ UNCHANGED <<up, data, dirty, dirtyBefore, status, file, orphans, writes, history>>

\* Mutation: everything counts as saved, as after SAVE.
CheckChildrenDoneAll ==
    /\ child # NoChild /\ ~ChildRuns
    /\ child' = NoChild
    /\ IF child.exit = "0"
       THEN dirty' = 0 /\ status' = "ok" /\ saved' = child.snap
       ELSE /\ status' = IF child.exit = "usr1" THEN status ELSE "err"
            /\ UNCHANGED <<dirty, saved>>
    /\ UNCHANGED <<up, data, dirtyBefore, file, orphans, writes, faults, overwritten>>

\* checkChildrenDone and backgroundSaveDoneHandler
CheckChildrenDone ==
    /\ child # NoChild /\ ~ChildRuns
    /\ child' = NoChild
    /\ IF child.exit = "0"
       THEN dirty' = dirty - dirtyBefore /\ status' = "ok" /\ saved' = child.snap
       ELSE /\ status' = IF child.exit = "usr1" THEN status ELSE "err"
            /\ UNCHANGED <<dirty, saved>>
    /\ UNCHANGED <<up, data, dirtyBefore, file, orphans, writes, faults, overwritten>>

-----------------------------------------------------------------------------
(* The end of the process, and its start *)

\* SHUTDOWN or SIGTERM: the child is killed, and the server saves and exits.
Shutdown ==
    /\ up
    /\ RdbSaveDone
    /\ Memory(FALSE, {})
    /\ UNCHANGED <<orphans, writes, faults>>

\* If that save fails, the server stays.
ShutdownFails ==
    /\ up
    /\ Fault
    /\ child' = IF ChildRuns THEN [child EXCEPT !.exit = "usr1"] ELSE child
    /\ UNCHANGED <<up, data, dirty, dirtyBefore, status, file, orphans, writes, history>>

\* The server is killed.  Its child is not, and never looks for its parent:
\* sendChildInfoGeneric ignores that nobody reads the pipe any more.
Crash ==
    /\ up
    /\ Fault
    /\ Memory(FALSE, {})
    /\ orphans' = IF child.exit = "saving" THEN orphans \cup {child.snap} ELSE orphans
    /\ UNCHANGED <<file, writes, history>>

\* An orphan renames its file, or dies.
OrphanEnds(snap) ==
    /\ orphans' = orphans \ {snap}
    /\ \/ file' = snap /\ overwritten' = TRUE
       \/ UNCHANGED <<file, overwritten>>
    /\ UNCHANGED <<server, writes, faults, saved>>

\* loadDataFromDisk: what the dump lacks is lost now.
Restart ==
    /\ ~up
    /\ Memory(TRUE, file)
    /\ saved' = file
    /\ overwritten' = FALSE
    /\ UNCHANGED <<file, orphans, writes, faults>>

Next ==
    \/ WriteCommand
    \/ SaveCommand
    \/ BgsaveCommand
    \/ SavePoints
    \/ ChildRenames
    \/ ChildExits
    \/ ChildFails
    \/ CheckChildrenDone
    \/ Shutdown
    \/ ShutdownFails
    \/ Crash
    \/ \E snap \in orphans : OrphanEnds(snap)
    \/ Restart

\* serverCron runs for as long as the server does, and a child carries on.
Spec ==
    /\ Init /\ [][Next]_vars
    /\ WF_vars(SavePoints)
    /\ WF_vars(ChildRenames)
    /\ WF_vars(ChildExits)
    /\ WF_vars(CheckChildrenDone)

-----------------------------------------------------------------------------
(* Properties *)

\* The variables have the types the comments at their declaration give.
TypeOK ==
    /\ up \in BOOLEAN
    /\ data \subseteq Writes /\ file \subseteq Writes /\ saved \subseteq Writes
    /\ dirty \in Nat
    /\ dirtyBefore \in Nat
    /\ status \in {"ok", "err"}
    /\ child \in [exit : {"none", "saving", "renamed", "0", "1", "signal", "usr1"}, snap : SUBSET Writes]
    /\ orphans \subseteq SUBSET Writes
    /\ writes \in 0..MaxWrites
    /\ faults \in 0..MaxFaults
    /\ overwritten \in BOOLEAN

\* What was saved stays saved: the dump holds every write of the latest save
\* that the server reported (by the reply to SAVE, by "Background saving
\* terminated with success", or by exiting), whatever child was saving at the
\* time and whenever the server was killed.  Only the orphan of a killed
\* server can replace it by something older.
SavedWritesKept == ~overwritten => saved \subseteq file

\* dirty, on which the save points rely, is the number of writes that came
\* after the latest save known to be good, also when writes went on during that
\* save, and after saves that failed or were killed on either side of the rename.
DirtyCountsUnsaved == up => dirty = Cardinality(data \ saved)

\* Once a save point is reached, every write comes to be in the dump, unless
\* the server is killed first or an orphan replaces the dump.  (Nothing makes
\* up for that: dirty may be 0 then.)
WritesReachDump ==
    \A w \in Writes :
        w \in data /\ dirty >= SaveChanges ~> w \in file \/ w \notin data \/ overwritten

\* Writes that are refused because a save failed are accepted again, as
\* redis.conf says: the save points keep on trying.  (A BGSAVE by hand that
\* fails with fewer changes than a save point needs is not retried.)
WritesResume ==
    status = "err" /\ dirty >= SaveChanges ~> status = "ok"

=============================================================================
