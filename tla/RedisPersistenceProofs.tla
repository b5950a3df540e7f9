----------------------- MODULE RedisPersistenceProofs -----------------------
(***************************************************************************)
(* Proofs about module RedisPersistence, for any number of writes and of   *)
(* faults: type correctness, that the dump keeps what was saved, and that  *)
(* dirty counts what came after the latest save.                           *)
(*                                                                         *)
(* The dump can lose what was saved only by a rename, and the child that   *)
(* renames was forked earlier.  So SaveInv says of the child's copy that   *)
(* it lies between the latest good save and the memory, from the fork      *)
(* until the handler has run: no save can overtake the child.  DirtyInv    *)
(* adds the numbers; that dirty stays a natural number is a consequence.   *)
(***************************************************************************)
EXTENDS RedisPersistence, FiniteSetTheorems, TLAPS

\* The variables other than the counters of changes.
Shape ==
    /\ up \in BOOLEAN
    /\ status \in {"ok", "err"}
    /\ child \in [exit : {"none", "saving", "renamed", "0", "1", "signal", "usr1"}, snap : SUBSET Writes]
    /\ writes \in 0..MaxWrites
    /\ faults \in 0..MaxFaults
    /\ overwritten \in BOOLEAN

\* Every dataset consists of writes that have happened.
OnlyPastWrites ==
    /\ data \subseteq 1..writes
    /\ file \subseteq 1..writes
    /\ saved \subseteq 1..writes
    /\ child.snap \subseteq 1..writes
    /\ orphans \subseteq SUBSET (1..writes)

\* The child's copy can still become the latest good save.
Live == child.exit \in {"saving", "renamed", "0"}

\* A child belongs to a server that runs, and no save has overtaken it.
CopyBetween ==
    /\ ~up => child = NoChild
    /\ up => saved \subseteq data
    /\ Live => saved \subseteq child.snap /\ child.snap \subseteq data

\* A child that has renamed its file left it in place.
RenamedInPlace ==
    child.exit \in {"renamed", "0"} /\ ~overwritten => file = child.snap

SaveInv == Shape /\ OnlyPastWrites /\ CopyBetween /\ RenamedInPlace /\ SavedWritesKept

\* What dirty will be when the child has succeeded.
DirtySinceFork == Live => dirty - dirtyBefore = Cardinality(data \ child.snap)

DirtyInv ==
    /\ dirty \in Nat
    /\ dirtyBefore \in Nat
    /\ DirtyCountsUnsaved
    /\ DirtySinceFork

-----------------------------------------------------------------------------
(* What is saved *)

\* The first state satisfies SaveInv.
LEMMA SaveInvInit == ASSUME Init PROVE SaveInv
<1>. USE DEF SaveInv
<1>1. Shape
  <2>1. writes \in 0..MaxWrites /\ faults \in 0..MaxFaults
    BY PersistenceAssumption DEF Init
  <2> QED BY <2>1 DEF Init, Shape, NoChild
<1>2. OnlyPastWrites
    BY DEF Init, OnlyPastWrites, NoChild
<1>3. CopyBetween
    BY DEF Init, CopyBetween, NoChild
<1>4. RenamedInPlace
    BY DEF Init, RenamedInPlace, NoChild
<1>5. SavedWritesKept
    BY DEF Init, SavedWritesKept
<1> QED BY <1>1, <1>2, <1>3, <1>4, <1>5

\* A write enlarges the memory only.
LEMMA WriteCommandSaves == ASSUME SaveInv, WriteCommand PROVE SaveInv'
<1>. USE DEF SaveInv
<1>1. Shape'
    BY PersistenceAssumption DEF WriteCommand, Shape, history
<1>2. OnlyPastWrites'
    BY DEF WriteCommand, Shape, OnlyPastWrites, history
<1>3. CopyBetween'
    BY DEF WriteCommand, CopyBetween, Live, history
<1>4. RenamedInPlace'
    BY DEF WriteCommand, RenamedInPlace, history
<1>5. SavedWritesKept'
    BY DEF WriteCommand, SavedWritesKept, history
<1> QED BY <1>1, <1>2, <1>3, <1>4, <1>5

\* SAVE finds no child, and saves all there is.
LEMMA SaveCommandSaves == ASSUME SaveInv, SaveCommand PROVE SaveInv'
<1>. USE DEF SaveInv
<1>1. Shape'
    BY DEF SaveCommand, RdbSaveDone, Shape
<1>2. OnlyPastWrites'
    BY DEF SaveCommand, RdbSaveDone, OnlyPastWrites
<1>3. CopyBetween'
    BY DEF SaveCommand, RdbSaveDone, CopyBetween, Live, NoChild
<1>4. RenamedInPlace'
    BY DEF SaveCommand, RenamedInPlace, NoChild
<1>5. SavedWritesKept'
    BY DEF SaveCommand, RdbSaveDone, SavedWritesKept
<1> QED BY <1>1, <1>2, <1>3, <1>4, <1>5

\* The copy of a new child is the memory itself.
LEMMA RdbSaveBackgroundSaves == ASSUME SaveInv, RdbSaveBackground PROVE SaveInv'
<1>. USE DEF SaveInv
<1>1. Shape'
  <2>1. data \in SUBSET Writes
    BY PersistenceAssumption DEF Shape, OnlyPastWrites, Writes
  <2>2. child' \in [exit : {"none", "saving", "renamed", "0", "1", "signal", "usr1"}, snap : SUBSET Writes]
    BY <2>1 DEF RdbSaveBackground, Saving, Shape
  <2>3. status' \in {"ok", "err"} /\ faults' \in 0..MaxFaults
    BY PersistenceAssumption DEF RdbSaveBackground, Fault, Shape
  <2> QED BY <2>2, <2>3 DEF RdbSaveBackground, Shape, history
<1>2. OnlyPastWrites'
  <2>1. child'.snap \in {data, child.snap}
    BY DEF RdbSaveBackground, Saving
  <2> QED BY <2>1 DEF RdbSaveBackground, OnlyPastWrites, history
<1>3. CopyBetween'
    BY DEF RdbSaveBackground, Saving, CopyBetween, Live, history
<1>4. RenamedInPlace'
    BY DEF RdbSaveBackground, Saving, RenamedInPlace, history
<1>5. SavedWritesKept'
    BY DEF RdbSaveBackground, SavedWritesKept, history
<1> QED BY <1>1, <1>2, <1>3, <1>4, <1>5

\* The dump is replaced by the child's copy, which holds what was saved.
LEMMA ChildRenamesSaves == ASSUME SaveInv, ChildRenames PROVE SaveInv'
<1>. USE DEF SaveInv
<1>1. Shape'
    BY DEF ChildRenames, Shape
<1>2. OnlyPastWrites'
    BY DEF ChildRenames, OnlyPastWrites
<1>3. CopyBetween'
    BY DEF ChildRenames, CopyBetween, Live, NoChild
<1>4. RenamedInPlace'
    BY DEF ChildRenames, RenamedInPlace
<1>5. SavedWritesKept'
    BY DEF ChildRenames, CopyBetween, SavedWritesKept, Live
<1> QED BY <1>1, <1>2, <1>3, <1>4, <1>5

\* The exit of the child changes no dataset.
LEMMA ChildExitsSaves == ASSUME SaveInv, ChildExits PROVE SaveInv'
<1>. USE DEF SaveInv
<1>1. Shape'
    BY DEF ChildExits, Shape, history
<1>2. OnlyPastWrites'
    BY DEF ChildExits, OnlyPastWrites, history
<1>3. CopyBetween'
    BY DEF ChildExits, CopyBetween, Live, NoChild, history
<1>4. RenamedInPlace'
    BY DEF ChildExits, RenamedInPlace, history
<1>5. SavedWritesKept'
    BY DEF ChildExits, SavedWritesKept, history
<1> QED BY <1>1, <1>2, <1>3, <1>4, <1>5

\* A child that fails leaves the dump alone.
LEMMA ChildFailsSaves == ASSUME SaveInv, ChildFails PROVE SaveInv'
<1>. USE DEF SaveInv
<1>1. Shape'
    BY PersistenceAssumption DEF ChildFails, Fault, Shape, history
<1>2. OnlyPastWrites'
    BY DEF ChildFails, OnlyPastWrites, history
<1>3. CopyBetween'
    BY DEF ChildFails, ChildRuns, CopyBetween, Live, NoChild, history
<1>4. RenamedInPlace'
    BY DEF ChildFails, RenamedInPlace
<1>5. SavedWritesKept'
    BY DEF ChildFails, SavedWritesKept, history
<1> QED BY <1>1, <1>2, <1>3, <1>4, <1>5

\* The copy of a child that succeeded is in the dump, and becomes what was saved.
LEMMA CheckChildrenDoneSaves == ASSUME SaveInv, CheckChildrenDone PROVE SaveInv'
<1>. USE DEF SaveInv
<1>1. Shape'
    BY DEF CheckChildrenDone, Shape, NoChild
<1>2. OnlyPastWrites'
    BY DEF CheckChildrenDone, OnlyPastWrites, NoChild
<1>3. CopyBetween'
    BY DEF CheckChildrenDone, CopyBetween, Live, NoChild
<1>4. RenamedInPlace'
    BY DEF CheckChildrenDone, RenamedInPlace, NoChild
<1>5. SavedWritesKept'
    BY DEF CheckChildrenDone, RenamedInPlace, SavedWritesKept
<1> QED BY <1>1, <1>2, <1>3, <1>4, <1>5

\* SHUTDOWN leaves neither a child nor anything unsaved.
LEMMA ShutdownSaves == ASSUME SaveInv, Shutdown PROVE SaveInv'
<1>. USE DEF SaveInv
<1>1. Shape'
    BY DEF Shutdown, RdbSaveDone, Memory, Shape, NoChild
<1>2. OnlyPastWrites'
    BY DEF Shutdown, RdbSaveDone, Memory, OnlyPastWrites, NoChild
<1>3. CopyBetween'
    BY DEF Shutdown, Memory, CopyBetween, Live, NoChild
<1>4. RenamedInPlace'
    BY DEF Shutdown, Memory, RenamedInPlace, NoChild
<1>5. SavedWritesKept'
    BY DEF Shutdown, RdbSaveDone, SavedWritesKept
<1> QED BY <1>1, <1>2, <1>3, <1>4, <1>5

\* A SHUTDOWN that fails ends the child.
LEMMA ShutdownFailsSaves == ASSUME SaveInv, ShutdownFails PROVE SaveInv'
<1>. USE DEF SaveInv
<1>1. Shape'
    BY PersistenceAssumption DEF ShutdownFails, Fault, Shape, history
<1>2. OnlyPastWrites'
    BY DEF ShutdownFails, OnlyPastWrites, history
<1>3. CopyBetween'
    BY DEF ShutdownFails, CopyBetween, Live, history
<1>4. RenamedInPlace'
    BY DEF ShutdownFails, RenamedInPlace, history
<1>5. SavedWritesKept'
    BY DEF ShutdownFails, SavedWritesKept, history
<1> QED BY <1>1, <1>2, <1>3, <1>4, <1>5

\* A crash touches neither the dump nor what was saved; the copy of the child lives on.
LEMMA CrashSaves == ASSUME SaveInv, Crash PROVE SaveInv'
<1>. USE DEF SaveInv
<1>1. Shape'
  <2>1. faults' \in 0..MaxFaults
    BY PersistenceAssumption DEF Crash, Fault, Shape
  <2> QED BY <2>1 DEF Crash, Memory, Shape, NoChild, history
<1>2. OnlyPastWrites'
  <2>1. orphans' \subseteq SUBSET (1..writes)
    BY DEF Crash, OnlyPastWrites
  <2>2. data' = {} /\ child'.snap = {}
    BY DEF Crash, Memory, NoChild
  <2> QED BY <2>1, <2>2 DEF Crash, OnlyPastWrites, history
<1>3. CopyBetween'
    BY DEF Crash, Memory, CopyBetween, Live, NoChild
<1>4. RenamedInPlace'
    BY DEF Crash, Memory, RenamedInPlace, NoChild
<1>5. SavedWritesKept'
    BY DEF Crash, SavedWritesKept, history
<1> QED BY <1>1, <1>2, <1>3, <1>4, <1>5

\* After a restart the memory is what was saved.
LEMMA RestartSaves == ASSUME SaveInv, Restart PROVE SaveInv'
<1>. USE DEF SaveInv
<1>1. Shape'
    BY DEF Restart, Memory, Shape, NoChild
<1>2. OnlyPastWrites'
    BY DEF Restart, Memory, OnlyPastWrites, NoChild
<1>3. CopyBetween'
    BY DEF Restart, Memory, CopyBetween, Live, NoChild
<1>4. RenamedInPlace'
    BY DEF Restart, Memory, RenamedInPlace, NoChild
<1>5. SavedWritesKept'
    BY DEF Restart, SavedWritesKept
<1> QED BY <1>1, <1>2, <1>3, <1>4, <1>5

\* An orphan replaces the dump, which is noted.
LEMMA OrphanEndsSaves == ASSUME SaveInv, NEW snap \in orphans, OrphanEnds(snap) PROVE SaveInv'
<1>. USE DEF SaveInv
<1>1. Shape'
    BY DEF OrphanEnds, Shape, server
<1>2. OnlyPastWrites'
    BY DEF OrphanEnds, OnlyPastWrites, server
<1>3. CopyBetween'
    BY DEF OrphanEnds, CopyBetween, Live, server
<1>4. RenamedInPlace'
    BY DEF OrphanEnds, RenamedInPlace, server
<1>5. SavedWritesKept'
    BY DEF OrphanEnds, SavedWritesKept
<1> QED BY <1>1, <1>2, <1>3, <1>4, <1>5

\* SaveInv is inductive.
THEOREM SaveInvInductive == Spec => []SaveInv
<1>1. SaveInv /\ [Next]_vars => SaveInv'
  <2> SUFFICES ASSUME SaveInv, [Next]_vars PROVE SaveInv'
      OBVIOUS
  <2>1. CASE UNCHANGED vars
      BY <2>1 DEF vars, server, history, SaveInv, Shape, OnlyPastWrites, CopyBetween,
                  RenamedInPlace, SavedWritesKept, Live
  <2>2. CASE Next
      BY <2>2, WriteCommandSaves, SaveCommandSaves, RdbSaveBackgroundSaves, ChildRenamesSaves,
         ChildExitsSaves, ChildFailsSaves, CheckChildrenDoneSaves, ShutdownSaves,
         ShutdownFailsSaves, CrashSaves, OrphanEndsSaves, RestartSaves
      DEF Next, BgsaveCommand, SavePoints
  <2> QED BY <2>1, <2>2
<1> QED BY SaveInvInit, <1>1, PTL DEF Spec

\* For any number of writes and faults, the dump holds every write of the
\* latest save that the server reported, whatever child was saving at the time
\* and whenever the server was killed, unless an orphan replaced it (rdbSave,
\* backgroundSaveDoneHandler, prepareForShutdown).
THEOREM SavesKept == Spec => []SavedWritesKept
<1>1. SaveInv => SavedWritesKept
  BY DEF SaveInv
<1> QED BY SaveInvInductive, <1>1, PTL

-----------------------------------------------------------------------------
(* The changes since the latest save *)

\* The part of the memory outside a set of writes is finite.
LEMMA FiniteRest ==
    ASSUME SaveInv, NEW S
    PROVE  IsFiniteSet(data \ S) /\ Cardinality(data \ S) \in Nat
<1>1. data \ S \in SUBSET (1..writes)
  BY DEF SaveInv, OnlyPastWrites
<1>2. IsFiniteSet(1..writes)
  <2>1. writes \in Int
    BY PersistenceAssumption DEF SaveInv, Shape
  <2> QED BY <2>1, FS_Interval
<1>3. IsFiniteSet(data \ S)
  BY <1>1, <1>2, FS_Subset
<1> QED BY <1>3, FS_CardinalityType

\* A write adds one to the writes outside any set of earlier writes.
LEMMA WriteAddsOne ==
    ASSUME SaveInv, WriteCommand, NEW S \in SUBSET (1..writes)
    PROVE  Cardinality(data' \ S) = Cardinality(data \ S) + 1
<1>1. data' \ S = (data \ S) \cup {writes + 1} /\ writes + 1 \notin data \ S
  BY DEF SaveInv, Shape, OnlyPastWrites, WriteCommand
<1>2. IsFiniteSet(data \ S)
  BY FiniteRest
<1> QED BY <1>1, <1>2, FS_AddElement

\* In the first state nothing has been written.
LEMMA DirtyInvInit == ASSUME Init PROVE DirtyInv
<1>1. data \ saved = {}
  BY DEF Init
<1> QED BY <1>1, FS_EmptySet DEF Init, DirtyInv, DirtyCountsUnsaved, DirtySinceFork, Live, NoChild

\* A write counts for the latest save and for the child alike.
LEMMA WriteCommandCounts == ASSUME SaveInv, DirtyInv, WriteCommand PROVE DirtyInv'
<1>1. Cardinality(data' \ saved) = Cardinality(data \ saved) + 1
  BY WriteAddsOne DEF SaveInv, OnlyPastWrites
<1>2. Cardinality(data' \ child.snap) = Cardinality(data \ child.snap) + 1
  BY WriteAddsOne DEF SaveInv, OnlyPastWrites
<1>3. Cardinality(data \ child.snap) \in Nat
  BY FiniteRest
<1>4. up /\ dirty' = dirty + 1 /\ UNCHANGED <<up, dirtyBefore, child, saved>>
  BY DEF WriteCommand, history
<1>5. DirtyCountsUnsaved'
  BY <1>1, <1>4 DEF DirtyInv, DirtyCountsUnsaved
<1>6. DirtySinceFork'
  BY <1>2, <1>3, <1>4 DEF DirtyInv, DirtySinceFork, Live
<1> QED BY <1>4, <1>5, <1>6 DEF DirtyInv

\* SAVE leaves nothing to count, and no child.
LEMMA SaveCommandCounts == ASSUME SaveInv, DirtyInv, SaveCommand PROVE DirtyInv'
<1>1. data' \ saved' = {} /\ dirty' = 0 /\ ~Live' /\ dirtyBefore' = dirtyBefore
  BY DEF SaveCommand, RdbSaveDone, Live, NoChild
<1> QED BY <1>1, FS_EmptySet DEF DirtyInv, DirtyCountsUnsaved, DirtySinceFork

\* The changes before the fork are those the child's copy has.
LEMMA RdbSaveBackgroundCounts == ASSUME SaveInv, DirtyInv, RdbSaveBackground PROVE DirtyInv'
<1>1. UNCHANGED <<up, data, dirty, saved>> /\ dirtyBefore' = dirty
  BY DEF RdbSaveBackground, history
<1>2. Live' => data' \ child'.snap = {}
  BY DEF RdbSaveBackground, Saving, Live, NoChild
<1> QED BY <1>1, <1>2, FS_EmptySet DEF DirtyInv, DirtyCountsUnsaved, DirtySinceFork

\* What a child does counts only when the handler has run.
LEMMA ChildCounts ==
    ASSUME SaveInv, DirtyInv, ChildRenames \/ ChildExits \/ ChildFails \/ ShutdownFails
    PROVE  DirtyInv'
<1>1. UNCHANGED <<up, data, dirty, dirtyBefore, saved>>
  BY DEF ChildRenames, ChildExits, ChildFails, ShutdownFails, history
<1>2. Live' => Live /\ child'.snap = child.snap
  BY DEF ChildRenames, ChildExits, ChildFails, ShutdownFails, ChildRuns, Live, SaveInv, Shape
<1> QED BY <1>1, <1>2 DEF DirtyInv, DirtyCountsUnsaved, DirtySinceFork

\* The handler subtracts what the copy has, and the copy is the latest save.
LEMMA CheckChildrenDoneCounts == ASSUME SaveInv, DirtyInv, CheckChildrenDone PROVE DirtyInv'
<1>1. ~Live' /\ UNCHANGED <<up, data, dirtyBefore>>
  BY DEF CheckChildrenDone, Live, NoChild
<1>2. CASE child.exit = "0"
  <2>1. dirty' = Cardinality(data \ child.snap) /\ saved' = child.snap
    BY <1>2 DEF CheckChildrenDone, DirtyInv, DirtySinceFork, Live
  <2>2. dirty' \in Nat
    BY <2>1, FiniteRest
  <2> QED BY <1>1, <2>1, <2>2 DEF DirtyInv, DirtyCountsUnsaved, DirtySinceFork
<1>3. CASE child.exit # "0"
  <2>1. UNCHANGED <<dirty, saved>>
    BY <1>3 DEF CheckChildrenDone
  <2> QED BY <1>1, <2>1 DEF DirtyInv, DirtyCountsUnsaved, DirtySinceFork
<1> QED BY <1>2, <1>3

\* A process that has ended counts nothing.
LEMMA EndCounts == ASSUME DirtyInv, Shutdown \/ Crash PROVE DirtyInv'
<1>1. ~up' /\ dirty' = 0 /\ dirtyBefore' = 0 /\ ~Live'
  BY DEF Shutdown, Crash, Memory, Live, NoChild
<1> QED BY <1>1 DEF DirtyInv, DirtyCountsUnsaved, DirtySinceFork

\* At startup the DB is considered saved.
LEMMA RestartCounts == ASSUME DirtyInv, Restart PROVE DirtyInv'
<1>1. dirty' = 0 /\ dirtyBefore' = 0 /\ ~Live' /\ data' \ saved' = {}
  BY DEF Restart, Memory, Live, NoChild
<1> QED BY <1>1, FS_EmptySet DEF DirtyInv, DirtyCountsUnsaved, DirtySinceFork

\* DirtyInv is inductive together with SaveInv.
THEOREM DirtyInvInductive == Spec => []DirtyInv
<1>1. SaveInv /\ DirtyInv /\ [Next]_vars => DirtyInv'
  <2> SUFFICES ASSUME SaveInv, DirtyInv, [Next]_vars PROVE DirtyInv'
      OBVIOUS
  <2>1. CASE UNCHANGED <<server, saved>>
      BY <2>1 DEF server, DirtyInv, DirtyCountsUnsaved, DirtySinceFork, Live
  <2>2. CASE UNCHANGED vars
      BY <2>1, <2>2 DEF vars, history
  <2>3. CASE \E snap \in orphans : OrphanEnds(snap)
      BY <2>1, <2>3 DEF OrphanEnds
  <2>4. CASE Next /\ ~\E snap \in orphans : OrphanEnds(snap)
      BY <2>4, WriteCommandCounts, SaveCommandCounts, RdbSaveBackgroundCounts, ChildCounts,
         CheckChildrenDoneCounts, EndCounts, RestartCounts
      DEF Next, BgsaveCommand, SavePoints
  <2> QED BY <2>2, <2>3, <2>4
<1> QED BY DirtyInvInit, SaveInvInductive, <1>1, PTL DEF Spec

\* For any number of writes and faults, server.dirty is the number of writes
\* after the latest good save, although the handler of a background save
\* subtracts a number that was noted before the fork.
THEOREM DirtyCounts == Spec => []DirtyCountsUnsaved
<1>1. DirtyInv => DirtyCountsUnsaved
  BY DEF DirtyInv
<1> QED BY DirtyInvInductive, <1>1, PTL

\* The model is type correct; in particular dirty, from which the handler
\* subtracts, never becomes negative.
THEOREM TypeCorrect == Spec => []TypeOK
<1>1. SaveInv /\ DirtyInv => TypeOK
  <2> SUFFICES ASSUME SaveInv, DirtyInv PROVE TypeOK
      OBVIOUS
  <2>1. 1..writes \subseteq Writes
      BY PersistenceAssumption DEF SaveInv, Shape, Writes
  <2>2. orphans \subseteq SUBSET Writes
      BY <2>1 DEF SaveInv, OnlyPastWrites
  <2>3. data \subseteq Writes /\ file \subseteq Writes /\ saved \subseteq Writes
      BY <2>1 DEF SaveInv, OnlyPastWrites
  <2> QED BY <2>2, <2>3 DEF SaveInv, Shape, DirtyInv, TypeOK
<1> QED BY SaveInvInductive, DirtyInvInductive, <1>1, PTL

=============================================================================
