--------------------------- MODULE MCVideoIngest ---------------------------
(***************************************************************************)
(* Instances of VideoIngest for TLC.                                       *)
(***************************************************************************)
EXTENDS VideoIngest, TLC

\* Executors, and user/query pairs, have no individual behaviour.  Not used
\* with the liveness properties.
Symmetry == Permutations(Executors) \cup Permutations(Owners)
=============================================================================
