------------------------- MODULE MCSessionsRestart -------------------------
(***************************************************************************)
(* Instances of SessionsRestart for TLC.                                   *)
(***************************************************************************)
EXTENDS SessionsRestart, TLC

\* As in MCSessions.
Symmetry == Permutations(Keys) \cup Permutations(Secrets)
            \cup Permutations(Users) \cup Permutations(Threads)
=============================================================================
