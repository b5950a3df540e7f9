----------------------------- MODULE MCSessions -----------------------------
(***************************************************************************)
(* Instances of Sessions for TLC.                                          *)
(***************************************************************************)
EXTENDS Sessions, TLC

\* Key names and secrets are interchangeable random strings, users and server
\* threads have no individual behaviour.
Symmetry == Permutations(Keys) \cup Permutations(Secrets)
            \cup Permutations(Users) \cup Permutations(Threads)
=============================================================================
