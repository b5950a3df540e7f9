----------------------------- MODULE MCAccounts -----------------------------
(***************************************************************************)
(* Instances of Accounts for TLC.                                          *)
(***************************************************************************)
EXTENDS Accounts, TLC

\* Addresses, passwords, salts and threads have no individual behaviour.
Symmetry == Permutations(Emails \ Malformed) \cup Permutations(Passwords)
            \cup Permutations(Salts) \cup Permutations(Threads)
=============================================================================
