------------------------- MODULE MCRedisPersistence -------------------------
(***************************************************************************)
(* An instance of RedisPersistence for TLC.                                *)
(***************************************************************************)
EXTENDS RedisPersistence
=============================================================================
