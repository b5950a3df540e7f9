-------------------------- MODULE MCRedisKeyspace --------------------------
(***************************************************************************)
(* Instances of RedisKeyspace for TLC.                                     *)
(***************************************************************************)
EXTENDS RedisKeyspace
=============================================================================
