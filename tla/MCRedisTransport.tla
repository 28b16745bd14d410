-------------------------- MODULE MCRedisTransport --------------------------
(***************************************************************************)
(* An instance of the Redis transport for TLC.                             *)
(***************************************************************************)
EXTENDS RedisTransport

MCTasks == {"t1", "t2"}
MCConsumers == {"c1", "c2"}
=============================================================================
