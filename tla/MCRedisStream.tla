---------------------------- MODULE MCRedisStream ---------------------------
(* An instance of RedisStream for TLC: two single messages, and a batch of   *)
(* two.                                                                      *)
EXTENDS RedisStream, TLC

MCBatch == <<"b1", "b2">>
=============================================================================
