--------------------------- MODULE MCRedisStreams ---------------------------
(* Small instance of RedisStreams for TLC.                                *)
EXTENDS RedisStreams

CONSTANTS x1, x2, t1, t2

MCEvents == {[id |-> 1, exec |-> x1, tenant |-> t1],
             [id |-> 2, exec |-> x2, tenant |-> t1],
             [id |-> 3, exec |-> x2, tenant |-> t1]}
=============================================================================
