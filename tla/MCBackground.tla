---------------------------- MODULE MCBackground ----------------------------
(* Model-checking instance of Background. *)
EXTENDS Background, TLC

\* The cache on Redis with jobs run inline, and the worker on Redis beside the
\* memory cache, where the readiness check needs a client of its own.
Both == {[database |-> TRUE, cache |-> "redis",  queue |-> "sync"],
         [database |-> TRUE, cache |-> "memory", queue |-> "redis"]}
=============================================================================
