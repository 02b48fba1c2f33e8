--------------------------- MODULE MCMemoryCache ---------------------------
(* Model-checking instance of the memory cache by itself, with callers who  *)
(* store empty values and count.                                            *)
EXTENDS MemoryCache

Asking(op, value) == [op |-> op, key |-> "k", value |-> value, ttl |-> 0, by |-> 1]

SomeCalls == {Asking("set", Blank), Asking("forget", 0), Asking("increment", 0)}
=============================================================================
