---------------------------- MODULE MCCacheFile ----------------------------
EXTENDS CacheFile

CONSTANTS a, b, v

\* Every transaction on a; on b, one of each order of loads, so that an update
\* of one pool can meet the update of the other.
MCWork ==
  [kind : FailureKinds \union {"success", "clear"}, pool : {a}, value : {v}, via : {"worker", "collect"}]
  \union {[kind |-> "success", pool |-> b, value |-> v, via |-> "worker"],
          [kind |-> "limited", pool |-> b, value |-> v, via |-> "collect"]}
============================================================================
