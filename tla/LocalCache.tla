------------------------------ MODULE LocalCache ------------------------------
(***************************************************************************)
(* The cache in which an action keeps the status of its executions, as a   *)
(* function from keys to entries, or to absent.  It is a Guava cache with  *)
(* a maximum size, divided into segments that have a share of it each: as  *)
(* long as the number of entries is at most size, the share of a segment,  *)
(* there is room for sure.  After that a save may evict another entry,     *)
(* which one depends on the segments and on what clients have read since.  *)
(***************************************************************************)
EXTENDS Naturals, FiniteSets

Entries(cache, absent) == {k \in DOMAIN cache : cache[k] # absent}

\* The caches that save(key, entry) may leave.
Saved(cache, key, entry, absent, size) ==
    LET new == [cache EXCEPT ![key] = entry]
        full == Cardinality(Entries(new, absent)) > size
        victims == IF full THEN Entries(new, absent) \ {key} ELSE {}
    IN  {new} \union {[new EXCEPT ![k] = absent] : k \in victims}
=============================================================================
