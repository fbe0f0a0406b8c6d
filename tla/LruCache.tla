------------------------------ MODULE LruCache ------------------------------
(***************************************************************************)
(* The least-recently-used cache of memory/cache.rs, as operators on the   *)
(* value of a cache: its capacity, its map and the queue of its keys, the  *)
(* most recently used one first.  ObjectCache puts it behind a lock, so    *)
(* each operator is one step of the modules that use it.                   *)
(***************************************************************************)
EXTENDS Integers, Sequences, FiniteSets

CONSTANTS
    Keys,         \* object references
    CacheSizes,   \* the capacities considered
    None

EmptyCache(capacity) == [capacity |-> capacity, map |-> [k \in Keys |-> None], order |-> <<>>]

ContainsKey(cache, k) == cache.map[k] # None
CachedKeys(cache) == {k \in Keys : ContainsKey(cache, k)}

\* order.retain(|k| k != key).
Without(order, k) ==
    LET kept[n \in 0..Len(order)] ==
            IF n = 0 THEN <<>>
            ELSE IF order[n] = k THEN kept[n - 1] ELSE Append(kept[n - 1], order[n])
    IN  kept[Len(order)]

\* get: a key that is there becomes the most recently used one.
Get(cache, k) ==
    IF ContainsKey(cache, k)
    THEN [cache EXCEPT !.order = <<k>> \o Without(@, k)]
    ELSE cache

\* The last key of the queue leaves the cache.
Evict(cache) ==
    IF cache.order = <<>> THEN cache
    ELSE [cache EXCEPT !.map[cache.order[Len(cache.order)]] = None,
                       !.order = SubSeq(@, 1, Len(@) - 1)]

\* put: room is made for a new key only, and an old key moves to the front.
Put(cache, k, value) ==
    LET roomy == IF ContainsKey(cache, k) THEN [cache EXCEPT !.order = Without(@, k)]
                 ELSE IF Cardinality(CachedKeys(cache)) >= cache.capacity THEN Evict(cache)
                 ELSE cache
    IN  IF cache.capacity = 0 THEN cache
        ELSE [roomy EXCEPT !.map[k] = value, !.order = <<k>> \o @]

Clear(cache) == EmptyCache(cache.capacity)
=============================================================================
