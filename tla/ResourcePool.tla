----------------------------- MODULE ResourcePool -----------------------------
(***************************************************************************)
(* ResourcePool of performance/resource_pool.rs: a map of fonts, one of    *)
(* images and one of patterns, each behind a lock, and statistics behind   *)
(* another.  Adding takes the lock of a map and then that of the           *)
(* statistics; clear takes the locks one after another and holds no two.   *)
(*                                                                         *)
(* A resource is found by the hash of some of its parts, so that different *)
(* resources may share a key.  The totals of the statistics are sums of    *)
(* the counters of the types and are left out.                             *)
(***************************************************************************)
EXTENDS Integers, Sequences, FiniteSets

CONSTANTS
    Threads,
    Types,        \* the types, in the order in which clear takes their locks
    Resources,    \* the resources of a type
    Hash,         \* Hash[r]: the hash of resource r
    MaxCalls,     \* bound on the calls made
    None

Kinds == {Types[i] : i \in DOMAIN Types}
Hashes == {Hash[r] : r \in Resources}

\* What the constants are: finitely many resources, and None for nothing at all.
SoundConstants ==
    /\ IsFiniteSet(Resources)
    /\ Types \in Seq(Kinds)
    /\ MaxCalls \in Nat
    /\ None \notin Threads \cup Resources

VARIABLES
    pool,         \* pool[k][h]: the resource under hash h of type k, or None
    stats,        \* requests, unique ones and duplicates avoided, by type
    writer,       \* writer[k]: the thread that holds the map of k for writing, or None
    readers,      \* readers[k]: the threads that hold it for reading
    pc,
    adds,         \* adds[t]: the type and the resource thread t adds
    at,           \* at[t]: how many maps a clear or memory_usage of t has taken
    calls,
    missed        \* history: types to which one was added between the two halves of a clear

vars == <<pool, stats, writer, readers, pc, adds, at, calls, missed>>

Init ==
    /\ pool = [k \in Kinds |-> [h \in Hashes |-> None]]
    /\ stats = [k \in Kinds |-> [requests |-> 0, unique |-> 0, duplicates |-> 0]]
    /\ writer = [k \in Kinds |-> None]
    /\ readers = [k \in Kinds |-> {}]
    /\ pc = [t \in Threads |-> "idle"]
    /\ adds = [t \in Threads |-> None]
    /\ at = [t \in Threads |-> 0]
    /\ calls = 0
    /\ missed = {}

Begin(t, label) ==
    /\ pc[t] = "idle" /\ calls < MaxCalls
    /\ calls' = calls + 1
    /\ pc' = [pc EXCEPT ![t] = label]

Goto(t, label) == pc' = [pc EXCEPT ![t] = label]

CallAdd(t, k, r) ==
    /\ Begin(t, "lock_map")
    /\ adds' = [adds EXCEPT ![t] = [kind |-> k, resource |-> r]]
    /\ UNCHANGED <<pool, stats, writer, readers, at, missed>>

Call(t, op) ==
    /\ Begin(t, op)
    /\ UNCHANGED <<pool, stats, writer, readers, adds, at, missed>>

-----------------------------------------------------------------------------
(* add_font_resource, add_image_resource, add_pattern_resource *)

LockMap(t) ==
    /\ pc[t] = "lock_map"
    /\ LET k == adds[t].kind IN
       /\ writer[k] = None /\ readers[k] = {}
       /\ writer' = [writer EXCEPT ![k] = t]
    /\ Goto(t, "lock_stats")
    /\ UNCHANGED <<pool, stats, readers, adds, at, calls, missed>>

\* A thread that has cleared the map of k and not yet the statistics.
HalfCleared(k) == \E t \in Threads : \E i \in DOMAIN Types : pc[t] = "clear" /\ Types[i] = k /\ at[t] >= i

\* With both locks held; the key goes back to the caller.
AddResource(t) ==
    /\ pc[t] = "lock_stats"
    /\ LET k == adds[t].kind
           h == Hash[adds[t].resource]
       IN  /\ IF pool[k][h] # None
              THEN /\ stats' = [stats EXCEPT ![k].requests = @ + 1, ![k].duplicates = @ + 1]
                   /\ UNCHANGED pool
              ELSE /\ stats' = [stats EXCEPT ![k].requests = @ + 1, ![k].unique = @ + 1]
                   /\ pool' = [pool EXCEPT ![k][h] = adds[t].resource]
           /\ writer' = [writer EXCEPT ![k] = None]
           /\ missed' = IF HalfCleared(k) THEN missed \cup {k} ELSE missed
    /\ adds' = [adds EXCEPT ![t] = None]
    /\ Goto(t, "idle")
    /\ UNCHANGED <<readers, at, calls>>

-----------------------------------------------------------------------------
(* clear and memory_usage *)

\* clear, map by map; each lock is released before the next is taken.
ClearMap(t) ==
    /\ pc[t] = "clear" /\ at[t] < Len(Types)
    /\ LET k == Types[at[t] + 1] IN
       /\ writer[k] = None /\ readers[k] = {}
       /\ pool' = [pool EXCEPT ![k] = [h \in Hashes |-> None]]
       /\ missed' = missed \ {k}
    /\ at' = [at EXCEPT ![t] = @ + 1]
    /\ UNCHANGED <<stats, writer, readers, pc, adds, calls>>

\* A faulty variant of ResetStats: the counters outlive the resources.
KeepStats(t) ==
    /\ pc[t] = "clear" /\ at[t] = Len(Types)
    /\ at' = [at EXCEPT ![t] = 0]
    /\ Goto(t, "idle")
    /\ UNCHANGED <<pool, stats, writer, readers, adds, calls, missed>>

ResetStats(t) ==
    /\ pc[t] = "clear" /\ at[t] = Len(Types)
    /\ stats' = [k \in Kinds |-> [requests |-> 0, unique |-> 0, duplicates |-> 0]]
    /\ at' = [at EXCEPT ![t] = 0]
    /\ Goto(t, "idle")
    /\ UNCHANGED <<pool, writer, readers, adds, calls, missed>>

\* memory_usage takes all maps for reading and keeps them while it sums up.
ReadMap(t) ==
    /\ pc[t] = "usage" /\ at[t] < Len(Types)
    /\ LET k == Types[at[t] + 1] IN
       /\ writer[k] = None
       /\ readers' = [readers EXCEPT ![k] = @ \cup {t}]
    /\ at' = [at EXCEPT ![t] = @ + 1]
    /\ UNCHANGED <<pool, stats, writer, pc, adds, calls, missed>>

ReleaseMaps(t) ==
    /\ pc[t] = "usage" /\ at[t] = Len(Types)
    /\ readers' = [k \in Kinds |-> readers[k] \ {t}]
    /\ at' = [at EXCEPT ![t] = 0]
    /\ Goto(t, "idle")
    /\ UNCHANGED <<pool, stats, writer, adds, calls, missed>>

-----------------------------------------------------------------------------
Step(t) ==
    \/ LockMap(t) \/ AddResource(t) \/ ClearMap(t) \/ ResetStats(t) \/ ReadMap(t) \/ ReleaseMaps(t)

Next ==
    \E t \in Threads :
       \/ \E k \in Kinds, r \in Resources : CallAdd(t, k, r)
       \/ \E op \in {"clear", "usage"} : Call(t, op)
       \/ Step(t)

Spec == Init /\ [][Next]_vars

FairSpec == Spec /\ \A t \in Threads : WF_vars(Step(t))

-----------------------------------------------------------------------------
(* Properties *)

\* Types of the variables.
TypeOK ==
    /\ pool \in [Kinds -> [Hashes -> Resources \cup {None}]]
    /\ stats \in [Kinds -> [requests : Nat, unique : Nat, duplicates : Nat]]
    /\ writer \in [Kinds -> Threads \cup {None}] /\ readers \in [Kinds -> SUBSET Threads]
    /\ pc \in [Threads -> {"idle", "lock_map", "lock_stats", "clear", "usage"}]
    /\ adds \in [Threads -> {None} \cup [kind : Kinds, resource : Resources]]
    /\ at \in [Threads -> 0..Len(Types)]
    /\ calls \in 0..MaxCalls /\ missed \subseteq Kinds

Stored(k) == {h \in Hashes : pool[k][h] # None}

\* Every request was counted as new or as a duplicate.  While nothing is being
\* cleared, each resource counted as unique is in the pool, and there are others
\* only where one was added while a clear was between that map and the statistics.
StatsMatchPool ==
    \A k \in Kinds :
       /\ stats[k].requests = stats[k].unique + stats[k].duplicates
       /\ (\A t \in Threads : pc[t] # "clear") =>
            /\ stats[k].unique <= Cardinality(Stored(k))
            /\ k \notin missed => stats[k].unique = Cardinality(Stored(k))
       /\ \A h \in Stored(k) : Hash[pool[k][h]] = h

\* Every call returns: no order of the locks makes two threads wait for each other.
Busy(t) == pc[t] # "idle"
=============================================================================
