------------------------------ MODULE MemoryPool ------------------------------
(***************************************************************************)
(* MemoryPool of performance/memory_pool.rs: queues of reusable buffers by *)
(* size class behind one lock and statistics behind another.  get_buffer   *)
(* holds the statistics while it takes the queues; a buffer that is        *)
(* dropped goes back to its queue if the queues are free at that moment,   *)
(* and is freed otherwise.  A buffer is its capacity.                      *)
(***************************************************************************)
EXTENDS Integers, Sequences, FiniteSets, SequencesExt

CONSTANTS
    Threads,
    Upper,          \* Upper[c]: the largest size of class c; the last class has no bound
    Capacity,       \* pool_capacity of each class
    Typical,        \* typical_size of each class
    Preallocated,   \* how many buffers preallocate makes of each class
    Sizes,          \* the sizes asked for
    MaxCalls,       \* bound on the calls made
    MaxHeld,        \* bound on the buffers a thread holds
    None

Classes == DOMAIN Capacity

\* What the constants are: classes with sizes and capacities, preallocate makes no
\* more buffers than a class may have, and None is nothing at all.
SoundConstants ==
    /\ Capacity \in Seq(Nat) /\ Capacity # <<>>
    /\ Upper \in [Classes -> Nat] /\ Typical \in [Classes -> Nat]
    /\ Preallocated \in [Classes -> Nat] /\ \A c \in Classes : Preallocated[c] <= Capacity[c]
    /\ Sizes \subseteq Nat
    /\ None \notin Threads /\ None \notin Nat

VARIABLES
    enabled,
    queues,         \* queues[c]: the pooled buffers of class c, the next one first
    current_size,
    stats,
    stats_lock, pools_lock,    \* the thread that holds the lock, or None
    pc,
    asked,          \* asked[t]: the size get_buffer was asked for
    held,           \* held[t]: the buffers thread t uses
    calls,
    topped_up       \* history: preallocate has met a pool in use since the last clear

vars == <<enabled, queues, current_size, stats, stats_lock, pools_lock, pc, asked, held, calls, topped_up>>

Init ==
    /\ enabled \in BOOLEAN
    /\ queues = [c \in Classes |-> <<>>]
    /\ current_size = 0
    /\ stats = [total_requests |-> 0, pool_hits |-> 0, pool_misses |-> 0,
                new_allocations |-> 0, direct_allocations |-> 0]
    /\ stats_lock = None /\ pools_lock = None
    /\ pc = [t \in Threads |-> "idle"]
    /\ asked = [t \in Threads |-> None]
    /\ held = [t \in Threads |-> <<>>]
    /\ calls = 0
    /\ topped_up = FALSE

Goto(t, label) == pc' = [pc EXCEPT ![t] = label]

\* A new call, which begins at label.
Begin(t, label) ==
    /\ pc[t] = "idle" /\ calls < MaxCalls
    /\ calls' = calls + 1
    /\ Goto(t, label)

\* The class of a size: the first whose bound it does not exceed.
from_size(n) == CHOOSE c \in Classes :
    /\ n <= Upper[c] \/ c = Len(Capacity)
    /\ \A smaller \in 1..(c - 1) : n > Upper[smaller]

LargerOf(m, n) == IF m < n THEN n ELSE m
Total(queue) == FoldSeq(+, 0, queue)

-----------------------------------------------------------------------------
(* get_buffer *)

CallGetBuffer(t, n) ==
    /\ Len(held[t]) < MaxHeld
    /\ Begin(t, "get")
    /\ asked' = [asked EXCEPT ![t] = n]
    /\ UNCHANGED <<enabled, queues, current_size, stats, stats_lock, pools_lock, held, topped_up>>

\* A disabled pool allocates and has the buffer freed when it is dropped.
CountRequest(t) ==
    /\ pc[t] = "get" /\ stats_lock = None
    /\ IF enabled
       THEN /\ stats_lock' = t
            /\ Goto(t, "take")
            /\ stats' = [stats EXCEPT !.total_requests = @ + 1]
            /\ UNCHANGED <<asked, held>>
       ELSE /\ Goto(t, "idle")
            /\ stats' = [stats EXCEPT !.total_requests = @ + 1, !.direct_allocations = @ + 1]
            /\ held' = [held EXCEPT ![t] = Append(@, [capacity |-> asked[t], class |-> None])]
            /\ asked' = [asked EXCEPT ![t] = None]
            /\ UNCHANGED stats_lock
    /\ UNCHANGED <<enabled, queues, current_size, pools_lock, calls, topped_up>>

\* The first buffer of the class is taken whatever its capacity, and grows if it
\* is too small; current_size stays as it is.
TakeBuffer(t) ==
    /\ pc[t] = "take" /\ pools_lock = None
    /\ pools_lock' = t
    /\ LET c == from_size(asked[t]) IN
       IF queues[c] # <<>>
       THEN /\ held' = [held EXCEPT ![t] =
                          Append(@, [capacity |-> LargerOf(Head(queues[c]), asked[t]), class |-> c])]
            /\ queues' = [queues EXCEPT ![c] = Tail(@)]
            /\ stats' = [stats EXCEPT !.pool_hits = @ + 1]
            /\ Goto(t, "taken")
       ELSE /\ stats' = [stats EXCEPT !.pool_misses = @ + 1]
            /\ Goto(t, "missed")
            /\ UNCHANGED <<held, queues>>
    /\ UNCHANGED <<enabled, current_size, stats_lock, asked, calls, topped_up>>

\* The queues are released before a buffer is allocated.
LeavePools(t) ==
    /\ pc[t] \in {"taken", "missed"}
    /\ pools_lock' = None
    /\ Goto(t, IF pc[t] = "taken" THEN "got" ELSE "allocate")
    /\ UNCHANGED <<enabled, queues, current_size, stats, stats_lock, asked, held, calls, topped_up>>

ReturnBuffer(t) ==
    /\ pc[t] \in {"got", "allocate"}
    /\ IF pc[t] = "got" THEN UNCHANGED <<stats, held>>
       ELSE LET c == from_size(asked[t]) IN
            /\ stats' = [stats EXCEPT !.new_allocations = @ + 1]
            /\ held' = [held EXCEPT ![t] =
                          Append(@, [capacity |-> LargerOf(asked[t], Typical[c]), class |-> c])]
    /\ stats_lock' = None
    /\ asked' = [asked EXCEPT ![t] = None]
    /\ Goto(t, "idle")
    /\ UNCHANGED <<enabled, queues, current_size, pools_lock, calls, topped_up>>

-----------------------------------------------------------------------------
(* Dropping a buffer *)

\* The owner may have made the buffer larger.  A direct one is just freed.
CallDrop(t, i, grown) ==
    /\ held[t] # <<>> /\ i \in DOMAIN held[t]
    /\ Begin(t, IF held[t][i].class # None /\ pools_lock = None THEN "leave" ELSE "idle")
    /\ held' = [held EXCEPT ![t] = RemoveAt(@, i)]
    /\ LET buffer == held[t][i]
           size   == buffer.capacity + grown
       IN  IF buffer.class = None \/ pools_lock # None
           THEN UNCHANGED <<queues, current_size, pools_lock>>
           ELSE /\ pools_lock' = t
                /\ IF Len(queues[buffer.class]) < Capacity[buffer.class]
                   THEN /\ queues' = [queues EXCEPT ![buffer.class] = Append(@, size)]
                        /\ current_size' = current_size + size
                   ELSE UNCHANGED <<queues, current_size>>
    /\ UNCHANGED <<enabled, stats, stats_lock, asked, topped_up>>

-----------------------------------------------------------------------------
(* preallocate, clear, memory_usage and stats *)

CallOther(t, op) ==
    /\ Begin(t, op)
    /\ UNCHANGED <<enabled, queues, current_size, stats, stats_lock, pools_lock, asked, held, topped_up>>

InUse == current_size > 0 \/ \E c \in Classes : queues[c] # <<>>

\* The size of all that preallocate makes.
PreallocatedSize == FoldSeq(+, 0, [c \in Classes |-> Preallocated[c] * Typical[c]])

\* current_size is set and not raised; no queue is asked whether it has room.
Preallocate(t) ==
    /\ pc[t] = "preallocate"
    /\ IF ~enabled
       THEN Goto(t, "idle") /\ UNCHANGED <<queues, current_size, pools_lock, topped_up>>
       ELSE /\ pools_lock = None
            /\ pools_lock' = t
            /\ queues' = [c \in Classes |-> queues[c] \o [i \in 1..Preallocated[c] |-> Typical[c]]]
            /\ current_size' = PreallocatedSize
            /\ topped_up' = (topped_up \/ InUse)
            /\ Goto(t, "leave")
    /\ UNCHANGED <<enabled, stats, stats_lock, asked, held, calls>>

ClearPools(t) ==
    /\ pc[t] = "clear" /\ pools_lock = None
    /\ pools_lock' = t
    /\ queues' = [c \in Classes |-> <<>>]
    /\ current_size' = 0
    /\ topped_up' = FALSE
    /\ Goto(t, "leave")
    /\ UNCHANGED <<enabled, stats, stats_lock, asked, held, calls>>

memory_usage(t) ==
    /\ pc[t] = "memory_usage" /\ pools_lock = None
    /\ pools_lock' = t
    /\ Goto(t, "leave")
    /\ UNCHANGED <<enabled, queues, current_size, stats, stats_lock, asked, held, calls, topped_up>>

ReadStats(t) ==
    /\ pc[t] = "stats" /\ stats_lock = None
    /\ Goto(t, "idle")
    /\ UNCHANGED <<enabled, queues, current_size, stats, stats_lock, pools_lock, asked, held, calls, topped_up>>

\* A faulty variant of Leave: the statistics are taken with the queues in hand.
LeaveCounted(t) ==
    /\ pc[t] = "leave" /\ stats_lock = None
    /\ pools_lock' = None
    /\ Goto(t, "idle")
    /\ UNCHANGED <<enabled, queues, current_size, stats, stats_lock, asked, held, calls, topped_up>>

\* The guard of the queues goes out of scope.
Leave(t) ==
    /\ pc[t] = "leave"
    /\ pools_lock' = None
    /\ Goto(t, "idle")
    /\ UNCHANGED <<enabled, queues, current_size, stats, stats_lock, asked, held, calls, topped_up>>

-----------------------------------------------------------------------------
Step(t) ==
    \/ CountRequest(t) \/ TakeBuffer(t) \/ LeavePools(t) \/ ReturnBuffer(t)
    \/ Preallocate(t) \/ ClearPools(t) \/ memory_usage(t) \/ ReadStats(t) \/ Leave(t)

Next ==
    \E t \in Threads :
       \/ \E n \in Sizes : CallGetBuffer(t, n)
       \/ \E i \in 1..MaxHeld, grown \in {0, 1} : CallDrop(t, i, grown)
       \/ \E op \in {"preallocate", "clear", "memory_usage", "stats"} : CallOther(t, op)
       \/ Step(t)

Spec == Init /\ [][Next]_vars

FairSpec == Spec /\ \A t \in Threads : WF_vars(Step(t))

-----------------------------------------------------------------------------
(* Properties *)

Labels == {"idle", "get", "take", "taken", "missed", "got", "allocate", "leave",
           "preallocate", "clear", "memory_usage", "stats"}

Buffer == [capacity : Nat, class : Classes \cup {None}]

\* Types of the variables.
TypeOK ==
    /\ enabled \in BOOLEAN
    /\ queues \in [Classes -> Seq(Nat)] /\ current_size \in Nat
    /\ \A counter \in DOMAIN stats : stats[counter] \in Nat
    /\ stats_lock \in Threads \cup {None} /\ pools_lock \in Threads \cup {None}
    /\ pc \in [Threads -> Labels]
    /\ asked \in [Threads -> Sizes \cup {None}]
    /\ held \in [Threads -> Seq(Buffer)]
    /\ calls \in 0..MaxCalls /\ topped_up \in BOOLEAN

\* Unless preallocate was called on a pool in use, no queue grows beyond the
\* capacity of its class.
QueuesBounded == ~topped_up => \A c \in Classes : Len(queues[c]) <= Capacity[c]

\* And current_size is at least what the queues hold: buffers that are taken out
\* are not subtracted, those that come back are added.
UsageCoversPool ==
    /\ QueuesBounded
    /\ ~topped_up => FoldSeq(+, 0, [c \in Classes |-> Total(queues[c])]) <= current_size

\* While no request is under way, each request was counted as a hit, a miss with
\* an allocation, or a direct allocation; and a thread is given a buffer that is
\* large enough from the queue of the class it asked for.
RequestsAddUp ==
    /\ stats_lock = None =>
         /\ stats.total_requests = stats.pool_hits + stats.pool_misses + stats.direct_allocations
         /\ stats.new_allocations = stats.pool_misses
    /\ \A t \in Threads : pc[t] \in {"taken", "got"} =>
         /\ held[t][Len(held[t])].class = from_size(asked[t])
         /\ held[t][Len(held[t])].capacity >= asked[t]

\* Every call returns: get_buffer waits for the queues with the statistics in
\* hand, so nobody may wait for the statistics with the queues in hand.
Busy(t) == pc[t] # "idle"
=============================================================================
