---------------------------- MODULE LazyDocument ----------------------------
(***************************************************************************)
(* LazyDocument of memory/lazy_loader.rs: a parsed document behind a       *)
(* mutex, and in front of it an object cache behind a lock of its own,     *)
(* used by several threads.  A lookup, the parse and the insertion are     *)
(* three steps.  The counters of hits and misses are left out.             *)
(*                                                                         *)
(* The file says which references its index has, which of them cannot be   *)
(* parsed, and of each page whether it can be loaded and to which fonts    *)
(* and images its resources refer.  The object behind a reference is the   *)
(* reference itself.  What the parser does below the mutex, with caches    *)
(* of its own, is in ObjectReader and PageTree.                            *)
(***************************************************************************)
EXTENDS LruCache, Functions

CONSTANTS
    Threads,
    Files,        \* the files considered
    MaxCalls      \* bound on the calls made

\* What the constants are; the answers that are no object have names of their own.
SoundConstants ==
    /\ Files \subseteq [indexed : SUBSET Keys, damaged : SUBSET Keys,
                       pages : Seq([damaged : BOOLEAN, fonts : Seq(Keys), xobjects : Seq(Keys)])]
    /\ CacheSizes \subseteq Nat /\ MaxCalls \in Nat /\ IsFiniteSet(Keys)
    /\ Keys \cap {"invalid", "failed"} = {}
    /\ None \notin Keys \cup [op : {"get_object", "get_page", "preload_page"}, arg : Keys \cup Nat]

VARIABLES
    file,
    lru,           \* the cache of MemoryManager; capacity 0 stands for no cache
    poisoned,      \* the document's mutex is poisoned by a panic
    pc,
    call,          \* call[t]: the call thread t is in
    want,          \* want[t]: the object that call is getting
    todo,          \* todo[t]: the objects preload_page gets after that one
    told,          \* told[t]: the answer to the last call of t, if it has ended
    calls,         \* number of calls made
    recent         \* history: the keys in order of use since the last clear

vars == <<file, lru, poisoned, pc, call, want, todo, told, calls, recent>>

Init ==
    /\ file \in Files
    /\ lru \in {EmptyCache(n) : n \in CacheSizes}
    /\ poisoned = FALSE
    /\ pc = [t \in Threads |-> "idle"]
    /\ call = [t \in Threads |-> None]
    /\ want = [t \in Threads |-> None]
    /\ todo = [t \in Threads |-> <<>>]
    /\ told = [t \in Threads |-> None]
    /\ calls = 0
    /\ recent = <<>>

Goto(t, label) == pc' = [pc EXCEPT ![t] = label]

-----------------------------------------------------------------------------
(* Calls *)

Begin(t) == pc[t] = "idle" /\ calls < MaxCalls /\ calls' = calls + 1

CallGetObject(t, k) ==
    /\ Begin(t)
    /\ Goto(t, "check")
    /\ call' = [call EXCEPT ![t] = [op |-> "get_object", arg |-> k]]
    /\ want' = [want EXCEPT ![t] = k]
    /\ told' = [told EXCEPT ![t] = None]
    /\ UNCHANGED <<file, lru, poisoned, todo, recent>>

CallPage(t, op, i) ==
    /\ Begin(t)
    /\ Goto(t, "bounds")
    /\ call' = [call EXCEPT ![t] = [op |-> op, arg |-> i]]
    /\ told' = [told EXCEPT ![t] = None]
    /\ UNCHANGED <<file, lru, poisoned, want, todo, recent>>

ClearCache(t) ==
    /\ Begin(t)
    /\ lru' = Clear(lru)
    /\ recent' = <<>>
    /\ UNCHANGED <<file, poisoned, pc, call, want, todo, told>>

\* The call ends with answer a.
Return(t, a) ==
    /\ Goto(t, "idle")
    /\ told' = [told EXCEPT ![t] = a]
    /\ todo' = [todo EXCEPT ![t] = <<>>]
    /\ call' = [call EXCEPT ![t] = None]
    /\ want' = [want EXCEPT ![t] = None]

\* An object or page was got: preload_page goes on with the first of next.
Deliver(t, a, next) ==
    IF next = <<>>
    THEN Return(t, IF call[t].op = "get_object" THEN a ELSE "page")
    ELSE /\ Goto(t, "check")
         /\ want' = [want EXCEPT ![t] = Head(next)]
         /\ todo' = [todo EXCEPT ![t] = Tail(next)]
         /\ UNCHANGED <<call, told>>

-----------------------------------------------------------------------------
(* get_object *)

CheckReference(t) ==
    /\ pc[t] = "check"
    /\ IF want[t] \notin file.indexed THEN Return(t, "invalid")
       ELSE /\ Goto(t, IF lru.capacity > 0 THEN "lookup" ELSE "parse")
            /\ UNCHANGED <<call, want, todo, told>>
    /\ UNCHANGED <<file, lru, poisoned, calls, recent>>

\* The history has every key that was found or inserted, the latest use first.
Used(k) == <<k>> \o Without(recent, k)

\* A faulty variant of Lookup: preload_page returns at the first object found.
ReturnOnHit(t) ==
    /\ pc[t] = "lookup"
    /\ IF ContainsKey(lru, want[t])
       THEN /\ Return(t, IF call[t].op = "get_object" THEN want[t] ELSE "page")
            /\ recent' = Used(want[t])
       ELSE Goto(t, "parse") /\ UNCHANGED <<call, want, todo, told, recent>>
    /\ lru' = Get(lru, want[t])
    /\ UNCHANGED <<file, poisoned, calls>>

\* The thread shares the object it found, whatever becomes of the cache.
Lookup(t) ==
    /\ pc[t] = "lookup"
    /\ IF ContainsKey(lru, want[t])
       THEN /\ Deliver(t, want[t], todo[t])
            /\ recent' = Used(want[t])
       ELSE Goto(t, "parse") /\ UNCHANGED <<call, want, todo, told, recent>>
    /\ lru' = Get(lru, want[t])
    /\ UNCHANGED <<file, poisoned, calls>>

Parse(t) ==
    /\ pc[t] = "parse"
    /\ IF poisoned \/ want[t] \in file.damaged THEN Return(t, "failed")
       ELSE Goto(t, "insert") /\ UNCHANGED <<call, want, todo, told>>
    /\ UNCHANGED <<file, lru, poisoned, calls, recent>>

\* Another thread may have inserted the same object meanwhile.
Insert(t) ==
    /\ pc[t] = "insert"
    /\ lru' = Put(lru, want[t], want[t])
    /\ recent' = Used(want[t])
    /\ Deliver(t, want[t], todo[t])
    /\ UNCHANGED <<file, poisoned, calls>>

-----------------------------------------------------------------------------
(* get_page and preload_page *)

CheckIndex(t) ==
    /\ pc[t] = "bounds"
    /\ IF call[t].arg >= Len(file.pages) THEN Return(t, "invalid")
       ELSE Goto(t, "page") /\ UNCHANGED <<call, want, todo, told>>
    /\ UNCHANGED <<file, lru, poisoned, calls, recent>>

\* The values of a dictionary come in any order.
Orders(s) == {[i \in DOMAIN s |-> s[p[i]]] : p \in Bijection(DOMAIN s, DOMAIN s)}

LoadPage(t) ==
    /\ pc[t] = "page"
    /\ LET page == file.pages[call[t].arg + 1] IN
       IF poisoned \/ page.damaged THEN Return(t, "failed")
       ELSE IF call[t].op = "get_page" THEN Deliver(t, "page", <<>>)
       ELSE \E fonts \in Orders(page.fonts), xobjects \in Orders(page.xobjects) :
                Deliver(t, "page", fonts \o xobjects)
    /\ UNCHANGED <<file, lru, poisoned, calls, recent>>

\* A panic below the mutex ends the thread; later calls find the mutex poisoned.
ParserPanics(t) ==
    /\ pc[t] \in {"parse", "page"} /\ ~poisoned
    /\ Goto(t, "dead")
    /\ poisoned' = TRUE
    /\ UNCHANGED <<file, lru, call, want, todo, told, calls, recent>>

-----------------------------------------------------------------------------
Step(t) ==
    \/ CheckReference(t) \/ Lookup(t) \/ Parse(t) \/ Insert(t)
    \/ CheckIndex(t) \/ LoadPage(t)

Next ==
    \E t \in Threads :
       \/ \E k \in Keys : CallGetObject(t, k)
       \/ \E op \in {"get_page", "preload_page"}, i \in 0..Len(file.pages) : CallPage(t, op, i)
       \/ ClearCache(t)
       \/ Step(t)
       \/ ParserPanics(t)

Spec == Init /\ [][Next]_vars

FairSpec == Spec /\ \A t \in Threads : WF_vars(Step(t))

-----------------------------------------------------------------------------
(* Properties *)

Labels == {"idle", "check", "lookup", "parse", "insert", "bounds", "page", "dead"}

\* Types of the variables.
TypeOK ==
    /\ lru.capacity \in CacheSizes
    /\ lru.map \in [Keys -> Keys \cup {None}]
    /\ lru.order \in Seq(Keys) /\ recent \in Seq(Keys)
    /\ calls \in 0..MaxCalls
    /\ poisoned \in BOOLEAN
    /\ pc \in [Threads -> Labels]
    /\ want \in [Threads -> Keys \cup {None}]
    /\ todo \in [Threads -> Seq(Keys)]
    /\ told \in [Threads -> Keys \cup {None, "invalid", "failed", "page"}]

\* The cache holds the objects used last since the last clear, as many as it
\* has room for and in the order of their use, each under its own key: hits,
\* insertions by two threads that missed the same object and evictions leave
\* the queue and the map with the same keys, none of them twice.
CacheIsLru ==
    /\ lru.order = SubSeq(recent, 1, IF Len(recent) < lru.capacity THEN Len(recent) ELSE lru.capacity)
    /\ CachedKeys(lru) = {lru.order[i] : i \in DOMAIN lru.order}
    /\ \A k \in CachedKeys(lru) : lru.map[k] = k

\* The document of PlainDocument: a call is answered as if there were no cache.
Document == INSTANCE PlainDocument WITH
    asked <- call, dead <- {t \in Threads : pc[t] = "dead"}

\* "References remain accessible after clearing or eviction": every call gets
\* the answer of the file, with two threads at work, whatever the cache did.
AnswersFromFile == Document!Spec

\* Every call of a thread that no panic ends returns.
Busy(t) == pc[t] \notin {"idle", "dead"}
=============================================================================
