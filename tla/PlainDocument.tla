---------------------------- MODULE PlainDocument ----------------------------
(***************************************************************************)
(* What callers of LazyDocument see: a document without a cache.  A call   *)
(* is answered from the file, whatever other threads ask, clear or evict,  *)
(* and whatever was asked before.  Once a panic in the parser has poisoned *)
(* the document's lock, a call that would have succeeded may fail as well. *)
(***************************************************************************)
EXTENDS Integers, Sequences

CONSTANTS Threads, Keys, None

VARIABLES
    file,       \* what the file holds: see LazyDocument
    asked,      \* asked[t]: the call thread t waits for, or None
    told,       \* told[t]: the answer to its last call, if it has ended
    dead        \* the threads ended by a panic

vars == <<file, asked, told, dead>>

Calls ==      [op : {"get_object"}, arg : Keys]
         \cup [op : {"get_page", "preload_page"}, arg : 0..Len(file.pages)]

\* The answer to a request for one object.
ObjectAnswer(k) ==
    IF k \notin file.indexed THEN "invalid" ELSE IF k \in file.damaged THEN "failed" ELSE k

\* The answer to a request for page i, counted from 0.
PageAnswer(i) ==
    IF i >= Len(file.pages) THEN "invalid" ELSE IF file.pages[i + 1].damaged THEN "failed" ELSE "page"

\* preload_page succeeds if the page and all its fonts and images can be had.
PreloadAnswers(i) ==
    IF PageAnswer(i) # "page" THEN {PageAnswer(i)}
    ELSE LET page == file.pages[i + 1]
             used == {page.fonts[j] : j \in DOMAIN page.fonts}
                     \cup {page.xobjects[j] : j \in DOMAIN page.xobjects}
             bad  == {ObjectAnswer(k) : k \in used} \cap {"invalid", "failed"}
         IN  IF bad = {} THEN {"page"} ELSE bad

Answers(call) ==
    CASE call.op = "get_object"   -> {ObjectAnswer(call.arg)}
      [] call.op = "get_page"     -> {PageAnswer(call.arg)}
      [] call.op = "preload_page" -> PreloadAnswers(call.arg)

Init ==
    /\ asked = [t \in Threads |-> None]
    /\ told = [t \in Threads |-> None]
    /\ dead = {}

Ask(t, call) ==
    /\ asked[t] = None /\ t \notin dead
    /\ asked' = [asked EXCEPT ![t] = call]
    /\ told' = [told EXCEPT ![t] = None]
    /\ UNCHANGED <<file, dead>>

Answer(t) ==
    /\ asked[t] # None /\ t \notin dead
    /\ \E a \in Answers(asked[t]) \cup (IF dead # {} THEN {"failed"} ELSE {}) :
          told' = [told EXCEPT ![t] = a]
    /\ asked' = [asked EXCEPT ![t] = None]
    /\ UNCHANGED <<file, dead>>

\* The parser panics on behalf of thread t.
Panic(t) ==
    /\ asked[t] # None /\ dead = {}
    /\ dead' = {t}
    /\ UNCHANGED <<file, asked, told>>

Next == \E t \in Threads : (\E call \in Calls : Ask(t, call)) \/ Answer(t) \/ Panic(t)

Spec == Init /\ [][Next]_vars
=============================================================================
