-------------------------- MODULE LazyDocumentProofs --------------------------
(***************************************************************************)
(* Proof that callers of LazyDocument cannot tell that it has a cache, and *)
(* that the cache holds what was used last, for every number of threads,   *)
(* every file and every capacity.                                          *)
(***************************************************************************)
EXTENDS LazyDocument, SequenceTheorems, FiniteSetTheorems, FunctionTheorems, WellFoundedInduction, TLAPS

Ops == {"get_object", "get_page", "preload_page"}

\* Types that TypeOK leaves open.
Shape ==
    /\ file \in Files
    /\ lru \in [capacity : CacheSizes, map : [Keys -> Keys \cup {None}], order : Seq(Keys)]
    /\ call \in [Threads -> {None} \cup [op : Ops, arg : Keys \cup Nat]]

\* The object behind k can be had.
Found(k) == k \in file.indexed /\ k \notin file.damaged

\* The fonts and images of page i, counted from 0.
Needs(i) == Range(file.pages[i + 1].fonts) \cup Range(file.pages[i + 1].xobjects)

\* Thread t has got all that its call asks for but the objects of next.
Progress(t, next) ==
    \/ /\ call[t].op = "get_object" /\ call[t].arg \in Keys
       /\ next = <<>> /\ Found(call[t].arg)
    \/ /\ call[t].op = "get_page" /\ call[t].arg \in 0..(Len(file.pages) - 1)
       /\ ~file.pages[call[t].arg + 1].damaged
       /\ next = <<>>
    \/ /\ call[t].op = "preload_page" /\ call[t].arg \in 0..(Len(file.pages) - 1)
       /\ ~file.pages[call[t].arg + 1].damaged
       /\ Range(next) \subseteq Needs(call[t].arg)
       /\ \A k \in Needs(call[t].arg) \ Range(next) : Found(k)

\* Thread t gets want[t]: once it is found, its call needs only what todo[t] lists.
Getting(t) ==
    /\ want[t] \in Keys
    /\ \/ /\ call[t] = [op |-> "get_object", arg |-> want[t]]
          /\ todo[t] = <<>>
       \/ /\ call[t].op = "preload_page" /\ call[t].arg \in 0..(Len(file.pages) - 1)
          /\ ~file.pages[call[t].arg + 1].damaged
          /\ {want[t]} \cup Range(todo[t]) \subseteq Needs(call[t].arg)
          /\ \A k \in Needs(call[t].arg) \ ({want[t]} \cup Range(todo[t])) : Found(k)

\* Where a thread is in its call.
CallOf(t) ==
    /\ pc[t] = "idle" <=> call[t] = None
    /\ pc[t] \in {"idle", "bounds", "page"} => todo[t] = <<>>
    /\ pc[t] \in {"bounds", "page"} => call[t].op \in {"get_page", "preload_page"} /\ call[t].arg \in Nat
    /\ pc[t] = "page" => call[t].arg < Len(file.pages)
    /\ pc[t] \in {"check", "lookup", "parse", "insert"} => Getting(t)
    /\ pc[t] \in {"lookup", "parse", "insert"} => want[t] \in file.indexed
    /\ pc[t] = "insert" => want[t] \notin file.damaged

\* What is in the cache can be had from the file, and the document's lock is
\* poisoned once a thread has died.
CallsInv ==
    /\ \A t \in Threads : CallOf(t)
    /\ \A k \in Keys : lru.map[k] # None => Found(k)
    /\ poisoned <=> \E t \in Threads : pc[t] = "dead"

-----------------------------------------------------------------------------
(* What the file answers. *)

\* The answers of PlainDocument, by kind of call.
LEMMA AnswersByOp ==
    ASSUME NEW c
    PROVE  /\ c.op = "get_object" => Document!Answers(c) = {Document!ObjectAnswer(c.arg)}
           /\ c.op = "get_page" => Document!Answers(c) = {Document!PageAnswer(c.arg)}
           /\ c.op = "preload_page" => Document!Answers(c) = Document!PreloadAnswers(c.arg)
  BY DEF Document!Answers

\* A file and the pages of a file.
LEMMA FileShape ==
    ASSUME SoundConstants, file \in Files
    PROVE  /\ file.indexed \subseteq Keys /\ file.damaged \subseteq Keys
           /\ file.pages \in Seq([damaged : BOOLEAN, fonts : Seq(Keys), xobjects : Seq(Keys)])
           /\ Len(file.pages) \in Nat
           /\ \A i \in 0..(Len(file.pages) - 1) :
                 /\ file.pages[i + 1] \in [damaged : BOOLEAN, fonts : Seq(Keys), xobjects : Seq(Keys)]
                 /\ Needs(i) \subseteq Keys
<1>1. file \in [indexed : SUBSET Keys, damaged : SUBSET Keys,
                pages : Seq([damaged : BOOLEAN, fonts : Seq(Keys), xobjects : Seq(Keys)])]
  BY DEF SoundConstants
<1>2. /\ file.indexed \subseteq Keys /\ file.damaged \subseteq Keys
      /\ file.pages \in Seq([damaged : BOOLEAN, fonts : Seq(Keys), xobjects : Seq(Keys)])
  BY <1>1
<1>3. Len(file.pages) \in Nat
  BY <1>2
<1>4. ASSUME NEW i \in 0..(Len(file.pages) - 1)
      PROVE  /\ file.pages[i + 1] \in [damaged : BOOLEAN, fonts : Seq(Keys), xobjects : Seq(Keys)]
             /\ Needs(i) \subseteq Keys
  <2>1. i + 1 \in 1..Len(file.pages)
    BY <1>3
  <2>2. file.pages[i + 1] \in [damaged : BOOLEAN, fonts : Seq(Keys), xobjects : Seq(Keys)]
    BY <1>2, <2>1, ElementOfSeq
  <2>3. file.pages[i + 1].fonts \in Seq(Keys) /\ file.pages[i + 1].xobjects \in Seq(Keys)
    BY <2>2
  <2>. QED
    BY <2>2, <2>3, RangeOfSeq DEF Needs
<1>. QED
  BY <1>2, <1>3, <1>4

\* The answers of PlainDocument, by what the file holds.
LEMMA FileAnswers ==
    ASSUME SoundConstants, file \in Files
    PROVE  /\ \A k \in Keys : Found(k) => Document!ObjectAnswer(k) = k /\ k \notin {"invalid", "failed"}
           /\ \A k : k \notin file.indexed => Document!ObjectAnswer(k) = "invalid"
           /\ \A k : k \in file.indexed /\ k \in file.damaged => Document!ObjectAnswer(k) = "failed"
           /\ \A i : i >= Len(file.pages) => Document!PageAnswer(i) = "invalid"
           /\ \A i \in 0..(Len(file.pages) - 1) :
                 Document!PageAnswer(i) = IF file.pages[i + 1].damaged THEN "failed" ELSE "page"
<1>1. \A k \in Keys : Found(k) => Document!ObjectAnswer(k) = k /\ k \notin {"invalid", "failed"}
  BY DEF SoundConstants, Found, Document!ObjectAnswer
<1>2. \A i \in 0..(Len(file.pages) - 1) :
         Document!PageAnswer(i) = IF file.pages[i + 1].damaged THEN "failed" ELSE "page"
  BY FileShape DEF Document!PageAnswer
<1>. QED
  BY <1>1, <1>2 DEF Document!ObjectAnswer, Document!PageAnswer

\* A page that cannot be loaded cannot be preloaded, nor one with an object that
\* cannot be had; any other can.
LEMMA PreloadAnswer ==
    ASSUME SoundConstants, file \in Files, NEW i
    PROVE  /\ Document!PageAnswer(i) # "page" => Document!PreloadAnswers(i) = {Document!PageAnswer(i)}
           /\ Document!PageAnswer(i) = "page" =>
                /\ (\A k \in Needs(i) : Found(k)) /\ Needs(i) \subseteq Keys => "page" \in Document!PreloadAnswers(i)
                /\ \A k \in Needs(i) : Document!ObjectAnswer(k) \in {"invalid", "failed"} =>
                      Document!ObjectAnswer(k) \in Document!PreloadAnswers(i)
<1>1. Document!PageAnswer(i) # "page" => Document!PreloadAnswers(i) = {Document!PageAnswer(i)}
  BY DEF Document!PreloadAnswers
<1>. DEFINE page == file.pages[i + 1]
            used == {page.fonts[j] : j \in DOMAIN page.fonts} \cup {page.xobjects[j] : j \in DOMAIN page.xobjects}
            bad  == {Document!ObjectAnswer(k) : k \in used} \cap {"invalid", "failed"}
<1>2. used = Needs(i)
  BY DEF Needs, Range
<1>3. Document!PageAnswer(i) = "page" => Document!PreloadAnswers(i) = IF bad = {} THEN {"page"} ELSE bad
  BY DEF Document!PreloadAnswers
<1>4. (\A k \in Needs(i) : Found(k)) /\ Needs(i) \subseteq Keys => bad = {}
  BY <1>2, FileAnswers
<1>5. \A k \in Needs(i) : Document!ObjectAnswer(k) \in {"invalid", "failed"} => Document!ObjectAnswer(k) \in bad
  BY <1>2
<1>. QED
  BY <1>1, <1>3, <1>4, <1>5

-----------------------------------------------------------------------------
(* How calls end. *)

Dead == {t \in Threads : pc[t] = "dead"}

\* The answers a call of thread t may get.
Allowed(t) == Document!Answers(call[t]) \cup (IF Dead # {} THEN {"failed"} ELSE {})

\* A call that ends with an answer of the file is answered by PlainDocument too.
LEMMA ReturnAnswers ==
    ASSUME TypeOK, Shape, CallsInv, NEW t \in Threads, pc[t] \notin {"idle", "dead"},
           NEW a, a \in Allowed(t), Return(t, a), file' = file
    PROVE  Document!Next
<1>1. Dead' = Dead
  BY DEF Return, Goto, Dead, TypeOK
<1>2. call[t] # None /\ t \notin Dead
  BY DEF CallsInv, CallOf, Dead
<1>3. Document!Answer(t)
  BY <1>1, <1>2 DEF Return, Document!Answer, Allowed, Dead
<1>. QED
  BY <1>3 DEF Document!Next

\* A call that ends leaves its thread without one.
LEMMA ReturnKeeps ==
    ASSUME TypeOK, Shape, CallsInv, NEW t \in Threads, NEW a, Return(t, a), file' = file
    PROVE  CallOf(t)' /\ pc'[t] = "idle"
  BY DEF Return, Goto, TypeOK, Shape, CallOf

\* A thread that goes on with its call keeps the callers waiting.
LEMMA GoOn ==
    ASSUME TypeOK, NEW t \in Threads, NEW label, label # "dead", pc[t] # "dead", Goto(t, label),
           UNCHANGED <<file, call, told>>
    PROVE  UNCHANGED Document!vars
<1>1. Dead' = Dead
  BY DEF Goto, Dead, TypeOK
<1>. QED
  BY <1>1 DEF Document!vars, Dead

\* An object or page that was got ends the call, or leaves the rest of it to do.
LEMMA DeliverStep ==
    ASSUME SoundConstants, TypeOK, Shape, CallsInv, NEW t \in Threads, pc[t] \notin {"idle", "dead"},
           NEW next \in Seq(Keys), Progress(t, next), NEW a,
           call[t].op = "get_object" => a = call[t].arg,
           Deliver(t, a, next), file' = file
    PROVE  /\ Document!Next \/ UNCHANGED Document!vars
           /\ CallOf(t)'
           /\ pc'[t] # "dead"
<1>. DEFINE answer == IF call[t].op = "get_object" THEN a ELSE "page"
<1>1. CASE next = <<>>
  <2>1. Return(t, answer)
    BY <1>1 DEF Deliver
  <2>2. answer \in Document!Answers(call[t])
    <3>1. CASE call[t].op = "get_object"
      <4>1. call[t].arg \in Keys /\ Found(call[t].arg) /\ answer = call[t].arg
        BY <3>1 DEF Progress
      <4>2. Document!ObjectAnswer(call[t].arg) = call[t].arg
        BY <4>1, FileAnswers DEF Shape
      <4>3. Document!Answers(call[t]) = {Document!ObjectAnswer(call[t].arg)}
        BY <3>1, AnswersByOp
      <4>. QED
        BY <4>1, <4>2, <4>3
    <3>2. CASE call[t].op = "get_page"
      BY <3>2, AnswersByOp, FileAnswers DEF Progress, Shape
    <3>3. CASE call[t].op = "preload_page"
      <4>1. call[t].arg \in 0..(Len(file.pages) - 1) /\ ~file.pages[call[t].arg + 1].damaged
        BY <3>3 DEF Progress
      <4>2. Document!PageAnswer(call[t].arg) = "page"
        BY <4>1, FileAnswers DEF Shape
      <4>3. \A k \in Needs(call[t].arg) : Found(k)
        BY <1>1, <3>3 DEF Progress, Range
      <4>4. Needs(call[t].arg) \subseteq Keys
        BY <4>1, FileShape DEF Shape
      <4>5. "page" \in Document!PreloadAnswers(call[t].arg)
        BY <4>2, <4>3, <4>4, PreloadAnswer DEF Shape
      <4>. QED
        BY <3>3, <4>5, AnswersByOp
    <3>. QED
      BY <3>1, <3>2, <3>3 DEF Progress
  <2>. QED
    BY <2>1, <2>2, ReturnAnswers, ReturnKeeps DEF Allowed
<1>2. CASE next # <<>>
  <2>1. /\ pc' = [pc EXCEPT ![t] = "check"] /\ call' = call /\ told' = told
        /\ want' = [want EXCEPT ![t] = Head(next)] /\ todo' = [todo EXCEPT ![t] = Tail(next)]
    BY <1>2 DEF Deliver, Goto
  <2>2. UNCHANGED Document!vars
    BY <2>1, GoOn DEF Goto
  <2>3. Head(next) \in Keys /\ Tail(next) \in Seq(Keys) /\ Range(next) = {Head(next)} \cup Range(Tail(next))
    <3>1. Head(next) \in Keys /\ Tail(next) \in Seq(Keys)
      BY <1>2, HeadTailProperties
    <3>2. \A i \in 1..Len(next) : IF i = 1 THEN next[i] = Head(next) ELSE i - 1 \in 1..Len(Tail(next)) /\ next[i] = Tail(next)[i - 1]
      BY <1>2, HeadTailProperties
    <3>3. \A i \in 1..Len(Tail(next)) : i + 1 \in 1..Len(next) /\ Tail(next)[i] = next[i + 1]
      BY <1>2, HeadTailProperties
    <3>4. 1 \in 1..Len(next) /\ DOMAIN next = 1..Len(next) /\ DOMAIN Tail(next) = 1..Len(Tail(next))
      BY <1>2, <3>1
    <3>5. ASSUME NEW i \in 1..Len(next) PROVE next[i] \in {Head(next)} \cup Range(Tail(next))
      <4>1. CASE i = 1
        BY <3>2, <4>1
      <4>2. CASE i # 1
        BY <3>2, <3>4, <4>2 DEF Range
      <4>. QED
        BY <4>1, <4>2
    <3>6. Head(next) \in Range(next)
      BY <3>2, <3>4 DEF Range
    <3>7. Range(Tail(next)) \subseteq Range(next)
      BY <3>3, <3>4 DEF Range
    <3>8. Range(next) \subseteq {Head(next)} \cup Range(Tail(next))
      BY <3>4, <3>5 DEF Range
    <3>. QED
      BY <3>1, <3>6, <3>7, <3>8
  <2>4. pc'[t] = "check" /\ want'[t] = Head(next) /\ todo'[t] = Tail(next) /\ call'[t] = call[t]
    BY <2>1 DEF TypeOK
  <2>5. call[t].op = "preload_page" /\ call[t] # None
    BY <1>2 DEF Progress, CallsInv, CallOf
  <2>6. Getting(t)'
    BY <2>3, <2>4, <2>5 DEF Progress, Getting, Needs, Found
  <2>7. CallOf(t)'
    BY <2>4, <2>5, <2>6 DEF CallOf
  <2>. QED
    BY <2>2, <2>4, <2>7
<1>. QED
  BY <1>1, <1>2
-----------------------------------------------------------------------------
(* The queue of the keys, and the same queue without a key. *)

NoKeyTwice(s) == \A i, j \in 1..Len(s) : s[i] = s[j] => i = j

\* j is the place of k in s, or the one after the last if k is not in s.
IsPlace(j, s, k) == j \in 1..(Len(s) + 1) /\ \A i \in 1..Len(s) : s[i] = k <=> i = j

\* A set of natural numbers that is not empty has a least element.
LEMMA LeastExists ==
    ASSUME NEW S \in SUBSET Nat, S # {}
    PROVE  \E n \in S : \A m \in S : ~(m < n)
<1>1. PICK n \in S : \A m \in S : <<m, n>> \notin OpToRel(<, Nat)
  BY NatLessThanWellFounded, WFMin
<1>. QED
  BY <1>1 DEF OpToRel

\* What retain keeps of the first n keys, one after the other.
IsKept(f, m, s, k) ==
    f = [n \in 0..m |-> IF n = 0 THEN <<>>
                        ELSE IF s[n] = k THEN f[n - 1] ELSE Append(f[n - 1], s[n])]

\* There is a function that says what is kept of the first keys.
LEMMA KeptExists ==
    ASSUME NEW S, NEW s \in Seq(S), NEW k
    PROVE  \A m \in 0..Len(s) : \E f \in [0..m -> Seq(S)] : IsKept(f, m, s, k)
<1>. DEFINE Bad == {m \in 0..Len(s) : ~ \E f \in [0..m -> Seq(S)] : IsKept(f, m, s, k)}
<1>1. Len(s) \in Nat /\ \A n \in 1..Len(s) : s[n] \in S
  BY ElementOfSeq
<1>2. SUFFICES ASSUME Bad # {} PROVE FALSE
  OBVIOUS
<1>3. Bad \in SUBSET Nat
  BY <1>1
<1>4. PICK m \in Bad : \A n \in Bad : ~(n < m)
  <2>. HIDE DEF Bad
  <2>. QED
    BY <1>2, <1>3, LeastExists
<1>5. CASE m = 0
  <2>. DEFINE f == [n \in 0..0 |-> <<>>]
  <2>1. f \in [0..0 -> Seq(S)]
    OBVIOUS
  <2>2. IsKept(f, 0, s, k)
    BY DEF IsKept
  <2>. QED
    BY <1>5, <2>1, <2>2
<1>6. CASE m # 0
  <2>1. m \in 1..Len(s) /\ m - 1 \in 0..Len(s) /\ m - 1 < m /\ m \in Nat
    BY <1>1, <1>6
  <2>2. m - 1 \notin Bad
    BY <1>4, <2>1
  <2>3. PICK f \in [0..(m - 1) -> Seq(S)] : IsKept(f, m - 1, s, k)
    BY <2>1, <2>2
  <2>. DEFINE last == IF s[m] = k THEN f[m - 1] ELSE Append(f[m - 1], s[m])
              g    == [n \in 0..m |-> IF n = m THEN last ELSE f[n]]
  <2>4. f[m - 1] \in Seq(S) /\ s[m] \in S
    BY <1>1, <2>1
  <2>5. last \in Seq(S)
    BY <2>4
  <2>6. \A n \in 0..m : n # m => n \in 0..(m - 1)
    BY <2>1
  <2>7. g \in [0..m -> Seq(S)]
    <3>. HIDE DEF last
    <3>. QED
      BY <2>5, <2>6
  <2>8. ASSUME NEW n \in 0..m
        PROVE  g[n] = IF n = 0 THEN <<>> ELSE IF s[n] = k THEN g[n - 1] ELSE Append(g[n - 1], s[n])
    <3>1. CASE n = m
      <4>1. n # 0 /\ n - 1 \in 0..m /\ n - 1 # m
        BY <2>1, <3>1
      <4>2. g[n] = last /\ g[n - 1] = f[n - 1]
        BY <3>1, <4>1
      <4>. QED
        BY <3>1, <4>1, <4>2
    <3>2. CASE n # m
      <4>1. n \in 0..(m - 1) /\ g[n] = f[n]
        BY <2>6, <3>2
      <4>2. f[n] = IF n = 0 THEN <<>> ELSE IF s[n] = k THEN f[n - 1] ELSE Append(f[n - 1], s[n])
        BY <2>3, <4>1 DEF IsKept
      <4>3. n # 0 => n - 1 \in 0..m /\ n - 1 # m
        BY <2>1, <4>1
      <4>4. n # 0 => g[n - 1] = f[n - 1]
        BY <4>3
      <4>. HIDE DEF g
      <4>. QED
        BY <4>1, <4>2, <4>4
    <3>. QED
      BY <3>1, <3>2
  <2>9. IsKept(g, m, s, k)
    <3>1. g = [n \in 0..m |-> g[n]]
      OBVIOUS
    <3>. HIDE DEF g
    <3>. QED
      BY <2>8, <3>1 DEF IsKept
  <2>. QED
    BY <2>7, <2>9
<1>. QED
  BY <1>5, <1>6

\* retain gives what is kept of all keys.
KeepsAll(f, s, k) ==
    /\ f[0] = <<>>
    /\ \A n \in 1..Len(s) : f[n] = IF s[n] = k THEN f[n - 1] ELSE Append(f[n - 1], s[n])
    /\ Without(s, k) = f[Len(s)]

\* There is a function that says so.
LEMMA WithoutIsKept ==
    ASSUME NEW S, NEW s \in Seq(S), NEW k
    PROVE  \E f \in [0..Len(s) -> Seq(S)] : KeepsAll(f, s, k)
<1>. DEFINE g == CHOOSE g : g = [n \in 0..Len(s) |->
                    IF n = 0 THEN <<>> ELSE IF s[n] = k THEN g[n - 1] ELSE Append(g[n - 1], s[n])]
<1>1. Len(s) \in Nat
  OBVIOUS
<1>2. PICK f \in [0..Len(s) -> Seq(S)] : IsKept(f, Len(s), s, k)
  <2>1. \A m \in 0..Len(s) : \E f \in [0..m -> Seq(S)] : IsKept(f, m, s, k)
    BY KeptExists
  <2>2. Len(s) \in 0..Len(s)
    BY <1>1
  <2>. QED
    BY ONLY <2>1, <2>2
<1>3. IsKept(g, Len(s), s, k)
  BY <1>2 DEF IsKept
<1>4. Without(s, k) = g[Len(s)]
  BY Zenon DEF Without
<1>. HIDE DEF g
<1>5. \A n \in 0..Len(s) : g[n] = IF n = 0 THEN <<>> ELSE IF s[n] = k THEN g[n - 1] ELSE Append(g[n - 1], s[n])
  BY <1>3 DEF IsKept
<1>6. \A n \in 0..Len(s) : f[n] = IF n = 0 THEN <<>> ELSE IF s[n] = k THEN f[n - 1] ELSE Append(f[n - 1], s[n])
  BY <1>2 DEF IsKept
<1>7. \A n \in 0..Len(s) : g[n] = f[n]
  <2>. DEFINE Bad == {n \in 0..Len(s) : g[n] # f[n]}
  <2>1. SUFFICES ASSUME Bad # {} PROVE FALSE
    OBVIOUS
  <2>2. PICK n \in Bad : \A m \in Bad : ~(m < n)
    <3>1. Bad \in SUBSET Nat
      BY <1>1
    <3>. HIDE DEF Bad
    <3>. QED
      BY <2>1, <3>1, LeastExists
  <2>3. n # 0
    BY <1>5, <1>6, <2>2
  <2>4. n \in 0..Len(s) /\ n - 1 \in 0..Len(s) /\ n - 1 < n
    BY <1>1, <2>2, <2>3
  <2>5. g[n - 1] = f[n - 1]
    BY <2>2, <2>4
  <2>6. g[n] = f[n]
    BY <1>5, <1>6, <2>3, <2>4, <2>5
  <2>. QED
    BY <2>2, <2>6
<1>8. f[0] = <<>>
  BY <1>1, <1>6
<1>9. ASSUME NEW n \in 1..Len(s) PROVE f[n] = IF s[n] = k THEN f[n - 1] ELSE Append(f[n - 1], s[n])
  <2>1. n \in 0..Len(s) /\ n # 0
    BY <1>1
  <2>2. f[n] = IF n = 0 THEN <<>> ELSE IF s[n] = k THEN f[n - 1] ELSE Append(f[n - 1], s[n])
    BY <1>6, <2>1
  <2>. QED
    BY <2>1, <2>2
<1>10. Without(s, k) = f[Len(s)]
  BY <1>1, <1>4, <1>7
<1>11. KeepsAll(f, s, k)
  BY <1>8, <1>9, <1>10 DEF KeepsAll
<1>12. f \in [0..Len(s) -> Seq(S)]
  BY <1>2
<1>. QED
  BY ONLY <1>11, <1>12

\* A sequence stays one.
LEMMA WithoutType == ASSUME NEW S, NEW s \in Seq(S), NEW k PROVE Without(s, k) \in Seq(S)
<1>1. Len(s) \in 0..Len(s)
  OBVIOUS
<1>. QED
  BY <1>1, WithoutIsKept DEF KeepsAll

\* A queue that has k at most once closes up over its place.
LEMMA WithoutCloses ==
    ASSUME NEW S, NEW s \in Seq(S), NEW k, NEW j, IsPlace(j, s, k)
    PROVE  /\ Len(Without(s, k)) = IF j <= Len(s) THEN Len(s) - 1 ELSE Len(s)
           /\ \A i \in 1..Len(Without(s, k)) : Without(s, k)[i] = IF i < j THEN s[i] ELSE s[i + 1]
<1>1. PICK f \in [0..Len(s) -> Seq(S)] : KeepsAll(f, s, k)
  BY WithoutIsKept
<1>. DEFINE Closed(n) == /\ Len(f[n]) = IF j <= n THEN n - 1 ELSE n
                         /\ \A i \in 1..Len(f[n]) : f[n][i] = IF i < j THEN s[i] ELSE s[i + 1]
            Bad == {n \in 0..Len(s) : ~Closed(n)}
<1>2. Len(s) \in Nat /\ j \in Nat /\ j >= 1
  BY DEF IsPlace
<1>3. Bad = {}
  <2>1. SUFFICES ASSUME Bad # {} PROVE FALSE
    OBVIOUS
  <2>2. PICK n \in Bad : \A m \in Bad : ~(m < n)
    <3>1. Bad \in SUBSET Nat
      BY <1>2
    <3>. HIDE DEF Bad
    <3>. QED
      BY <2>1, <3>1, LeastExists
  <2>3. n # 0
    <3>1. Closed(0)
      BY <1>1, <1>2 DEF KeepsAll
    <3>. QED
      BY <2>2, <3>1
  <2>4. n \in 1..Len(s) /\ n - 1 \in 0..Len(s) /\ n - 1 < n /\ n \in Nat
    BY <1>2, <2>2, <2>3
  <2>5. Closed(n - 1)
    BY <2>2, <2>4
  <2>6. f[n - 1] \in Seq(S) /\ s[n] \in S
    BY <2>4, ElementOfSeq
  <2>7. f[n] = IF s[n] = k THEN f[n - 1] ELSE Append(f[n - 1], s[n])
    BY <1>1, <2>4 DEF KeepsAll
  <2>8. s[n] = k <=> n = j
    BY <2>4 DEF IsPlace
  <2>9. CASE n = j
    BY <1>2, <2>4, <2>5, <2>7, <2>8, <2>9
  <2>10. CASE n # j
    <3>1. f[n] = Append(f[n - 1], s[n])
      BY <2>7, <2>8, <2>10
    <3>. DEFINE l == Len(f[n - 1])
    <3>2. l = IF j <= n - 1 THEN n - 2 ELSE n - 1
      BY <1>2, <2>4, <2>5
    <3>3. Len(f[n]) = l + 1 /\ f[n][l + 1] = s[n] /\ \A i \in 1..l : f[n][i] = f[n - 1][i]
      BY <2>6, <3>1, AppendProperties
    <3>4. \A i \in 1..l : f[n - 1][i] = IF i < j THEN s[i] ELSE s[i + 1]
      BY <2>5
    <3>. HIDE DEF l
    <3>5. Len(f[n]) = IF j <= n THEN n - 1 ELSE n
      BY <1>2, <2>4, <2>10, <3>2, <3>3
    <3>6. l \in Nat /\ n = IF l + 1 < j THEN l + 1 ELSE l + 2
      BY <1>2, <2>4, <2>10, <3>2
    <3>7. ASSUME NEW i \in 1..Len(f[n]) PROVE f[n][i] = IF i < j THEN s[i] ELSE s[i + 1]
      <4>1. CASE i = l + 1
        BY <3>3, <3>6, <4>1
      <4>2. CASE i # l + 1
        <5>1. i \in 1..l
          BY <3>3, <3>6, <4>2
        <5>. QED
          BY <3>3, <3>4, <5>1
      <4>. QED
        BY <4>1, <4>2
    <3>8. Closed(n)
      BY <3>5, <3>7
    <3>. QED
      BY <2>2, <3>8
  <2>. QED
    BY <2>9, <2>10
<1>4. Len(s) \in 0..Len(s)
  BY <1>2
<1>5. Closed(Len(s))
  BY <1>3, <1>4
<1>. QED
  BY <1>1, <1>5 DEF KeepsAll

\* A key of a queue without repetitions has one place.
LEMMA PlaceExists ==
    ASSUME NEW S, NEW s \in Seq(S), NoKeyTwice(s), NEW k
    PROVE  \E j : IsPlace(j, s, k)
<1>1. CASE \E j \in 1..Len(s) : s[j] = k
  <2>1. PICK j \in 1..Len(s) : s[j] = k
    BY <1>1
  <2>2. IsPlace(j, s, k)
    BY <2>1 DEF NoKeyTwice, IsPlace
  <2>. QED
    BY <2>2
<1>2. CASE ~ \E j \in 1..Len(s) : s[j] = k
  <2>1. IsPlace(Len(s) + 1, s, k)
    BY <1>2 DEF IsPlace
  <2>. QED
    BY <2>1
<1>. QED
  BY <1>1, <1>2

\* m is s with the key k, which has place j in s, moved to the front.
MovedToFront(m, s, k, j) ==
    /\ Len(m) = IF j <= Len(s) THEN Len(s) ELSE Len(s) + 1
    /\ \A i \in 1..Len(m) : m[i] = IF i = 1 THEN k ELSE IF i <= j THEN s[i - 1] ELSE s[i]
    /\ NoKeyTwice(m)
    /\ Range(m) = Range(s) \cup {k}

\* A key that is used moves to the front; those that were before it move up by one.
LEMMA ToFront ==
    ASSUME NEW S, NEW s \in Seq(S), NEW k \in S, NEW j, IsPlace(j, s, k), NoKeyTwice(s),
           NEW m, m = <<k>> \o Without(s, k)
    PROVE  m \in Seq(S) /\ MovedToFront(m, s, k, j)
<1>. DEFINE w == Without(s, k)
<1>1. w \in Seq(S) /\ Len(w) \in Nat /\ Len(s) \in Nat /\ j \in Nat /\ j >= 1
  BY WithoutType DEF IsPlace
<1>2. /\ Len(w) = IF j <= Len(s) THEN Len(s) - 1 ELSE Len(s)
      /\ \A i \in 1..Len(w) : w[i] = IF i < j THEN s[i] ELSE s[i + 1]
  BY WithoutCloses
<1>3. <<k>> \in Seq(S) /\ Len(<<k>>) = 1 /\ <<k>>[1] = k
  OBVIOUS
<1>. HIDE DEF w
<1>4. m \in Seq(S) /\ Len(m) = 1 + Len(w) /\ m[1] = k /\ \A i \in 2..Len(m) : m[i] = w[i - 1]
  BY <1>1, <1>3 DEF w
<1>5. Len(m) = IF j <= Len(s) THEN Len(s) ELSE Len(s) + 1
  BY <1>1, <1>2, <1>4
<1>6. ASSUME NEW i \in 1..Len(m) PROVE m[i] = IF i = 1 THEN k ELSE IF i <= j THEN s[i - 1] ELSE s[i]
  <2>1. CASE i = 1
    BY <1>4, <2>1
  <2>2. CASE i # 1
    <3>. DEFINE h == i - 1
    <3>1. i \in 2..Len(m) /\ h \in 1..Len(w) /\ h + 1 = i /\ (h < j <=> i <= j)
      BY <1>1, <1>4, <2>2
    <3>. HIDE DEF h
    <3>2. w[h] = IF h < j THEN s[h] ELSE s[h + 1]
      BY <1>2, <3>1
    <3>3. m[i] = w[h]
      BY <1>4, <3>1 DEF h
    <3>. QED
      BY <2>2, <3>1, <3>2, <3>3 DEF h
  <2>. QED
    BY <2>1, <2>2
<1>. DEFINE from(i) == IF i = 1 THEN j ELSE IF i <= j THEN i - 1 ELSE i
<1>7. ASSUME NEW i \in 1..Len(m), i # 1
      PROVE  from(i) \in 1..Len(s) /\ from(i) # j /\ m[i] = s[from(i)] /\ m[i] # k
  <2>1. from(i) \in 1..Len(s) /\ from(i) # j
    BY <1>1, <1>5, <1>7
  <2>2. m[i] = s[from(i)]
    BY <1>6, <1>7
  <2>. HIDE DEF from
  <2>. QED
    BY <2>1, <2>2 DEF IsPlace
<1>8. NoKeyTwice(m)
  <2>. SUFFICES ASSUME NEW i \in 1..Len(m), NEW h \in 1..Len(m), m[i] = m[h] PROVE i = h
    BY DEF NoKeyTwice
  <2>1. CASE i = 1 \/ h = 1
    BY <1>4, <1>7, <2>1
  <2>2. CASE i # 1 /\ h # 1
    <3>1. from(i) = from(h)
      <4>1. from(i) \in 1..Len(s) /\ from(h) \in 1..Len(s) /\ s[from(i)] = s[from(h)]
        BY <1>7, <2>2
      <4>. HIDE DEF from
      <4>. QED
        BY <4>1 DEF NoKeyTwice
    <3>. QED
      BY <1>1, <2>2, <3>1
  <2>. QED
    BY <2>1, <2>2
<1>9. Range(m) \subseteq Range(s) \cup {k}
  <2>1. DOMAIN m = 1..Len(m) /\ DOMAIN s = 1..Len(s)
    BY <1>4
  <2>2. ASSUME NEW i \in 1..Len(m) PROVE m[i] \in Range(s) \cup {k}
    <3>1. CASE i = 1
      BY <1>4, <3>1
    <3>2. CASE i # 1
      <4>1. from(i) \in DOMAIN s /\ m[i] = s[from(i)]
        BY <1>7, <2>1, <3>2
      <4>. HIDE DEF from
      <4>. QED
        BY <4>1 DEF Range
    <3>. QED
      BY <3>1, <3>2
  <2>. QED
    BY <2>1, <2>2 DEF Range
<1>10. Range(s) \cup {k} \subseteq Range(m)
  <2>1. DOMAIN m = 1..Len(m) /\ DOMAIN s = 1..Len(s) /\ 1 \in 1..Len(m)
    BY <1>1, <1>4
  <2>2. k \in Range(m)
    BY <1>4, <2>1 DEF Range
  <2>3. ASSUME NEW h \in 1..Len(s) PROVE s[h] \in Range(m)
    <3>1. CASE h = j
      BY <2>2, <3>1 DEF IsPlace
    <3>2. CASE h < j
      <4>1. h + 1 \in 1..Len(m) /\ h + 1 # 1 /\ h + 1 <= j
        BY <1>1, <1>5, <3>2
      <4>2. m[h + 1] = s[h + 1 - 1]
        BY <1>6, <4>1
      <4>3. h + 1 - 1 = h
        BY <1>1
      <4>4. m[h + 1] = s[h]
        BY <4>2, <4>3
      <4>. QED
        BY <2>1, <4>1, <4>4 DEF Range
    <3>3. CASE h > j
      <4>1. h \in 1..Len(m) /\ h # 1 /\ ~(h <= j)
        BY <1>1, <1>5, <3>3
      <4>2. m[h] = s[h]
        BY <1>6, <4>1
      <4>. QED
        BY <2>1, <4>1, <4>2 DEF Range
    <3>. QED
      BY <1>1, <3>1, <3>2, <3>3
  <2>. QED
    BY <2>1, <2>2, <2>3 DEF Range
<1>. QED
  BY <1>4, <1>5, <1>6, <1>8, <1>9, <1>10 DEF MovedToFront
-----------------------------------------------------------------------------
(* The cache. *)

Caches == [capacity : CacheSizes, map : [Keys -> Keys \cup {None}], order : Seq(Keys)]

\* The queue of the cache is the beginning of the history, as far as there is
\* room, and the map has the same keys.
LruOf(cache, history) ==
    /\ history \in Seq(Keys) /\ NoKeyTwice(history)
    /\ Len(cache.order) = IF Len(history) < cache.capacity THEN Len(history) ELSE cache.capacity
    /\ \A i \in 1..Len(cache.order) : cache.order[i] = history[i]
    /\ \A k \in Keys : cache.map[k] # None <=> k \in Range(cache.order)
    /\ \A k \in Keys : cache.map[k] # None => cache.map[k] = k

\* Nor has the queue of the cache a key twice.
LEMMA OrderNoKeyTwice ==
    ASSUME SoundConstants, NEW cache \in Caches, NEW history, LruOf(cache, history)
    PROVE  /\ cache.order \in Seq(Keys) /\ Len(cache.order) \in Nat /\ cache.capacity \in Nat
           /\ Len(history) \in Nat /\ Len(cache.order) <= Len(history)
           /\ NoKeyTwice(cache.order)
<1>1. cache.order \in Seq(Keys) /\ Len(cache.order) \in Nat /\ cache.capacity \in Nat
  BY DEF Caches, SoundConstants
<1>2. Len(history) \in Nat
  BY DEF LruOf
<1>3. Len(cache.order) <= Len(history)
  BY <1>1, <1>2 DEF LruOf
<1>4. \A i \in 1..Len(cache.order) : i \in 1..Len(history) /\ cache.order[i] = history[i]
  BY <1>1, <1>2, <1>3 DEF LruOf
<1>5. NoKeyTwice(cache.order)
  BY <1>4 DEF LruOf, NoKeyTwice
<1>. QED
  BY <1>1, <1>2, <1>3, <1>5

\* The cache has as many keys as its queue.
LEMMA CachedCount ==
    ASSUME SoundConstants, NEW cache \in Caches, NEW history, LruOf(cache, history)
    PROVE  Cardinality(CachedKeys(cache)) = Len(cache.order)
<1>1. cache.order \in Seq(Keys) /\ Len(cache.order) \in Nat /\ NoKeyTwice(cache.order)
  BY OrderNoKeyTwice
<1>2. DOMAIN cache.order = 1..Len(cache.order) /\ Range(cache.order) \subseteq Keys
  BY <1>1, RangeOfSeq
<1>3. CachedKeys(cache) = Range(cache.order)
  BY <1>2 DEF LruOf, CachedKeys, ContainsKey
<1>4. cache.order \in Bijection(1..Len(cache.order), Range(cache.order))
  <2>1. cache.order \in [1..Len(cache.order) -> Range(cache.order)]
    BY <1>1, <1>2 DEF Range
  <2>2. \A a, b \in 1..Len(cache.order) : cache.order[a] = cache.order[b] => a = b
    BY <1>1 DEF NoKeyTwice
  <2>3. \A x \in Range(cache.order) : \E a \in 1..Len(cache.order) : cache.order[a] = x
    BY <1>2 DEF Range
  <2>4. cache.order \in Injection(1..Len(cache.order), Range(cache.order))
    BY <2>1, <2>2, Fun_IsInj
  <2>5. cache.order \in Surjection(1..Len(cache.order), Range(cache.order))
    BY <2>1, <2>3, Fun_IsSurj
  <2>. QED
    BY <2>4, <2>5 DEF Bijection
<1>5. IsFiniteSet(1..Len(cache.order)) /\ Cardinality(1..Len(cache.order)) = Len(cache.order)
  <2>1. \A n \in Nat : IsFiniteSet(1..n) /\ Cardinality(1..n) = IF 1 > n THEN 0 ELSE n - 1 + 1
    BY FS_Interval
  <2>2. \A n \in Nat : (IF 1 > n THEN 0 ELSE n - 1 + 1) = n
    OBVIOUS
  <2>. QED
    BY <1>1, <2>1, <2>2
<1>6. ExistsBijection(1..Len(cache.order), Range(cache.order))
  BY <1>4 DEF ExistsBijection
<1>. QED
  BY <1>3, <1>5, <1>6, FS_Bijection

\* A key that is found moves to the front of the queue as of the history.
LEMMA GetKeeps ==
    ASSUME SoundConstants, NEW cache \in Caches, NEW history, LruOf(cache, history),
           NEW k \in Keys, ContainsKey(cache, k),
           NEW kept \in Caches, kept.capacity = cache.capacity,
           kept.order = <<k>> \o Without(cache.order, k),
           \A other \in Keys : kept.map[other] = IF other = k THEN kept.map[k] ELSE cache.map[other],
           kept.map[k] = k
    PROVE  LruOf(kept, <<k>> \o Without(history, k))
<1>. DEFINE order == cache.order
            used  == <<k>> \o Without(history, k)
<1>1. /\ order \in Seq(Keys) /\ Len(order) \in Nat /\ cache.capacity \in Nat
      /\ Len(history) \in Nat /\ Len(order) <= Len(history) /\ NoKeyTwice(order)
  BY OrderNoKeyTwice
<1>2. history \in Seq(Keys) /\ NoKeyTwice(history) /\ \A i \in 1..Len(order) : order[i] = history[i]
  BY DEF LruOf
<1>3. PICK j \in 1..Len(order) : order[j] = k
  <2>1. k \in Range(order) /\ DOMAIN order = 1..Len(order)
    BY <1>1 DEF LruOf, ContainsKey
  <2>. QED
    BY <2>1 DEF Range
<1>4. j \in 1..Len(history) /\ history[j] = k
  BY <1>1, <1>2, <1>3
<1>5. IsPlace(j, order, k) /\ IsPlace(j, history, k)
  BY <1>1, <1>2, <1>3, <1>4 DEF IsPlace, NoKeyTwice
<1>6. /\ kept.order \in Seq(Keys) /\ Len(kept.order) = Len(order)
      /\ \A i \in 1..Len(kept.order) : kept.order[i] = IF i = 1 THEN k ELSE IF i <= j THEN order[i - 1] ELSE order[i]
      /\ Range(kept.order) = Range(order) \cup {k}
  <2>. HIDE DEF order
  <2>1. kept.order = <<k>> \o Without(order, k)
    BY DEF order
  <2>2. kept.order \in Seq(Keys) /\ MovedToFront(kept.order, order, k, j)
    BY <1>1, <1>5, <2>1, ToFront
  <2>. QED
    BY <1>1, <1>3, <2>2 DEF MovedToFront
<1>7. /\ used \in Seq(Keys) /\ Len(used) = Len(history) /\ NoKeyTwice(used)
      /\ \A i \in 1..Len(used) : used[i] = IF i = 1 THEN k ELSE IF i <= j THEN history[i - 1] ELSE history[i]
  <2>. HIDE DEF used
  <2>1. used = <<k>> \o Without(history, k)
    BY DEF used
  <2>2. used \in Seq(Keys) /\ MovedToFront(used, history, k, j)
    BY <1>2, <1>5, <2>1, ToFront
  <2>. QED
    BY <1>4, <2>2 DEF MovedToFront
<1>. HIDE DEF order, used
<1>8. Len(kept.order) = IF Len(used) < kept.capacity THEN Len(used) ELSE kept.capacity
  BY <1>6, <1>7 DEF LruOf, order
<1>9. ASSUME NEW i \in 1..Len(kept.order) PROVE kept.order[i] = used[i]
  <2>1. i \in 1..Len(used) /\ i \in 1..Len(order)
    BY <1>1, <1>6, <1>7
  <2>2. CASE i = 1
    BY <1>6, <1>7, <2>1, <2>2
  <2>3. CASE i # 1 /\ i <= j
    <3>1. i - 1 \in 1..Len(order)
      BY <1>1, <1>3, <2>1, <2>3
    <3>2. kept.order[i] = order[i - 1] /\ used[i] = history[i - 1]
      BY <1>6, <1>7, <2>1, <2>3
    <3>. QED
      BY <1>2, <3>1, <3>2
  <2>4. CASE i # 1 /\ ~(i <= j)
    <3>1. kept.order[i] = order[i] /\ used[i] = history[i]
      BY <1>6, <1>7, <2>1, <2>4
    <3>. QED
      BY <1>2, <2>1, <3>1
  <2>. QED
    BY <2>2, <2>3, <2>4
<1>10. \A other \in Keys : kept.map[other] # None <=> other \in Range(kept.order)
  BY <1>6 DEF LruOf, ContainsKey, order, SoundConstants
<1>11. \A other \in Keys : kept.map[other] # None => kept.map[other] = other
  BY DEF LruOf
<1>. QED
  BY <1>7, <1>8, <1>9, <1>10, <1>11 DEF LruOf, used

\* A new key goes to the front, of a queue that has made room for it.
LEMMA NewKeyKeeps ==
    ASSUME SoundConstants, NEW cache \in Caches, NEW history, LruOf(cache, history), cache.capacity # 0,
           NEW k \in Keys, ~ContainsKey(cache, k), NEW n \in Nat,
           n = IF Len(cache.order) >= cache.capacity THEN Len(cache.order) - 1 ELSE Len(cache.order),
           NEW kept \in Caches, kept.capacity = cache.capacity,
           kept.order = <<k>> \o SubSeq(cache.order, 1, n),
           \A other \in Keys : kept.map[other] =
                IF other = k THEN k
                ELSE IF n < Len(cache.order) /\ other = cache.order[Len(cache.order)] THEN None
                ELSE cache.map[other]
    PROVE  LruOf(kept, <<k>> \o Without(history, k))
<1>. DEFINE order == cache.order
            used  == <<k>> \o Without(history, k)
            rest  == SubSeq(order, 1, n)
<1>1. /\ order \in Seq(Keys) /\ Len(order) \in Nat /\ cache.capacity \in Nat
      /\ Len(history) \in Nat /\ Len(order) <= Len(history) /\ NoKeyTwice(order)
  BY OrderNoKeyTwice
<1>2. /\ history \in Seq(Keys) /\ NoKeyTwice(history) /\ \A i \in 1..Len(order) : order[i] = history[i]
      /\ Len(order) = IF Len(history) < cache.capacity THEN Len(history) ELSE cache.capacity
  BY DEF LruOf
<1>3. n <= Len(order) /\ n + 1 = IF Len(history) + 1 < cache.capacity THEN Len(history) + 1 ELSE cache.capacity
  BY <1>1, <1>2
<1>4. k \notin Range(order) /\ DOMAIN order = 1..Len(order)
  BY <1>1 DEF LruOf, ContainsKey
<1>5. PICK j : IsPlace(j, history, k)
  BY <1>2, PlaceExists
<1>6. j \in 1..(Len(history) + 1) /\ Len(order) < j
  <2>1. j \in 1..(Len(history) + 1) /\ \A i \in 1..Len(history) : history[i] = k <=> i = j
    BY <1>5 DEF IsPlace
  <2>2. j \notin 1..Len(order)
    <3>1. ASSUME NEW i \in 1..Len(order) PROVE i \in 1..Len(history) /\ history[i] # k
      <4>1. order[i] \in Range(order)
        BY <1>4 DEF Range
      <4>2. i \in 1..Len(history) /\ order[i] = history[i]
        BY <1>1, <1>2
      <4>. QED
        BY <1>4, <4>1, <4>2
    <3>. QED
      BY <2>1, <3>1
  <2>. QED
    BY <1>1, <2>1, <2>2
<1>7. /\ used \in Seq(Keys) /\ NoKeyTwice(used)
      /\ Len(used) = IF j <= Len(history) THEN Len(history) ELSE Len(history) + 1
      /\ \A i \in 1..Len(used) : used[i] = IF i = 1 THEN k ELSE IF i <= j THEN history[i - 1] ELSE history[i]
  <2>. HIDE DEF used
  <2>1. used = <<k>> \o Without(history, k)
    BY DEF used
  <2>2. used \in Seq(Keys) /\ MovedToFront(used, history, k, j)
    BY <1>2, <1>5, <2>1, ToFront
  <2>. QED
    BY <2>2 DEF MovedToFront
<1>8. rest \in Seq(Keys) /\ Len(rest) = n /\ \A i \in 1..n : rest[i] = order[i]
  <2>. HIDE DEF order
  <2>1. \A i \in 1..n : order[i] \in Keys
    BY <1>1, <1>3, ElementOfSeq
  <2>2. /\ rest \in Seq(Keys) /\ Len(rest) = IF 1 <= n THEN n - 1 + 1 ELSE 0
        /\ \A i \in 1..n - 1 + 1 : rest[i] = order[1 + i - 1]
    BY <2>1, SubSeqProperties
  <2>3. n - 1 + 1 = n /\ \A i \in 1..n : 1 + i - 1 = i
    OBVIOUS
  <2>. QED
    BY <2>2, <2>3
<1>9. kept.order = <<k>> \o rest
  OBVIOUS
<1>. HIDE DEF order, used, rest
<1>10. /\ Len(kept.order) = n + 1 /\ kept.order[1] = k /\ DOMAIN kept.order = 1..(n + 1)
       /\ \A i \in 2..(n + 1) : kept.order[i] = rest[i - 1]
  <2>1. <<k>> \in Seq(Keys) /\ Len(<<k>>) = 1 /\ <<k>>[1] = k
    OBVIOUS
  <2>. QED
    BY <1>8, <1>9, <2>1
<1>11. Len(kept.order) = IF Len(used) < kept.capacity THEN Len(used) ELSE kept.capacity
  BY <1>1, <1>2, <1>3, <1>6, <1>7, <1>10
<1>12. n + 1 <= Len(used)
  BY <1>1, <1>2, <1>3, <1>6, <1>7
<1>13. ASSUME NEW i \in 1..Len(kept.order) PROVE kept.order[i] = used[i]
  <2>1. i \in 1..Len(used)
    BY <1>7, <1>10, <1>12
  <2>2. CASE i = 1
    BY <1>7, <1>10, <2>1, <2>2
  <2>3. CASE i # 1
    <3>1. i \in 2..(n + 1) /\ i - 1 \in 1..n /\ i - 1 \in 1..Len(order) /\ i <= j
      BY <1>1, <1>3, <1>6, <1>10, <2>3
    <3>2. kept.order[i] = rest[i - 1] /\ rest[i - 1] = order[i - 1] /\ order[i - 1] = history[i - 1]
      BY <1>2, <1>8, <1>10, <3>1
    <3>3. used[i] = history[i - 1]
      BY <1>7, <2>1, <2>3, <3>1
    <3>. QED
      BY <3>2, <3>3
  <2>. QED
    BY <2>2, <2>3
<1>14. \A x : x \in Range(kept.order) <=> x = k \/ \E i \in 1..n : order[i] = x
  <2>1. ASSUME NEW i \in 1..n PROVE order[i] \in Range(kept.order)
    <3>. DEFINE h == i + 1
    <3>1. h \in 2..(n + 1) /\ h \in 1..(n + 1) /\ h - 1 = i
      OBVIOUS
    <3>. HIDE DEF h
    <3>2. kept.order[h] = order[i]
      BY <1>8, <1>10, <3>1
    <3>. QED
      BY <1>10, <3>1, <3>2 DEF Range
  <2>2. k \in Range(kept.order)
    BY <1>10 DEF Range
  <2>3. ASSUME NEW i \in 1..(n + 1) PROVE kept.order[i] = k \/ \E h \in 1..n : order[h] = kept.order[i]
    <3>1. CASE i = 1
      BY <1>10, <3>1
    <3>2. CASE i # 1
      <4>1. i \in 2..(n + 1) /\ i - 1 \in 1..n
        BY <3>2
      <4>2. kept.order[i] = order[i - 1]
        BY <1>8, <1>10, <4>1
      <4>. QED
        BY <4>1, <4>2
    <3>. QED
      BY <3>1, <3>2
  <2>4. \A x \in Range(kept.order) : \E i \in 1..(n + 1) : kept.order[i] = x
    BY <1>10 DEF Range
  <2>5. \A x \in Range(kept.order) : x = k \/ \E i \in 1..n : order[i] = x
    <3>. SUFFICES ASSUME NEW x \in Range(kept.order) PROVE x = k \/ \E i \in 1..n : order[i] = x
      OBVIOUS
    <3>1. PICK i \in 1..(n + 1) : kept.order[i] = x
      BY <2>4
    <3>. QED
      BY <2>3, <3>1
  <2>. QED
    BY <2>1, <2>2, <2>5
<1>15. ASSUME NEW other \in Keys, other # k
       PROVE  (\E i \in 1..n : order[i] = other) <=>
                 other \in Range(order) /\ ~(n < Len(order) /\ other = order[Len(order)])
  <2>1. n = Len(order) \/ n = Len(order) - 1
    BY <1>1 DEF order
  <2>2. other \in Range(order) <=> \E i \in 1..Len(order) : order[i] = other
    BY <1>4 DEF Range
  <2>3. CASE n = Len(order)
    BY <1>1, <2>2, <2>3
  <2>4. CASE n = Len(order) - 1
    <3>1. Len(order) \in 1..Len(order) /\ n < Len(order) /\ \A i \in 1..Len(order) : i \in 1..n <=> i # Len(order)
      BY <1>1, <2>4
    <3>2. \A i \in 1..n : i \in 1..Len(order) /\ i # Len(order)
      BY <1>1, <2>4
    <3>3. \A i \in 1..n : order[i] # order[Len(order)]
      BY <1>1, <3>1, <3>2 DEF NoKeyTwice
    <3>. QED
      BY <2>2, <3>1, <3>2, <3>3
  <2>. QED
    BY <2>1, <2>3, <2>4
<1>16. ASSUME NEW other \in Keys PROVE kept.map[other] # None <=> other \in Range(kept.order)
  <2>1. CASE other = k
    BY <1>14, <2>1 DEF SoundConstants
  <2>2. CASE other # k
    <3>1. other \in Range(kept.order) <=> other \in Range(order) /\ ~(n < Len(order) /\ other = order[Len(order)])
      BY <1>14, <1>15, <2>2
    <3>2. cache.map[other] # None <=> other \in Range(order)
      BY DEF LruOf, order
    <3>3. kept.map[other] = IF n < Len(order) /\ other = order[Len(order)] THEN None ELSE cache.map[other]
      BY <2>2 DEF order
    <3>. QED
      BY <3>1, <3>2, <3>3
  <2>. QED
    BY <2>1, <2>2
<1>17. \A other \in Keys : kept.map[other] # None => kept.map[other] = other
  BY DEF LruOf
<1>. QED
  BY <1>7, <1>11, <1>13, <1>16, <1>17 DEF LruOf, used

\* What an insertion that has room does to the fields of the cache.
LEMMA Inserted ==
    ASSUME NEW cache \in Caches, NEW k \in Keys, NEW kept, kept = [cache EXCEPT !.map[k] = k, !.order = <<k>> \o @]
    PROVE  kept = [capacity |-> cache.capacity, map |-> [cache.map EXCEPT ![k] = k], order |-> <<k>> \o cache.order]
<1>1. /\ cache.map \in [Keys -> Keys \cup {None}] /\ cache.order \in Seq(Keys)
      /\ cache = [capacity |-> cache.capacity, map |-> cache.map, order |-> cache.order]
  BY DEF Caches
<1>2. DOMAIN kept = {"capacity", "map", "order"}
  BY <1>1
<1>3. kept.capacity = cache.capacity /\ kept.map = [cache.map EXCEPT ![k] = k] /\ kept.order = <<k>> \o cache.order
  BY <1>1
<1>. QED
  BY <1>1, <1>2, <1>3

\* Insertion makes an object the most recently used one, whether it was in the
\* cache or not, and nothing else enters the cache.
LEMMA PutKeeps ==
    ASSUME SoundConstants, NEW cache \in Caches, NEW history, LruOf(cache, history), NEW k \in Keys
    PROVE  /\ Put(cache, k, k) \in Caches
           /\ LruOf(Put(cache, k, k), <<k>> \o Without(history, k))
           /\ \A other \in Keys : Put(cache, k, k).map[other] # None => other = k \/ cache.map[other] # None
<1>. DEFINE order == cache.order
            last  == order[Len(order)]
            room  == SubSeq(order, 1, Len(order) - 1)
<1>1. /\ cache.capacity \in CacheSizes /\ cache.capacity \in Nat
      /\ cache.map \in [Keys -> Keys \cup {None}] /\ order \in Seq(Keys)
      /\ cache = [capacity |-> cache.capacity, map |-> cache.map, order |-> order]
  BY DEF Caches, SoundConstants
<1>2. order \in Seq(Keys) /\ Len(order) \in Nat /\ Cardinality(CachedKeys(cache)) = Len(order)
  BY <1>1, CachedCount
<1>3. CASE cache.capacity = 0
  <2>1. Put(cache, k, k) = cache
    BY <1>3 DEF Put
  <2>2. PICK j : IsPlace(j, history, k)
    BY PlaceExists DEF LruOf
  <2>. DEFINE used == <<k>> \o Without(history, k)
  <2>3. used \in Seq(Keys) /\ MovedToFront(used, history, k, j)
    BY <2>2, ToFront DEF LruOf
  <2>. HIDE DEF used
  <2>4. NoKeyTwice(used) /\ Len(used) \in Nat
    BY <2>3 DEF MovedToFront
  <2>5. Len(order) = 0
    BY <1>1, <1>3, OrderNoKeyTwice DEF LruOf
  <2>6. LruOf(cache, used)
    BY <1>3, <2>3, <2>4, <2>5 DEF LruOf
  <2>. QED
    BY <2>1, <2>6 DEF used
<1>4. CASE cache.capacity # 0 /\ ContainsKey(cache, k)
  <2>1. Put(cache, k, k) = [capacity |-> cache.capacity, map |-> [cache.map EXCEPT ![k] = k],
                            order |-> <<k>> \o Without(order, k)]
    BY <1>1, <1>4 DEF Put
  <2>. DEFINE kept == Put(cache, k, k)
  <2>2. Without(order, k) \in Seq(Keys)
    BY <1>1, WithoutType
  <2>3. <<k>> \o Without(order, k) \in Seq(Keys)
    BY <2>2
  <2>4. kept \in Caches
    BY <1>1, <2>1, <2>3 DEF Caches
  <2>5. /\ kept.capacity = cache.capacity /\ kept.order = <<k>> \o Without(cache.order, k)
        /\ kept.map[k] = k
        /\ \A other \in Keys : kept.map[other] = IF other = k THEN kept.map[k] ELSE cache.map[other]
    BY <1>1, <2>1
  <2>. HIDE DEF kept
  <2>6. LruOf(kept, <<k>> \o Without(history, k))
    BY <1>4, <2>4, <2>5, GetKeeps
  <2>. QED
    BY <2>4, <2>5, <2>6 DEF kept
<1>5. CASE cache.capacity # 0 /\ ~ContainsKey(cache, k) /\ Len(order) >= cache.capacity
  <2>1. order # <<>> /\ Len(order) \in 1..Len(order)
    BY <1>1, <1>2, <1>5
  <2>2. Evict(cache) = [capacity |-> cache.capacity, map |-> [cache.map EXCEPT ![last] = None], order |-> room]
    BY <1>1, <2>1 DEF Evict
  <2>3. Put(cache, k, k) = [Evict(cache) EXCEPT !.map[k] = k, !.order = <<k>> \o @]
    BY <1>2, <1>5 DEF Put
  <2>4. Put(cache, k, k) = [capacity |-> cache.capacity, map |-> [[cache.map EXCEPT ![last] = None] EXCEPT ![k] = k],
                            order |-> <<k>> \o room]
    <3>. DEFINE left == [cache.map EXCEPT ![last] = None]
    <3>1. room \in Seq(Keys) /\ left \in [Keys -> Keys \cup {None}]
      BY <1>1, <1>2, <2>1, SubSeqProperties
    <3>. HIDE DEF room, left
    <3>2. Evict(cache) = [capacity |-> cache.capacity, map |-> left, order |-> room]
      BY <2>2 DEF left
    <3>3. Evict(cache) \in Caches
      BY <1>1, <3>1, <3>2 DEF Caches
    <3>4. Put(cache, k, k) = [capacity |-> Evict(cache).capacity, map |-> [Evict(cache).map EXCEPT ![k] = k],
                              order |-> <<k>> \o Evict(cache).order]
      BY <2>3, <3>3, Inserted
    <3>5. Evict(cache).capacity = cache.capacity /\ Evict(cache).map = left /\ Evict(cache).order = room
      BY <3>2
    <3>. QED
      BY <3>4, <3>5 DEF left
  <2>. DEFINE kept == Put(cache, k, k)
              n    == Len(order) - 1
  <2>5. room \in Seq(Keys)
    BY <1>2, <2>1, SubSeqProperties
  <2>6. <<k>> \o room \in Seq(Keys)
    BY <2>5
  <2>7. kept \in Caches
    BY <1>1, <2>4, <2>6 DEF Caches
  <2>8. /\ kept.capacity = cache.capacity /\ kept.order = <<k>> \o SubSeq(cache.order, 1, n)
        /\ \A other \in Keys : kept.map[other] =
                IF other = k THEN k ELSE IF other = last THEN None ELSE cache.map[other]
    BY <1>1, <2>4
  <2>9. n \in Nat /\ n < Len(order) /\ n = IF Len(order) >= cache.capacity THEN Len(order) - 1 ELSE Len(order)
    BY <1>2, <1>5, <2>1
  <2>. HIDE DEF kept, n
  <2>10. LruOf(kept, <<k>> \o Without(history, k))
    BY <1>5, <2>7, <2>8, <2>9, NewKeyKeeps
  <2>. QED
    BY <2>7, <2>8, <2>10 DEF kept
<1>6. CASE cache.capacity # 0 /\ ~ContainsKey(cache, k) /\ ~(Len(order) >= cache.capacity)
  <2>1. Put(cache, k, k) = [cache EXCEPT !.map[k] = k, !.order = <<k>> \o @]
    BY <1>2, <1>6 DEF Put
  <2>2. Put(cache, k, k) = [capacity |-> cache.capacity, map |-> [cache.map EXCEPT ![k] = k], order |-> <<k>> \o order]
    BY <2>1, Inserted
  <2>. DEFINE kept == Put(cache, k, k)
              n    == Len(order)
  <2>3. <<k>> \o order \in Seq(Keys) /\ SubSeq(order, 1, Len(order)) = order
    BY <1>1, SubSeqFull
  <2>4. kept \in Caches
    BY <1>1, <2>2, <2>3 DEF Caches
  <2>5. /\ kept.capacity = cache.capacity /\ kept.order = <<k>> \o SubSeq(cache.order, 1, n)
        /\ \A other \in Keys : kept.map[other] = IF other = k THEN k ELSE cache.map[other]
    BY <1>1, <2>2, <2>3
  <2>6. n \in Nat /\ ~(n < Len(order)) /\ n = IF Len(order) >= cache.capacity THEN Len(order) - 1 ELSE Len(order)
    BY <1>2, <1>6
  <2>. HIDE DEF kept, n
  <2>7. LruOf(kept, <<k>> \o Without(history, k))
    BY <1>6, <2>4, <2>5, <2>6, NewKeyKeeps
  <2>. QED
    BY <2>4, <2>5, <2>7 DEF kept
<1>. QED
  BY <1>3, <1>4, <1>5, <1>6

\* A lookup changes no more than the order of the cache.
LEMMA HitKeeps ==
    ASSUME SoundConstants, NEW cache \in Caches, NEW history, LruOf(cache, history), NEW k \in Keys
    PROVE  /\ Get(cache, k) \in Caches /\ Get(cache, k).map = cache.map
           /\ ContainsKey(cache, k) => LruOf(Get(cache, k), <<k>> \o Without(history, k))
           /\ ~ContainsKey(cache, k) => Get(cache, k) = cache
<1>1. CASE ContainsKey(cache, k)
  <2>1. Get(cache, k) = [capacity |-> cache.capacity, map |-> cache.map, order |-> <<k>> \o Without(cache.order, k)]
    BY <1>1 DEF Get, Caches
  <2>. DEFINE kept == Get(cache, k)
  <2>2. <<k>> \o Without(cache.order, k) \in Seq(Keys)
    <3>1. Without(cache.order, k) \in Seq(Keys)
      BY WithoutType DEF Caches
    <3>. QED
      BY <3>1
  <2>3. kept \in Caches
    BY <2>1, <2>2 DEF Caches
  <2>4. /\ kept.capacity = cache.capacity /\ kept.order = <<k>> \o Without(cache.order, k) /\ kept.map = cache.map
        /\ kept.map[k] = k
        /\ \A other \in Keys : kept.map[other] = IF other = k THEN kept.map[k] ELSE cache.map[other]
    BY <1>1, <2>1 DEF LruOf, ContainsKey
  <2>. HIDE DEF kept
  <2>5. LruOf(kept, <<k>> \o Without(history, k))
    BY <1>1, <2>3, <2>4, GetKeeps
  <2>. QED
    BY <1>1, <2>3, <2>4, <2>5 DEF kept
<1>2. CASE ~ContainsKey(cache, k)
  BY <1>2 DEF Get
<1>. QED
  BY <1>1, <1>2

-----------------------------------------------------------------------------
(* The cache and the history, step by step. *)

\* The inductive invariant.
IInv == TypeOK /\ Shape /\ CallsInv /\ LruOf(lru, recent)

\* Every step keeps the cache that of what was used last, and lets no object in
\* that cannot be had.
LEMMA CacheKept ==
    ASSUME SoundConstants, IInv, [Next]_vars
    PROVE  /\ lru' \in Caches /\ LruOf(lru, recent)'
           /\ \A k \in Keys : lru'.map[k] # None => Found(k)
<1>. DEFINE Kept == /\ lru' \in Caches /\ LruOf(lru, recent)'
                    /\ \A k \in Keys : lru'.map[k] # None => Found(k)
<1>1. lru \in Caches /\ LruOf(lru, recent) /\ \A k \in Keys : lru.map[k] # None => Found(k)
  BY DEF IInv, Shape, CallsInv, Caches
<1>2. ASSUME UNCHANGED <<lru, recent>> PROVE Kept
  BY <1>1, <1>2 DEF LruOf
<1>3. ASSUME NEW t \in Threads, ClearCache(t) PROVE Kept
  <2>1. lru' = [capacity |-> lru.capacity, map |-> [k \in Keys |-> None], order |-> <<>>] /\ recent' = <<>>
    BY <1>3 DEF ClearCache, Clear, EmptyCache
  <2>2. lru.capacity \in CacheSizes /\ lru.capacity \in Nat
    BY <1>1 DEF Caches, SoundConstants
  <2>3. lru' \in Caches
    BY <2>1, <2>2 DEF Caches
  <2>4. /\ lru'.order = <<>> /\ lru'.capacity \in Nat /\ Len(lru'.order) = 0 /\ Len(recent') = 0
        /\ Range(lru'.order) = {} /\ \A k \in Keys : lru'.map[k] = None
    BY <2>1, <2>2 DEF Range
  <2>5. LruOf(lru', recent')
    BY <2>1, <2>4 DEF LruOf, NoKeyTwice
  <2>6. LruOf(lru, recent)'
    BY <2>5 DEF LruOf
  <2>. QED
    BY <2>3, <2>4, <2>6
<1>4. ASSUME NEW t \in Threads, Lookup(t) PROVE Kept
  <2>1. want[t] \in Keys
    BY <1>4 DEF Lookup, IInv, CallsInv, CallOf, Getting
  <2>2. lru' = Get(lru, want[t])
    BY <1>4 DEF Lookup
  <2>3. /\ lru' \in Caches /\ lru'.map = lru.map
        /\ ContainsKey(lru, want[t]) => LruOf(lru', <<want[t]>> \o Without(recent, want[t]))
        /\ ~ContainsKey(lru, want[t]) => lru' = lru
    BY <1>1, <2>1, <2>2, HitKeeps
  <2>4. recent' = IF ContainsKey(lru, want[t]) THEN <<want[t]>> \o Without(recent, want[t]) ELSE recent
    BY <1>4 DEF Lookup, Used
  <2>5. LruOf(lru', recent')
    BY <1>1, <2>3, <2>4
  <2>6. LruOf(lru, recent)'
    BY <2>5 DEF LruOf
  <2>. QED
    BY <1>1, <2>3, <2>6
<1>5. ASSUME NEW t \in Threads, Insert(t) PROVE Kept
  <2>1. want[t] \in Keys /\ Found(want[t])
    BY <1>5 DEF Insert, IInv, CallsInv, CallOf, Getting, Found
  <2>2. lru' = Put(lru, want[t], want[t]) /\ recent' = <<want[t]>> \o Without(recent, want[t])
    BY <1>5 DEF Insert, Used
  <2>3. /\ lru' \in Caches /\ LruOf(lru', recent')
        /\ \A k \in Keys : lru'.map[k] # None => k = want[t] \/ lru.map[k] # None
    BY <1>1, <2>1, <2>2, PutKeeps
  <2>4. LruOf(lru, recent)'
    BY <2>3 DEF LruOf
  <2>. QED
    BY <1>1, <2>1, <2>3, <2>4
<1>6. ASSUME NEW t \in Threads, CheckReference(t) \/ Parse(t) \/ CheckIndex(t) \/ LoadPage(t) \/ ParserPanics(t)
      PROVE  Kept
  BY <1>2, <1>6 DEF CheckReference, Parse, CheckIndex, LoadPage, ParserPanics
<1>7. ASSUME NEW t \in Threads, (\E k \in Keys : CallGetObject(t, k)) \/ (\E op, i : CallPage(t, op, i)) PROVE Kept
  BY <1>2, <1>7 DEF CallGetObject, CallPage
<1>8. ASSUME UNCHANGED vars PROVE Kept
  BY <1>2, <1>8 DEF vars
<1>. HIDE DEF Kept
<1>9. Kept
  BY <1>3, <1>4, <1>5, <1>6, <1>7, <1>8 DEF Next, Step
<1>. QED
  BY <1>9 DEF Kept

-----------------------------------------------------------------------------
(* The calls, step by step. *)

\* What a step leaves to check of the threads, if it is one of thread t.
Typed ==
    /\ pc \in [Threads -> Labels]
    /\ call \in [Threads -> {None} \cup [op : Ops, arg : Keys \cup Nat]]
    /\ want \in [Threads -> Keys \cup {None}]
    /\ todo \in [Threads -> Seq(Keys)]
    /\ told \in [Threads -> Keys \cup {None, "invalid", "failed", "page"}]

\* Thread t has moved, from a state to a state, as callers of the document may see it.
Moved(t) ==
    /\ Document!Next \/ UNCHANGED Document!vars
    /\ Typed' /\ CallOf(t)'
    /\ \A u \in Threads \ {t} :
          pc'[u] = pc[u] /\ call'[u] = call[u] /\ want'[u] = want[u] /\ todo'[u] = todo[u]
    /\ file' = file

\* A call that ends with one of the answers it may get.
LEMMA EndCall ==
    ASSUME IInv, NEW t \in Threads, pc[t] \notin {"idle", "dead"}, NEW a, a \in Allowed(t),
           a \in Keys \cup {"invalid", "failed", "page"}, Return(t, a), file' = file
    PROVE  Moved(t) /\ pc'[t] = "idle"
<1>1. Document!Next
  BY ReturnAnswers DEF IInv
<1>2. CallOf(t)' /\ pc'[t] = "idle"
  BY ReturnKeeps DEF IInv
<1>3. Typed'
  <2>1. <<>> \in Seq(Keys)
    OBVIOUS
  <2>. QED
    BY <2>1 DEF IInv, TypeOK, Shape, Typed, Return, Goto, Labels
<1>4. \A u \in Threads \ {t} :
          pc'[u] = pc[u] /\ call'[u] = call[u] /\ want'[u] = want[u] /\ todo'[u] = todo[u]
  BY DEF IInv, TypeOK, Shape, Return, Goto
<1>. QED
  BY <1>1, <1>2, <1>3, <1>4 DEF Moved

\* A call that has got an object or a page.
LEMMA EndDelivery ==
    ASSUME SoundConstants, IInv, NEW t \in Threads, pc[t] \notin {"idle", "dead"},
           NEW next \in Seq(Keys), Progress(t, next), NEW a, a \in Keys \cup {"page"},
           call[t].op = "get_object" => a = call[t].arg,
           Deliver(t, a, next), file' = file
    PROVE  Moved(t) /\ pc'[t] # "dead"
<1>1. /\ Document!Next \/ UNCHANGED Document!vars
      /\ CallOf(t)' /\ pc'[t] # "dead"
  BY DeliverStep DEF IInv
<1>2. Typed' /\ \A u \in Threads \ {t} :
          pc'[u] = pc[u] /\ call'[u] = call[u] /\ want'[u] = want[u] /\ todo'[u] = todo[u]
  <2>1. CASE next = <<>>
    <3>1. PICK b \in Keys \cup {"page"} : Return(t, b)
      BY <2>1 DEF Deliver
    <3>2. <<>> \in Seq(Keys)
      OBVIOUS
    <3>. QED
      BY <3>1, <3>2 DEF IInv, TypeOK, Shape, Typed, Return, Goto, Labels
  <2>2. CASE next # <<>>
    <3>1. Head(next) \in Keys /\ Tail(next) \in Seq(Keys)
      BY <2>2, HeadTailProperties
    <3>2. /\ pc' = [pc EXCEPT ![t] = "check"] /\ call' = call /\ told' = told
          /\ want' = [want EXCEPT ![t] = Head(next)] /\ todo' = [todo EXCEPT ![t] = Tail(next)]
      BY <2>2 DEF Deliver, Goto
    <3>. DEFINE h == Head(next)
                r == Tail(next)
    <3>. HIDE DEF h, r
    <3>3. h \in Keys /\ r \in Seq(Keys) /\ want' = [want EXCEPT ![t] = h] /\ todo' = [todo EXCEPT ![t] = r]
      BY <3>1, <3>2 DEF h, r
    <3>4. Typed'
      <4>1. Typed
        BY DEF IInv, TypeOK, Shape, Typed
      <4>2. pc' \in [Threads -> Labels] /\ want' \in [Threads -> Keys \cup {None}]
        BY <3>2, <3>3, <4>1 DEF Typed, Labels
      <4>3. todo' \in [Threads -> Seq(Keys)]
        BY <3>3, <4>1 DEF Typed
      <4>. QED
        BY <3>2, <4>1, <4>2, <4>3 DEF Typed
    <3>5. \A u \in Threads \ {t} :
             pc'[u] = pc[u] /\ call'[u] = call[u] /\ want'[u] = want[u] /\ todo'[u] = todo[u]
      BY <3>2, <3>3 DEF IInv, TypeOK, Shape
    <3>. QED
      BY <3>4, <3>5
  <2>. QED
    BY <2>1, <2>2
<1>. QED
  BY <1>1, <1>2 DEF Moved

\* A call that goes on.
LEMMA GoesOn ==
    ASSUME IInv, NEW t \in Threads, pc[t] # "dead", NEW label \in Labels, label # "dead", Goto(t, label),
           UNCHANGED <<file, call, want, todo, told>>, CallOf(t)'
    PROVE  Moved(t) /\ pc'[t] # "dead"
<1>1. UNCHANGED Document!vars
  BY GoOn DEF IInv
<1>2. Typed' /\ \A u \in Threads \ {t} : pc'[u] = pc[u]
  BY DEF IInv, TypeOK, Shape, Typed, Goto
<1>3. pc'[t] # "dead"
  BY DEF IInv, TypeOK, Goto
<1>. QED
  BY <1>1, <1>2, <1>3 DEF Moved

\* An object that cannot be had is the answer of the file to its call.
LEMMA BadObject ==
    ASSUME SoundConstants, IInv, NEW t \in Threads, Getting(t),
           NEW a \in {"invalid", "failed"}, Document!ObjectAnswer(want[t]) = a
    PROVE  a \in Allowed(t)
<1>1. file \in Files
  BY DEF IInv, Shape
<1>2. CASE call[t] = [op |-> "get_object", arg |-> want[t]]
  BY <1>2, AnswersByOp DEF Allowed
<1>3. CASE call[t].op = "preload_page" /\ call[t].arg \in 0..(Len(file.pages) - 1)
           /\ ~file.pages[call[t].arg + 1].damaged /\ want[t] \in Needs(call[t].arg)
  <2>1. Document!PageAnswer(call[t].arg) = "page"
    BY <1>1, <1>3, FileAnswers
  <2>2. a \in Document!PreloadAnswers(call[t].arg)
    BY <1>1, <1>3, <2>1, PreloadAnswer
  <2>. QED
    BY <1>3, <2>2, AnswersByOp DEF Allowed
<1>. QED
  BY <1>2, <1>3 DEF Getting

\* With the object it wants in hand, a thread has all but what it is yet to do.
LEMMA Got ==
    ASSUME IInv, NEW t \in Threads, Getting(t), Found(want[t])
    PROVE  Progress(t, todo[t]) /\ (call[t].op = "get_object" => want[t] = call[t].arg) /\ todo[t] \in Seq(Keys)
<1>1. want[t] \in Keys /\ todo[t] \in Seq(Keys)
  BY DEF Getting, IInv, TypeOK
<1>2. CASE call[t] = [op |-> "get_object", arg |-> want[t]] /\ todo[t] = <<>>
  BY <1>1, <1>2 DEF Progress
<1>3. CASE ~(call[t] = [op |-> "get_object", arg |-> want[t]] /\ todo[t] = <<>>)
  BY <1>1, <1>3 DEF Getting, Progress
<1>. QED
  BY <1>2, <1>3

\* get_object, step by step.
LEMMA ObjectSteps ==
    ASSUME SoundConstants, IInv, NEW t \in Threads, CheckReference(t) \/ Lookup(t) \/ Parse(t) \/ Insert(t)
    PROVE  Moved(t) /\ pc'[t] # "dead"
<1>1. CallOf(t) /\ file \in Files
  BY DEF IInv, CallsInv, Shape
<1>2. Getting(t) /\ want[t] \in Keys /\ file' = file
  BY <1>1 DEF CheckReference, Lookup, Parse, Insert, CallOf, Getting
<1>3. call[t] # None
  BY <1>1 DEF CallOf, CheckReference, Lookup, Parse, Insert
<1>4. CASE CheckReference(t)
  <2>1. CASE want[t] \notin file.indexed
    <3>1. Return(t, "invalid")
      BY <1>4, <2>1 DEF CheckReference
    <3>2. "invalid" \in Allowed(t)
      BY <1>1, <1>2, <2>1, FileAnswers, BadObject
    <3>. QED
      BY <1>2, <1>4, <3>1, <3>2, EndCall DEF CheckReference
  <2>2. CASE want[t] \in file.indexed
    <3>1. PICK label \in {"lookup", "parse"} : Goto(t, label)
      BY <1>4, <2>2 DEF CheckReference
    <3>2. UNCHANGED <<file, call, want, todo, told>>
      BY <1>4, <2>2 DEF CheckReference
    <3>3. CallOf(t)'
      BY <1>2, <1>3, <2>2, <3>1, <3>2 DEF CallOf, Goto, Getting, Needs, Found, IInv, TypeOK
    <3>. QED
      BY <1>4, <3>1, <3>2, <3>3, GoesOn DEF CheckReference, Labels
  <2>. QED
    BY <2>1, <2>2
<1>5. CASE Lookup(t)
  <2>1. CASE ContainsKey(lru, want[t])
    <3>1. Found(want[t])
      BY <1>2, <2>1 DEF IInv, CallsInv, ContainsKey
    <3>2. Deliver(t, want[t], todo[t])
      BY <1>5, <2>1 DEF Lookup
    <3>. QED
      BY <1>2, <1>5, <3>1, <3>2, Got, EndDelivery DEF Lookup
  <2>2. CASE ~ContainsKey(lru, want[t])
    <3>1. Goto(t, "parse") /\ UNCHANGED <<file, call, want, todo, told>>
      BY <1>5, <2>2 DEF Lookup
    <3>2. want[t] \in file.indexed
      BY <1>1, <1>5 DEF CallOf, Lookup
    <3>3. CallOf(t)'
      BY <1>2, <1>3, <3>1, <3>2 DEF CallOf, Goto, Getting, Needs, Found, IInv, TypeOK
    <3>. QED
      BY <1>5, <3>1, <3>3, GoesOn DEF Lookup, Labels
  <2>. QED
    BY <2>1, <2>2
<1>6. CASE Parse(t)
  <2>1. CASE poisoned \/ want[t] \in file.damaged
    <3>1. Return(t, "failed")
      BY <1>6, <2>1 DEF Parse
    <3>2. "failed" \in Allowed(t)
      <4>1. CASE poisoned
        BY <4>1 DEF IInv, CallsInv, Dead, Allowed
      <4>2. CASE want[t] \in file.damaged
        <5>1. want[t] \in file.indexed
          BY <1>1, <1>6 DEF CallOf, Parse
        <5>2. Document!ObjectAnswer(want[t]) = "failed"
          BY <1>1, <4>2, <5>1, FileAnswers
        <5>. QED
          BY <1>2, <5>2, BadObject
      <4>. QED
        BY <2>1, <4>1, <4>2
    <3>. QED
      BY <1>2, <1>6, <3>1, <3>2, EndCall DEF Parse
  <2>2. CASE ~(poisoned \/ want[t] \in file.damaged)
    <3>1. Goto(t, "insert") /\ UNCHANGED <<file, call, want, todo, told>>
      BY <1>6, <2>2 DEF Parse
    <3>2. want[t] \in file.indexed
      BY <1>1, <1>6 DEF CallOf, Parse
    <3>3. CallOf(t)'
      BY <1>2, <1>3, <2>2, <3>1, <3>2 DEF CallOf, Goto, Getting, Needs, Found, IInv, TypeOK
    <3>. QED
      BY <1>6, <3>1, <3>3, GoesOn DEF Parse, Labels
  <2>. QED
    BY <2>1, <2>2
<1>7. CASE Insert(t)
  <2>1. Found(want[t])
    BY <1>1, <1>7 DEF CallOf, Insert, Found
  <2>2. Deliver(t, want[t], todo[t])
    BY <1>7 DEF Insert
  <2>. QED
    BY <1>2, <1>7, <2>1, <2>2, Got, EndDelivery DEF Insert
<1>. QED
  BY <1>4, <1>5, <1>6, <1>7

\* The values of a dictionary are the same in any order.
LEMMA AnyOrder ==
    ASSUME NEW s \in Seq(Keys), NEW o \in Orders(s)
    PROVE  o \in Seq(Keys) /\ Range(o) = Range(s)
<1>1. PICK p \in Bijection(DOMAIN s, DOMAIN s) : o = [i \in DOMAIN s |-> s[p[i]]]
  BY DEF Orders
<1>2. DOMAIN s = 1..Len(s) /\ Len(s) \in Nat /\ \A i \in DOMAIN s : s[i] \in Keys
  BY ElementOfSeq
<1>3. p \in [DOMAIN s -> DOMAIN s] /\ \A j \in DOMAIN s : \E i \in DOMAIN s : p[i] = j
  BY DEF Bijection, Injection, Surjection
<1>4. o \in [1..Len(s) -> Keys]
  BY <1>1, <1>2, <1>3
<1>5. o \in Seq(Keys)
  BY <1>2, <1>4, IsASeq
<1>6. DOMAIN o = DOMAIN s /\ \A i \in DOMAIN s : o[i] = s[p[i]]
  BY <1>1
<1>7. Range(o) = Range(s)
  BY <1>3, <1>6 DEF Range
<1>. QED
  BY <1>5, <1>7

\* get_page and preload_page, up to the first object.
LEMMA PageSteps ==
    ASSUME SoundConstants, IInv, NEW t \in Threads, CheckIndex(t) \/ LoadPage(t)
    PROVE  Moved(t) /\ pc'[t] # "dead"
<1>. DEFINE i == call[t].arg
<1>1. CallOf(t) /\ file \in Files /\ Len(file.pages) \in Nat
  BY FileShape DEF IInv, CallsInv, Shape
<1>2. /\ call[t].op \in {"get_page", "preload_page"} /\ i \in Nat /\ todo[t] = <<>> /\ call[t] # None
      /\ file' = file /\ pc[t] \notin {"idle", "dead"}
  BY <1>1 DEF CheckIndex, LoadPage, CallOf
<1>3. ASSUME Document!PageAnswer(i) \in {"invalid", "failed"} PROVE Document!PageAnswer(i) \in Allowed(t)
  <2>1. CASE call[t].op = "get_page"
    BY <2>1, AnswersByOp DEF Allowed
  <2>2. CASE call[t].op = "preload_page"
    <3>1. Document!PreloadAnswers(i) = {Document!PageAnswer(i)}
      BY <1>1, <1>3, PreloadAnswer
    <3>. QED
      BY <2>2, <3>1, AnswersByOp DEF Allowed
  <2>. QED
    BY <1>2, <2>1, <2>2
<1>4. CASE CheckIndex(t)
  <2>1. CASE i >= Len(file.pages)
    <3>1. Return(t, "invalid")
      BY <1>4, <2>1 DEF CheckIndex
    <3>2. Document!PageAnswer(i) = "invalid"
      BY <1>1, <2>1, FileAnswers
    <3>. QED
      BY <1>2, <1>3, <3>1, <3>2, EndCall
  <2>2. CASE ~(i >= Len(file.pages))
    <3>1. Goto(t, "page") /\ UNCHANGED <<file, call, want, todo, told>>
      BY <1>4, <2>2 DEF CheckIndex
    <3>2. i < Len(file.pages)
      BY <1>1, <1>2, <2>2
    <3>3. CallOf(t)'
      BY <1>2, <3>1, <3>2 DEF CallOf, Goto, IInv, TypeOK
    <3>. QED
      BY <1>2, <3>1, <3>3, GoesOn DEF Labels
  <2>. QED
    BY <2>1, <2>2
<1>5. CASE LoadPage(t)
  <2>1. i \in 0..(Len(file.pages) - 1)
    BY <1>1, <1>2, <1>5 DEF LoadPage, CallOf
  <2>. DEFINE page == file.pages[i + 1]
  <2>2. page \in [damaged : BOOLEAN, fonts : Seq(Keys), xobjects : Seq(Keys)]
    BY <1>1, <2>1, FileShape
  <2>3. CASE poisoned \/ page.damaged
    <3>1. Return(t, "failed")
      BY <1>5, <2>3 DEF LoadPage
    <3>2. "failed" \in Allowed(t)
      <4>1. CASE poisoned
        BY <4>1 DEF IInv, CallsInv, Dead, Allowed
      <4>2. CASE page.damaged
        <5>1. Document!PageAnswer(i) = "failed"
          BY <1>1, <2>1, <4>2, FileAnswers
        <5>. QED
          BY <1>3, <5>1
      <4>. QED
        BY <2>3, <4>1, <4>2
    <3>. QED
      BY <1>2, <3>1, <3>2, EndCall
  <2>4. CASE ~(poisoned \/ page.damaged) /\ call[t].op = "get_page"
    <3>1. Deliver(t, "page", <<>>) /\ <<>> \in Seq(Keys)
      BY <1>5, <2>4 DEF LoadPage
    <3>2. Progress(t, <<>>)
      BY <2>1, <2>4 DEF Progress
    <3>. QED
      BY <1>2, <3>1, <3>2, EndDelivery
  <2>5. CASE ~(poisoned \/ page.damaged) /\ call[t].op = "preload_page"
    <3>1. PICK fonts \in Orders(page.fonts), xobjects \in Orders(page.xobjects) :
             Deliver(t, "page", fonts \o xobjects)
      BY <1>5, <2>5 DEF LoadPage
    <3>2. page.fonts \in Seq(Keys) /\ page.xobjects \in Seq(Keys)
      BY <2>2
    <3>3. fonts \in Seq(Keys) /\ Range(fonts) = Range(page.fonts)
      BY <3>2, AnyOrder
    <3>4. xobjects \in Seq(Keys) /\ Range(xobjects) = Range(page.xobjects)
      BY <3>2, AnyOrder
    <3>5. fonts \o xobjects \in Seq(Keys) /\ Range(fonts \o xobjects) = Needs(i)
      <4>1. fonts \o xobjects \in Seq(Keys) /\ Range(fonts \o xobjects) = Range(fonts) \cup Range(xobjects)
        BY <3>3, <3>4, ConcatProperties, RangeConcatenation
      <4>. QED
        BY <3>3, <3>4, <4>1 DEF Needs
    <3>6. Progress(t, fonts \o xobjects)
      BY <2>1, <2>5, <3>5 DEF Progress
    <3>. QED
      BY <1>2, <3>1, <3>5, <3>6, EndDelivery
  <2>. QED
    BY <1>2, <2>3, <2>4, <2>5
<1>. QED
  BY <1>4, <1>5

\* A call begins.
LEMMA CallSteps ==
    ASSUME SoundConstants, IInv, NEW t \in Threads,
           \/ \E k \in Keys : CallGetObject(t, k)
           \/ \E op \in {"get_page", "preload_page"}, i \in 0..Len(file.pages) : CallPage(t, op, i)
    PROVE  Moved(t) /\ pc'[t] # "dead"
<1>1. CallOf(t) /\ pc[t] = "idle" /\ call[t] = None /\ todo[t] = <<>> /\ file' = file /\ todo' = todo
  BY DEF CallGetObject, CallPage, Begin, IInv, CallsInv, CallOf
<1>2. Len(file.pages) \in Nat
  BY FileShape DEF IInv, Shape
<1>3. PICK label \in {"check", "bounds"}, op \in Ops, arg \in Keys \cup Nat, w \in Keys \cup {None} :
         /\ Goto(t, label) /\ call' = [call EXCEPT ![t] = [op |-> op, arg |-> arg]]
         /\ want' = [want EXCEPT ![t] = w] /\ told' = [told EXCEPT ![t] = None]
         /\ \/ label = "check" /\ op = "get_object" /\ w = arg /\ arg \in Keys
            \/ label = "bounds" /\ op \in {"get_page", "preload_page"} /\ arg \in 0..Len(file.pages)
  <2>1. CASE \E k \in Keys : CallGetObject(t, k)
    BY <2>1 DEF CallGetObject, Ops
  <2>2. CASE \E op \in {"get_page", "preload_page"}, i \in 0..Len(file.pages) : CallPage(t, op, i)
    <3>1. PICK op \in {"get_page", "preload_page"}, i \in 0..Len(file.pages) : CallPage(t, op, i)
      BY <2>2
    <3>2. want' = [want EXCEPT ![t] = want[t]] /\ want[t] \in Keys \cup {None}
      BY <3>1 DEF CallPage, IInv, TypeOK
    <3>3. /\ op \in Ops /\ i \in Keys \cup Nat
          /\ Goto(t, "bounds") /\ call' = [call EXCEPT ![t] = [op |-> op, arg |-> i]]
          /\ told' = [told EXCEPT ![t] = None]
      BY <1>2, <3>1 DEF CallPage, Ops
    <3>. QED
      BY <3>2, <3>3
  <2>. QED
    BY <2>1, <2>2
<1>4. /\ pc'[t] = label /\ call'[t] = [op |-> op, arg |-> arg] /\ want'[t] = w
      /\ \A u \in Threads \ {t} :
          pc'[u] = pc[u] /\ call'[u] = call[u] /\ want'[u] = want[u] /\ todo'[u] = todo[u]
  BY <1>1, <1>3 DEF Goto, IInv, TypeOK, Shape
<1>5. Typed'
  BY <1>1, <1>3 DEF Goto, IInv, TypeOK, Shape, Typed, Labels
<1>6. call'[t] # None
  BY <1>3, <1>4 DEF SoundConstants, Ops
<1>7. CallOf(t)'
  BY <1>1, <1>2, <1>3, <1>4, <1>6 DEF CallOf, Getting
<1>8. Dead' = Dead
  BY <1>1, <1>3, <1>4 DEF Dead
<1>9. Document!Ask(t, [op |-> op, arg |-> arg]) /\ [op |-> op, arg |-> arg] \in Document!Calls
  BY <1>1, <1>3, <1>8 DEF Document!Ask, Document!Calls, Dead
<1>. QED
  BY <1>1, <1>3, <1>4, <1>5, <1>7, <1>9 DEF Moved, Document!Next

\* A panic is one of PlainDocument.
LEMMA PanicStep ==
    ASSUME SoundConstants, IInv, NEW t \in Threads, ParserPanics(t)
    PROVE  Moved(t) /\ pc'[t] = "dead"
<1>1. CallOf(t) /\ pc[t] \in {"parse", "page"} /\ Dead = {} /\ pc' = [pc EXCEPT ![t] = "dead"]
  BY DEF ParserPanics, IInv, CallsInv, Dead, Goto
<1>2. Dead' = {t} /\ pc'[t] = "dead" /\ \A u \in Threads \ {t} : pc'[u] = pc[u]
  BY <1>1 DEF IInv, TypeOK, Dead
<1>3. UNCHANGED <<file, call, want, todo, told>> /\ call[t] # None
  BY <1>1 DEF ParserPanics, CallOf
<1>4. Document!Panic(t)
  BY <1>1, <1>2, <1>3 DEF Document!Panic, Dead
<1>5. Typed'
  BY <1>1, <1>3 DEF IInv, TypeOK, Shape, Typed, Labels
<1>6. CallOf(t)'
  BY <1>2, <1>3 DEF CallOf
<1>. QED
  BY <1>2, <1>3, <1>4, <1>5, <1>6 DEF Moved, Document!Next

-----------------------------------------------------------------------------
(* The invariant, and the theorems. *)

\* What a thread that moved does to the invariant, if the cache is as it should be.
LEMMA MoveKeeps ==
    ASSUME SoundConstants, IInv, NEW t \in Threads, Moved(t),
           lru' \in Caches, LruOf(lru, recent)', \A k \in Keys : lru'.map[k] # None => Found(k),
           calls' \in 0..MaxCalls, poisoned' \in BOOLEAN,
           \/ pc[t] # "dead" /\ pc'[t] # "dead" /\ poisoned' = poisoned
           \/ pc'[t] = "dead" /\ poisoned' = TRUE
    PROVE  IInv'
<1>1. TypeOK' /\ Shape'
  BY DEF Moved, Typed, IInv, TypeOK, Shape, Caches, LruOf
<1>2. \A u \in Threads : CallOf(u)'
  <2>. SUFFICES ASSUME NEW u \in Threads PROVE CallOf(u)'
    OBVIOUS
  <2>1. CASE u = t
    BY <2>1 DEF Moved
  <2>2. CASE u # t
    <3>1. CallOf(u) /\ pc'[u] = pc[u] /\ call'[u] = call[u] /\ want'[u] = want[u] /\ todo'[u] = todo[u] /\ file' = file
      BY <2>2 DEF Moved, IInv, CallsInv
    <3>. QED
      BY <3>1 DEF CallOf, Getting, Needs, Found
  <2>. QED
    BY <2>1, <2>2
<1>3. \A k \in Keys : (lru.map[k] # None => Found(k))'
  BY DEF Moved, Found
<1>4. (poisoned <=> \E u \in Threads : pc[u] = "dead")'
  BY DEF Moved, IInv, CallsInv
<1>. QED
  BY <1>1, <1>2, <1>3, <1>4 DEF IInv, CallsInv

\* The invariant holds of a document just opened.
LEMMA InitIInv == ASSUME SoundConstants, Init PROVE IInv
<1>1. PICK n \in CacheSizes : lru = [capacity |-> n, map |-> [k \in Keys |-> None], order |-> <<>>]
  BY DEF Init, EmptyCache
<1>2. n \in Nat /\ <<>> \in Seq(Keys) /\ Len(<<>>) = 0
  BY DEF SoundConstants
<1>3. lru \in Caches
  BY <1>1, <1>2 DEF Caches
<1>4. TypeOK /\ Shape
  <2>1. Shape
    BY <1>3 DEF Init, Shape, Caches
  <2>2. /\ lru.capacity \in CacheSizes /\ lru.map \in [Keys -> Keys \cup {None}]
        /\ lru.order \in Seq(Keys) /\ recent \in Seq(Keys)
    BY <1>2, <1>3 DEF Init, Caches
  <2>3. calls \in 0..MaxCalls /\ poisoned \in BOOLEAN
    <3>1. MaxCalls \in Nat
      BY DEF SoundConstants
    <3>2. calls \in 0..MaxCalls
      BY <3>1 DEF Init
    <3>3. poisoned \in BOOLEAN
      BY Zenon DEF Init
    <3>. QED
      BY <3>2, <3>3
  <2>4. /\ pc \in [Threads -> Labels] /\ want \in [Threads -> Keys \cup {None}]
        /\ todo \in [Threads -> Seq(Keys)]
        /\ told \in [Threads -> Keys \cup {None, "invalid", "failed", "page"}]
    BY <1>2 DEF Init, Labels
  <2>. QED
    BY <2>1, <2>2, <2>3, <2>4 DEF TypeOK
<1>5. CallsInv
  BY <1>1 DEF Init, CallsInv, CallOf
<1>6. LruOf(lru, recent)
  <2>1. recent = <<>> /\ lru.order = <<>> /\ Range(lru.order) = {} /\ lru.capacity \in Nat
    BY <1>1, <1>2 DEF Init, Range
  <2>. QED
    BY <1>1, <1>2, <2>1 DEF LruOf, NoKeyTwice
<1>. QED
  BY <1>4, <1>5, <1>6 DEF IInv

\* Every step keeps the invariant, and is a step of PlainDocument or none.
LEMMA StepKeeps ==
    ASSUME SoundConstants, IInv, [Next]_vars
    PROVE  IInv' /\ (Document!Next \/ UNCHANGED Document!vars)
<1>. DEFINE Good == IInv' /\ (Document!Next \/ UNCHANGED Document!vars)
<1>1. lru' \in Caches /\ LruOf(lru, recent)' /\ \A k \in Keys : lru'.map[k] # None => Found(k)
  BY CacheKept
<1>2. MaxCalls \in Nat /\ calls \in 0..MaxCalls /\ poisoned \in BOOLEAN
  BY DEF SoundConstants, IInv, TypeOK
<1>3. ASSUME NEW t \in Threads,
             \/ \E k \in Keys : CallGetObject(t, k)
             \/ \E op \in {"get_page", "preload_page"}, i \in 0..Len(file.pages) : CallPage(t, op, i)
      PROVE  Good
  <2>1. Moved(t) /\ pc'[t] # "dead"
    BY <1>3, CallSteps
  <2>2. pc[t] = "idle" /\ calls' \in 0..MaxCalls /\ poisoned' = poisoned
    BY <1>2, <1>3 DEF CallGetObject, CallPage, Begin
  <2>3. IInv'
    BY <1>1, <1>2, <2>1, <2>2, MoveKeeps
  <2>. QED
    BY <2>1, <2>3 DEF Moved
<1>4. ASSUME NEW t \in Threads, CheckReference(t) \/ Lookup(t) \/ Parse(t) \/ Insert(t)
      PROVE  Good
  <2>1. Moved(t) /\ pc'[t] # "dead"
    BY <1>4, ObjectSteps
  <2>2. pc[t] # "dead" /\ calls' = calls /\ poisoned' = poisoned
    BY <1>4 DEF CheckReference, Lookup, Parse, Insert
  <2>3. IInv'
    BY <1>1, <1>2, <2>1, <2>2, MoveKeeps
  <2>. QED
    BY <2>1, <2>3 DEF Moved
<1>5. ASSUME NEW t \in Threads, CheckIndex(t) \/ LoadPage(t)
      PROVE  Good
  <2>1. Moved(t) /\ pc'[t] # "dead"
    BY <1>5, PageSteps
  <2>2. pc[t] # "dead" /\ calls' = calls /\ poisoned' = poisoned
    BY <1>5 DEF CheckIndex, LoadPage
  <2>3. IInv'
    BY <1>1, <1>2, <2>1, <2>2, MoveKeeps
  <2>. QED
    BY <2>1, <2>3 DEF Moved
<1>6. ASSUME NEW t \in Threads, ParserPanics(t) PROVE Good
  <2>1. Moved(t) /\ pc'[t] = "dead"
    BY <1>6, PanicStep
  <2>2. calls' = calls /\ poisoned' = TRUE
    BY <1>6 DEF ParserPanics
  <2>3. IInv'
    BY <1>1, <1>2, <2>1, <2>2, MoveKeeps
  <2>. QED
    BY <2>1, <2>3 DEF Moved
<1>7. ASSUME calls' \in 0..MaxCalls, UNCHANGED <<file, poisoned, pc, call, want, todo, told>>
      PROVE  Good
  <2>1. UNCHANGED Document!vars
    BY <1>7 DEF Document!vars
  <2>2. TypeOK' /\ Shape'
    BY <1>1, <1>7 DEF IInv, TypeOK, Shape, Caches, LruOf
  <2>3. \A t \in Threads : CallOf(t)'
    BY <1>7 DEF IInv, CallsInv, CallOf, Getting, Needs, Found
  <2>4. \A k \in Keys : (lru.map[k] # None => Found(k))'
    BY <1>1, <1>7 DEF Found
  <2>5. (poisoned <=> \E t \in Threads : pc[t] = "dead")'
    BY <1>7 DEF IInv, CallsInv
  <2>. QED
    BY <1>1, <2>1, <2>2, <2>3, <2>4, <2>5 DEF IInv, CallsInv
<1>8. ASSUME NEW t \in Threads, ClearCache(t) PROVE Good
  <2>1. calls' \in 0..MaxCalls
    BY <1>2, <1>8 DEF ClearCache, Begin
  <2>. QED
    BY <1>7, <1>8, <2>1 DEF ClearCache
<1>. HIDE DEF Good
<1>9. ASSUME UNCHANGED vars PROVE Good
  <2>1. calls' \in 0..MaxCalls /\ UNCHANGED <<file, poisoned, pc, call, want, todo, told>>
    BY <1>2, <1>9 DEF vars
  <2>. QED
    BY <1>7, <2>1
<1>10. Good
  BY <1>3, <1>4, <1>5, <1>6, <1>8, <1>9 DEF Next, Step
<1>. QED
  BY <1>10 DEF Good

\* Of every document and every run of threads over it: what each thread still
\* needs for its call, and what the cache and its queue hold.
THEOREM Invariance == ASSUME SoundConstants PROVE Spec => []IInv
<1>1. Init => IInv
  BY InitIInv
<1>2. IInv /\ [Next]_vars => IInv'
  BY StepKeeps
<1>. QED
  BY <1>1, <1>2, PTL DEF Spec

\* CacheIsLru, the promise of ObjectCache: whatever the threads do, the cache has
\* the objects used last, in the order of their use, each under its own key.
THEOREM CacheIsLruAlways == ASSUME SoundConstants PROVE Spec => []CacheIsLru
<1>1. ASSUME IInv PROVE CacheIsLru
  <2>. DEFINE order == lru.order
              n == IF Len(recent) < lru.capacity THEN Len(recent) ELSE lru.capacity
              first == SubSeq(recent, 1, n)
  <2>1. lru \in Caches /\ LruOf(lru, recent)
    BY <1>1 DEF IInv, Shape, Caches
  <2>2. /\ order \in Seq(Keys) /\ Len(order) \in Nat /\ lru.capacity \in Nat
        /\ Len(recent) \in Nat /\ Len(order) <= Len(recent)
    BY <2>1, OrderNoKeyTwice
  <2>3. Len(order) = n /\ n \in Nat /\ recent \in Seq(Keys) /\ \A i \in 1..n : order[i] = recent[i]
    BY <2>1, <2>2 DEF LruOf
  <2>. HIDE DEF n, order
  <2>4. \A i \in 1..n : recent[i] \in Keys
    BY <2>2, <2>3, ElementOfSeq
  <2>5. first \in Seq(Keys) /\ Len(first) = n /\ \A i \in 1..n : first[i] = recent[i]
    <3>1. /\ first \in Seq(Keys) /\ Len(first) = IF 1 <= n THEN n - 1 + 1 ELSE 0
          /\ \A i \in 1..n - 1 + 1 : first[i] = recent[1 + i - 1]
      BY <2>3, <2>4, SubSeqProperties
    <3>2. n - 1 + 1 = n /\ \A i \in 1..n : 1 + i - 1 = i
      BY <2>3
    <3>. HIDE DEF first
    <3>. QED
      BY <2>3, <3>1, <3>2
  <2>6. order = first
    <3>. HIDE DEF first
    <3>. QED
      BY <2>2, <2>3, <2>5, SeqEqual
  <2>7. CachedKeys(lru) = {order[i] : i \in DOMAIN order} /\ \A k \in CachedKeys(lru) : lru.map[k] = k
    <3>1. Range(order) \subseteq Keys
      BY <2>2, RangeOfSeq
    <3>. QED
      BY <2>1, <3>1 DEF LruOf, CachedKeys, ContainsKey, Range, order
  <2>. QED
    BY <2>6, <2>7 DEF CacheIsLru, order, n
<1>. QED
  BY <1>1, Invariance, PTL

\* AnswersFromFile: callers cannot tell the lazy document from a document without
\* a cache, whatever the other threads ask, insert, evict or clear.
THEOREM ImplementsDocument == ASSUME SoundConstants PROVE Spec => AnswersFromFile
<1>1. Init => Document!Init
  BY DEF Init, Document!Init
<1>2. IInv /\ [Next]_vars => [Document!Next]_(Document!vars)
  BY StepKeeps
<1>. QED
  BY <1>1, <1>2, Invariance, PTL DEF Spec, AnswersFromFile, Document!Spec
=============================================================================
