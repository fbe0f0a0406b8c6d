----------------------------- MODULE ScannedPages -----------------------------
(***************************************************************************)
(* The OCR of the scanned pages of a document in operations/               *)
(* page_analysis.rs: one page after another, in batches, or by threads     *)
(* that each take a chunk of the pages and put what they have recognised   *)
(* into one vector.  What the provider makes of a page is text, an error   *)
(* or a panic.                                                             *)
(***************************************************************************)
EXTENDS Integers, Sequences, FiniteSets, SequencesExt

CONSTANTS
    Scans,        \* the scanned pages of the documents considered, ascending
    MaxThreads,   \* the thread numbers that may be asked for are 0..MaxThreads
    Processors,   \* available_parallelism
    None

\* What the constants are: find_scanned_pages goes through the pages in order, and
\* available_parallelism is not zero.
SoundConstants ==
    /\ \A pages \in Scans :
          pages \in Seq(Nat) /\ \A i, j \in DOMAIN pages : i < j => pages[i] < pages[j]
    /\ MaxThreads \in Nat /\ Processors \in Nat \ {0}
    /\ None \notin Nat

Hands == 1..(IF MaxThreads > Processors THEN MaxThreads ELSE Processors)
Pages == UNION {ToSet(pages) : pages \in Scans}
Outcomes == {"text", "error", "panic"}

Calls ==
    {[op |-> "one by one", limit |-> None], [op |-> "parallel", limit |-> None]}
    \cup [op : {"batches", "parallel"}, limit : 0..MaxThreads]

VARIABLES
    scanned,      \* what find_scanned_pages returns
    outcome,      \* what the provider makes of each page
    call,
    chunks,       \* the pages of each thread
    pc,           \* of the caller
    thread,       \* thread[t]: "none" before it is spawned, "running", "ended" or "panicked"
    at,           \* at[t]: how many pages of its chunk thread t has done
    found,        \* found[t]: what it has recognised and not yet put into results
    joined,       \* how many threads the caller has joined
    results       \* the pages recognised, by the caller or by threads that have ended

vars == <<scanned, outcome, call, chunks, pc, thread, at, found, joined, results>>

Smaller(m, n) == IF m <= n THEN m ELSE n

ThreadCount == IF call.limit = None THEN Smaller(Len(scanned), Processors) ELSE call.limit

ChunkSize == (Len(scanned) + ThreadCount - 1) \div ThreadCount

Chunk(i) ==
    SubSeq(scanned, (i - 1) * ChunkSize + 1, Smaller(i * ChunkSize, Len(scanned)))

Chunks == [i \in 1..((Len(scanned) + ChunkSize - 1) \div ChunkSize) |-> Chunk(i)]

Init ==
    /\ scanned \in Scans
    /\ outcome \in [Pages -> Outcomes]
    /\ \A p \in Pages \ ToSet(scanned) : outcome[p] = "text"
    /\ call \in Calls
    /\ chunks = <<>>
    /\ pc = "called"
    /\ thread = [t \in Hands |-> "none"]
    /\ at = [t \in Hands |-> 0]
    /\ found = [t \in Hands |-> <<>>]
    /\ joined = 0
    /\ results = <<>>

-----------------------------------------------------------------------------
(* The caller *)

\* A batch size of 0 and a document without scans give nothing; one thread or
\* none is the caller itself.
Begin ==
    /\ pc = "called"
    /\ IF scanned = <<>> \/ (call.op = "batches" /\ call.limit = 0)
       THEN pc' = "returned" /\ UNCHANGED chunks
       ELSE IF call.op = "parallel" /\ ThreadCount > 1
       THEN pc' = "spawn" /\ chunks' = Chunks
       ELSE pc' = "page" /\ UNCHANGED chunks
    /\ UNCHANGED <<scanned, outcome, call, thread, at, found, joined, results>>

\* The caller counts its pages where the first thread would.
CallerPage ==
    /\ pc = "page"
    /\ LET page == scanned[at[1] + 1] IN
       /\ results' = IF outcome[page] = "text" THEN Append(results, page) ELSE results
       /\ pc' = IF outcome[page] = "panic" THEN "panicked"
                ELSE IF at[1] + 1 = Len(scanned) THEN "returned" ELSE "page"
    /\ at' = [at EXCEPT ![1] = @ + 1]
    /\ UNCHANGED <<scanned, outcome, call, chunks, thread, found, joined>>

Spawn ==
    /\ pc = "spawn"
    /\ \E t \in Hands :
          /\ thread[t] = "none" /\ \A u \in Hands : u < t => thread[u] # "none"
          /\ thread' = [thread EXCEPT ![t] = "running"]
          /\ pc' = IF t = Len(chunks) THEN "join" ELSE "spawn"
    /\ UNCHANGED <<scanned, outcome, call, chunks, at, found, joined, results>>

\* A faulty variant of Join: the handles are dropped.
JoinNobody ==
    /\ pc = "join"
    /\ joined' = Len(chunks)
    /\ pc' = "returned"
    /\ UNCHANGED <<scanned, outcome, call, chunks, thread, at, found, results>>

\* A thread that panicked is joined too.  The last join ends the call.
Join ==
    /\ pc = "join"
    /\ thread[joined + 1] \in {"ended", "panicked"}
    /\ joined' = joined + 1
    /\ pc' = IF joined + 1 = Len(chunks) THEN "returned" ELSE "join"
    /\ UNCHANGED <<scanned, outcome, call, chunks, thread, at, found, results>>

-----------------------------------------------------------------------------
(* A thread *)

ThreadPage(t) ==
    /\ thread[t] = "running" /\ at[t] < Len(chunks[t])
    /\ LET page == chunks[t][at[t] + 1] IN
       /\ found' = [found EXCEPT ![t] = IF outcome[page] = "text" THEN Append(@, page) ELSE @]
       /\ thread' = [thread EXCEPT ![t] = IF outcome[page] = "panic" THEN "panicked" ELSE @]
    /\ at' = [at EXCEPT ![t] = @ + 1]
    /\ UNCHANGED <<scanned, outcome, call, chunks, pc, joined, results>>

\* The vector is locked for this step only, so that no panic poisons it.
Publish(t) ==
    /\ thread[t] = "running" /\ at[t] = Len(chunks[t])
    /\ results' = results \o found[t]
    /\ thread' = [thread EXCEPT ![t] = "ended"]
    /\ UNCHANGED <<scanned, outcome, call, chunks, pc, at, found, joined>>

-----------------------------------------------------------------------------
CallerStep == Begin \/ CallerPage \/ Spawn \/ Join

ThreadStep(t) == ThreadPage(t) \/ Publish(t)

Next == CallerStep \/ \E t \in Hands : ThreadStep(t)

Spec == Init /\ [][Next]_vars

-----------------------------------------------------------------------------
(* Properties *)

\* Types of the variables.
TypeOK ==
    /\ pc \in {"called", "page", "spawn", "join", "returned", "panicked"}
    /\ chunks \in Seq(Seq(Pages))
    /\ thread \in [Hands -> {"none", "running", "ended", "panicked"}]
    /\ joined \in 0..Len(chunks)
    /\ results \in Seq(Pages)
    /\ \A t \in Hands : found[t] \in Seq(Pages)

\* The call has not ended.
Busy == pc \notin {"returned", "panicked"}

Recognised(pages) == SelectSeq(pages, LAMBDA page : outcome[page] = "text")
Panics(pages) == \E i \in DOMAIN pages : outcome[pages[i]] = "panic"

\* The pages of a set that were recognised.
Found(pages) == {page \in pages : outcome[page] = "text"}

Ascending(pages) == \A i, j \in DOMAIN pages : i < j => pages[i] < pages[j]

\* What is returned of some pages stands together and in order.
Together(pages) ==
    \A i, j \in DOMAIN results : i < j /\ {results[i], results[j]} \subseteq pages =>
        results[i] < results[j] /\ \A k \in i..j : results[k] \in pages

\* Whatever the order in which threads end, each page that was recognised is
\* returned once, the pages of one thread together and in order; a page is missing
\* only because of its own error, or because the provider panicked on a page of the
\* same thread.  Only a caller that works alone panics itself.  No thread works on
\* after the call.
EachPageOnce ==
    /\ pc = "returned" /\ chunks = <<>> =>
          /\ Ascending(results)
          /\ ToSet(results) = IF call.op = "batches" /\ call.limit = 0 THEN {} ELSE Found(ToSet(scanned))
    /\ pc = "returned" /\ chunks # <<>> =>
          /\ UNION {ToSet(chunks[t]) : t \in DOMAIN chunks} = ToSet(scanned)
          /\ ToSet(results) = UNION {Found(ToSet(chunks[t])) : t \in {u \in DOMAIN chunks : ~Panics(chunks[u])}}
          /\ \A t \in DOMAIN chunks : Together(ToSet(chunks[t]))
          /\ \A t \in Hands : thread[t] # "running"
    /\ pc = "panicked" => Panics(scanned) /\ chunks = <<>>

\* The same of the vector itself: it is what the caller recognises, or what the
\* threads do one behind the other, in some order.
ScanResultsExact ==
    /\ EachPageOnce
    /\ pc = "returned" /\ chunks = <<>> =>
          results = IF call.op = "batches" /\ call.limit = 0 THEN <<>> ELSE Recognised(scanned)
    /\ pc = "returned" /\ chunks # <<>> =>
          /\ FoldLeft(\o, <<>>, chunks) = scanned
          /\ \E order \in SetToSeqs({i \in DOMAIN chunks : ~Panics(chunks[i])}) :
                results = FoldLeft(LAMBDA all, i : all \o Recognised(chunks[i]), <<>>, order)
=============================================================================
