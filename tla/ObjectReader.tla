---------------------------- MODULE ObjectReader ----------------------------
(***************************************************************************)
(* Reading objects: get_object, sparse_array and unlock of parser/reader.rs *)
(* (PdfReader) with its two caches and its guard against circular loads.   *)
(*                                                                         *)
(* A file says of each number how its newest cross-reference entry         *)
(* describes it and what stands there; XRefChain models where that entry   *)
(* comes from.  Loads nest only where a packed object needs its object     *)
(* stream, so a call is a stack of frames and each frame a program counter.*)
(***************************************************************************)
EXTENDS Naturals, Sequences, SequencesExt, FiniteSetsExt

CONSTANTS MaxNumber,  \* the largest object number
          Gens,       \* generation numbers
          MaxDepth,   \* max_reconstruction_depth, 100 in the code
          MaxParse,   \* how deep parsing may nest, 1000 in the code
          CacheBytes, \* what decoded object streams may occupy, 128 MiB in the code
          Files,      \* the files that are opened
          Questions,  \* what callers ask: get_object or sparse_array of a reference
          None

Numbers == 1..MaxNumber
References == Numbers \X Gens

\* An object stream is a "pack" of the numbers it holds; "broken" bytes do
\* not parse, and a byte scan may find another dictionary or stream.
Bodies == {"array", "dict", "pack", "broken"}
Scanned == [gen : Gens, body : Bodies \ {"broken"}]
Entry == [xref : {"none", "free", "zero", "used", "packed"}, gen : Gens, body : Bodies,
          container : Numbers, holds : SUBSET Numbers, size : Nat, scan : Scanned \cup {None}]

ASSUME SizesAssumption ==
    /\ MaxNumber \in Nat /\ MaxDepth \in Nat \ {0, 1} /\ MaxParse \in Nat \ {0} /\ CacheBytes \in Nat
    /\ 0 \in Gens
ASSUME FilesAssumption == Files \subseteq [Numbers -> Entry]
ASSUME QuestionsAssumption == Questions \subseteq {"get", "sparse"} \X References
\* No stream is packed in an object stream, not even by mistake: what is
\* packed is parsed without its `stream' keyword.
ASSUME PackedAssumption ==
    \A f \in Files : \A n \in Numbers : f[n].xref = "packed" => f[n].body # "pack"

\* What a load yields: the object, the generation it is stored with and the
\* one its key was derived from if it was decrypted.
Value == [of : Numbers, body : Bodies \ {"broken"}, own : Gens, key : Gens \cup {None}]
NullObject == [of |-> 0, body |-> "null", own |-> 0, key |-> None]
Failed == [of |-> 0, body |-> "error", own |-> 0, key |-> None]
Answers == Value \cup {NullObject, Failed}

ASSUME NoneAssumption == None \notin Gens \cup Scanned \cup Answers

VARIABLES
    file,           \* what is in the file
    options,        \* "strict", "streams" (lenient_streams) or "lenient"
    encrypted, unlocked,
    object_cache,
    object_stream_cache,    \* containers whose index is retained
    being_loaded,   \* objects_being_reconstructed
    parse_context,  \* its depth, and whether its time has run out
    calls,          \* the frames of the current call, innermost last
    answer,         \* what a nested call has just returned
    told            \* history: what each question was last answered, once unlocked; the
                    \* errors of a reader whose time has run out are left out

fixed == <<file, options, encrypted>>
caches == <<object_cache, object_stream_cache, being_loaded>>
vars == <<fixed, unlocked, caches, parse_context, calls, answer, told>>

Frame(op, n, g, at) == [op |-> op, n |-> n, g |-> g, at |-> at]

FreshContext == [depth |-> 0, expired |-> FALSE]

\* The empty password is tried when a file is opened, so one that is encrypted
\* may be unlocked already.
Init ==
    /\ file \in Files /\ options \in {"strict", "streams", "lenient"}
    /\ encrypted \in BOOLEAN /\ unlocked \in IF encrypted THEN BOOLEAN ELSE {FALSE}
    /\ object_cache = [r \in References |-> None] /\ object_stream_cache = {}
    /\ being_loaded = {} /\ parse_context = FreshContext /\ calls = <<>> /\ answer = None
    /\ told = [q \in Questions |-> None]

Idle == calls = <<>>
Top == Last(calls)
Ref == <<Top.n, Top.g>>
At(op, point) == ~Idle /\ Top.op = op /\ Top.at = point
Locked == encrypted /\ ~unlocked
Lenient == options = "lenient"
Packed(n) == file[n].xref = "packed"
Container == file[Top.n].container
Cached(r) == object_cache[r] # None

Retained(streams) == MapThenSumSet(LAMBDA n : file[n].size, streams)

(***************************************************************************)
(* Loading.                                                                *)
(***************************************************************************)
\* decrypt_object_if_needed, with a cipher that takes any key.
Decrypted(n, g, body, own) ==
    [of |-> n, body |-> body, own |-> own, key |-> IF encrypted /\ unlocked THEN g ELSE None]

\* A byte scan finds an object header with this number and generation.
Found(n, g) == file[n].scan # None /\ file[n].scan.gen = g

\* A mutant: what cannot be recovered is made up.
RecoveredOrNull(n, g) ==
    IF options # "strict" /\ Found(n, g) /\ file[n].scan.body = "pack"
    THEN Decrypted(n, g, file[n].scan.body, g) ELSE NullObject

\* attempt_manual_object_reconstruction: only a dictionary or a stream is
\* recovered, a dictionary only when syntax is lenient.
Recovered(n, g) ==
    IF /\ options # "strict" /\ Found(n, g)
       /\ file[n].scan.body \in {"pack"} \cup (IF Lenient THEN {"dict"} ELSE {})
    THEN Decrypted(n, g, file[n].scan.body, g) ELSE Failed

\* StackSafeContext::enter, which parsing begins with.  It goes down a level
\* before it looks at the clock, and only parsing goes up again.
Enters == parse_context.depth < MaxParse /\ ~parse_context.expired
Entered ==
    IF parse_context.depth < MaxParse /\ parse_context.expired
    THEN [parse_context EXCEPT !.depth = @ + 1] ELSE parse_context

\* load_object_from_disk of an object that is not packed: what is at its place
\* is parsed, unless there is nothing.
Parses(n, g) == file[n].xref = "used" /\ (file[n].gen = g \/ Lenient)
Loaded(n, g) ==
    LET e == file[n] IN
    CASE e.xref = "free" -> NullObject
      [] e.xref = "zero" -> Failed
      [] e.xref = "none" -> IF Lenient /\ ~Found(n, g) THEN NullObject ELSE Recovered(n, g)
      [] ~Parses(n, g) \/ ~Enters -> Failed
      [] OTHER -> IF e.body = "broken" THEN Recovered(n, g) ELSE Decrypted(n, g, e.body, e.gen)

\* A mutant: packed objects are decrypted again.
UnpackedDecrypted(n) ==
    IF n \in file[file[n].container].holds /\ file[n].body # "broken"
    THEN Decrypted(n, 0, file[n].body, 0) ELSE Failed

\* An object of an indexed container, which was decrypted as a whole.
Unpacked(n) ==
    IF n \in file[file[n].container].holds /\ file[n].body # "broken"
    THEN [of |-> n, body |-> file[n].body, own |-> 0, key |-> None] ELSE Failed

\* IndexedObjectStream::parse: what another key has decrypted does not decode.
Indexable(v) == v.body = "pack" /\ (encrypted => v.key = v.own)

\* A mutant: the new stream is cleared with the others.
RetainAndClear(n) ==
    IF Retained(object_stream_cache) + file[n].size > CacheBytes
    THEN {} ELSE {n} \cup object_stream_cache

\* ensure_object_stream: more than CacheBytes are retained only for one stream.
RetainWith(n) ==
    {n} \cup IF Retained(object_stream_cache) + file[n].size > CacheBytes
             THEN {} ELSE object_stream_cache

(***************************************************************************)
(* Calls.                                                                  *)
(***************************************************************************)
GoTo(point) == calls' = [calls EXCEPT ![Len(calls)].at = point] /\ UNCHANGED <<answer, told>>

\* Call get_object and go on at "point" when it has returned.
Await(point, n, g) ==
    /\ calls' = Append([calls EXCEPT ![Len(calls)].at = point], Frame("get", n, g, "enter"))
    /\ UNCHANGED <<answer, told>>

Return(v) ==
    /\ calls' = Front(calls)
    /\ answer' = IF Len(calls) = 1 THEN None ELSE v
    /\ told' = IF Len(calls) = 1 /\ ~Locked /\ ~(v = Failed /\ parse_context.expired)
               THEN [told EXCEPT ![<<Top.op, Ref>>] = v] ELSE told

\* A faulty variant of Taken: a taken array leaves a null.
TakenLeavingNull(r) == [object_cache EXCEPT ![r] = NullObject]

\* get_object unmarks a load however it ends and the value stays cached; an
\* array that sparse_array takes from an object stream was never cached.
Unmark == being_loaded' = IF Top.op = "get" THEN being_loaded \ {Top.n} ELSE being_loaded
CacheAnd(r, v) == IF v = Failed THEN object_cache ELSE [object_cache EXCEPT ![r] = v]
Taken(r) == [object_cache EXCEPT ![r] = None]
ArrayIn(v) == IF v # None /\ v.body = "array" THEN v ELSE Failed

\* get_object and sparse_array are called.
Call(op, r) ==
    /\ Idle
    /\ calls' = <<Frame(op, r[1], r[2], "enter")>>
    /\ UNCHANGED <<fixed, unlocked, parse_context, caches, answer, told>>

Unlock ==
    /\ Idle /\ Locked /\ unlocked' = TRUE
    /\ UNCHANGED <<fixed, parse_context, caches, calls, answer, told>>

\* 120 seconds have passed since the reader was opened, or its context cleared.
TimeRunsOut ==
    /\ ~parse_context.expired
    /\ parse_context' = [parse_context EXCEPT !.expired = TRUE]
    /\ UNCHANGED <<fixed, unlocked, caches, calls, answer, told>>

ClearParseContext ==
    /\ Idle /\ parse_context # FreshContext /\ parse_context' = FreshContext
    /\ UNCHANGED <<fixed, unlocked, caches, calls, answer, told>>

Refuse ==
    /\ \E op \in {"get", "sparse"} : At(op, "enter")
    /\ Locked
    /\ Return(Failed) /\ UNCHANGED <<fixed, unlocked, parse_context, caches>>

Hit ==
    /\ At("get", "enter") /\ ~Locked /\ Cached(Ref)
    /\ Return(object_cache[Ref]) /\ UNCHANGED <<fixed, unlocked, parse_context, caches>>

\* The guard knows numbers, the cache references.
InLoad(n) == n \in being_loaded
TooDeep == Cardinality(being_loaded) >= MaxDepth

CircularReference ==
    /\ At("get", "enter") /\ ~Locked /\ ~Cached(Ref) /\ InLoad(Top.n)
    /\ object_cache' = CacheAnd(Ref, NullObject)
    /\ Return(NullObject)
    /\ UNCHANGED <<fixed, unlocked, parse_context, object_stream_cache, being_loaded>>

DepthExceeded ==
    /\ At("get", "enter") /\ ~Locked /\ ~Cached(Ref) /\ ~InLoad(Top.n) /\ TooDeep
    /\ Return(Failed) /\ UNCHANGED <<fixed, unlocked, parse_context, caches>>

MarkLoading ==
    /\ At("get", "enter") /\ ~Locked /\ ~Cached(Ref) /\ ~InLoad(Top.n) /\ ~TooDeep
    /\ being_loaded' = being_loaded \cup {Top.n}
    /\ GoTo(IF Packed(Top.n) THEN "open" ELSE "load")
    /\ UNCHANGED <<fixed, unlocked, parse_context, object_cache, object_stream_cache>>

LoadFromDisk ==
    /\ At("get", "load")
    /\ object_cache' = CacheAnd(Ref, Loaded(Top.n, Top.g))
    /\ parse_context' = IF Parses(Top.n, Top.g) THEN Entered ELSE parse_context
    /\ Unmark /\ Return(Loaded(Top.n, Top.g))
    /\ UNCHANGED <<fixed, unlocked, object_stream_cache>>

\* sparse_array looks into the object stream itself.
SparsePacked ==
    /\ At("sparse", "enter") /\ ~Locked /\ Packed(Top.n)
    /\ GoTo("open") /\ UNCHANGED <<fixed, unlocked, parse_context, caches>>

SparsePlain ==
    /\ At("sparse", "enter") /\ ~Locked /\ ~Packed(Top.n)
    /\ Await("take", Top.n, Top.g) /\ UNCHANGED <<fixed, unlocked, parse_context, caches>>

\* ensure_object_stream.
ContainerRetained ==
    /\ ~Idle /\ Top.at = "open" /\ Container \in object_stream_cache
    /\ GoTo("extract") /\ UNCHANGED <<fixed, unlocked, parse_context, caches>>

ReadContainer ==
    /\ ~Idle /\ Top.at = "open" /\ Container \notin object_stream_cache
    /\ Await("index", Container, 0) /\ UNCHANGED <<fixed, unlocked, parse_context, caches>>

RetainContainer ==
    /\ ~Idle /\ Top.at = "index" /\ Indexable(answer)
    /\ object_stream_cache' = RetainWith(Container)
    /\ GoTo("extract") /\ UNCHANGED <<fixed, unlocked, parse_context, object_cache, being_loaded>>

\* A mutant: the error leaves get_object early.
ContainerFailsMarked ==
    /\ ~Idle /\ Top.at = "index" /\ ~Indexable(answer)
    /\ Return(Failed) /\ UNCHANGED <<fixed, unlocked, parse_context, caches>>

ContainerFails ==
    /\ ~Idle /\ Top.at = "index" /\ ~Indexable(answer)
    /\ Unmark /\ Return(Failed)
    /\ UNCHANGED <<fixed, unlocked, parse_context, object_cache, object_stream_cache>>

\* get_compressed_object
Extract ==
    /\ At("get", "extract")
    /\ object_cache' = CacheAnd(Ref, Unpacked(Top.n))
    /\ Unmark /\ Return(Unpacked(Top.n))
    /\ UNCHANGED <<fixed, unlocked, parse_context, object_stream_cache>>

SparseExtract ==
    /\ At("sparse", "extract")
    /\ Return(ArrayIn(Unpacked(Top.n))) /\ UNCHANGED <<fixed, unlocked, parse_context, caches>>

\* Whatever it was, it is taken out of the cache.
SparseTake ==
    /\ At("sparse", "take") /\ answer # Failed
    /\ object_cache' = Taken(Ref)
    /\ Return(ArrayIn(object_cache[Ref]))
    /\ UNCHANGED <<fixed, unlocked, parse_context, object_stream_cache, being_loaded>>

SparseFails ==
    /\ At("sparse", "take") /\ answer = Failed
    /\ Return(Failed) /\ UNCHANGED <<fixed, unlocked, parse_context, caches>>

Next ==
    \/ \E q \in Questions : Call(q[1], q[2])
    \/ Unlock \/ TimeRunsOut \/ ClearParseContext
    \/ Refuse \/ Hit \/ CircularReference \/ DepthExceeded \/ MarkLoading \/ LoadFromDisk
    \/ SparsePacked \/ SparsePlain \/ ContainerRetained \/ ReadContainer \/ RetainContainer
    \/ ContainerFails \/ Extract \/ SparseExtract \/ SparseTake \/ SparseFails

Spec == Init /\ [][Next]_vars

(***************************************************************************)
(* What the reader promises.                                               *)
(***************************************************************************)
Points == {"enter", "load", "open", "index", "extract", "take"}

\* Types of the variables.
TypeOK ==
    /\ file \in [Numbers -> Entry] /\ options \in {"strict", "streams", "lenient"}
    /\ encrypted \in BOOLEAN /\ unlocked \in BOOLEAN
    /\ object_cache \in [References -> (Answers \ {Failed}) \cup {None}]
    /\ object_stream_cache \subseteq Numbers /\ being_loaded \subseteq Numbers
    /\ parse_context \in [depth : 0..MaxParse, expired : BOOLEAN]
    /\ calls \in Seq([op : {"get", "sparse"}, n : Numbers, g : Gens, at : Points])
    /\ answer \in Answers \cup {None} /\ told \in [Questions -> Answers \cup {None}]

\* The numbers marked as being loaded are those of the get_object frames past
\* their guard, no number twice: no error path leaves a number marked, which
\* would answer it with null for the rest of the reader's life, and no load
\* nests in a load of the same number.  Levels of parsing are only lost to the
\* clock, after which nothing is parsed until the context is cleared.
GuardIsStack ==
    LET loading == {i \in DOMAIN calls : calls[i].op = "get" /\ calls[i].at # "enter"} IN
    /\ being_loaded = {calls[i].n : i \in loading}
    /\ Cardinality(being_loaded) = Cardinality(loading)
    /\ parse_context.depth > 0 => parse_context.expired

\* The container of n, the container of that and so on lead back to n.
OnCycle(n) ==
    \E k \in 1..MaxNumber : \E path \in [0..k -> Numbers] :
        /\ path[0] = n /\ path[k] = n
        /\ \A i \in 0..(k - 1) : Packed(path[i]) /\ path[i + 1] = file[path[i]].container

\* A null is cached only for an object the file frees, for one it does not hold
\* that lenient reading takes as null, and, under generation 0, for an object
\* stream that is packed in itself directly or through others: the circular
\* reference is the one failure that get_object caches.
NullOnlyIfSaid ==
    \A r \in References : object_cache[r] = NullObject =>
        \/ file[r[1]].xref = "free"
        \/ file[r[1]].xref = "none" /\ Lenient /\ ~Found(r[1], r[2])
        \/ r[2] = 0 /\ OnCycle(r[1])

\* What is cached of an encrypted file was decrypted exactly once: an object
\* of its own by its key, a packed one with its object stream; and so nothing
\* is cached before the file is unlocked.
DecryptedOnce ==
    \A r \in References : object_cache[r] \in Value =>
        (object_cache[r].key # None <=> encrypted /\ ~Packed(r[1]))

\* When an object is taken out of its object stream the stream is at hand, or
\* indexing object_stream_cache would panic.
ContainerAtHand ==
    \A i \in DOMAIN calls : calls[i].at = "extract" => file[calls[i].n].container \in object_stream_cache

\* The retained object streams fit into the limit unless there is just one.
StreamCacheBounded ==
    Retained(object_stream_cache) <= CacheBytes \/ Cardinality(object_stream_cache) = 1

\* Eviction frees enough, and never the stream an object is about to be taken from;
\* the caches hold values of their types, never an error.
StreamCacheSound == TypeOK /\ ContainerAtHand /\ StreamCacheBounded

\* An unlocked reader that is asked the same again answers the same, whatever
\* was read, taken or evicted in between, and whether or not its time ran out
\* and its context was cleared since; only the error of an object stream
\* that is packed in itself turns into null.
AnswersAgree ==
    [][\A q \in Questions : told[q] # None =>
          \/ told'[q] = told[q]
          \/ q[2][2] = 0 /\ OnCycle(q[2][1]) /\ told[q] = Failed /\ told'[q] = NullObject]_vars

\* What the reader says when it meets another generation than the one asked
\* for, and goes on in lenient mode: "using available".  The key of an object
\* is then the one of the generation it has.
UsesAvailableGeneration ==
    \A r \in References : object_cache[r] \in Value /\ object_cache[r].key # None
        => object_cache[r].key = object_cache[r].own
=============================================================================
