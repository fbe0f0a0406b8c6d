------------------------------ MODULE MCServices ------------------------------
(***************************************************************************)
(* Model-checking instances of the parts around reader and writer that     *)
(* keep state of their own: LazyDocument, MemoryPool, ResourcePool,        *)
(* PageTree, IncrementalParser, ContentChunks, StreamingWriter,            *)
(* ScannedPages, CalculationEngine, FormCalculation, TaggedProjection and  *)
(* SignedHistory.  They share nothing, so a behaviour exercises one of     *)
(* them and leaves the others in an initial state.                         *)
(*                                                                         *)
(* PageTree, StreamingWriter and SignaturePolicy are extended, so that     *)
(* what is checked of page trees, of streamed files and of signed          *)
(* documents is what the theorems state of them; the other parts are       *)
(* instances with variables of their own.                                  *)
(***************************************************************************)
EXTENDS PageTree, StreamingWriter, SignaturePolicy, SequencesExt, TLC

CONSTANTS Threads, key1, key2, key3

VARIABLES
    exercised,
    d_file, d_lru, d_poisoned, d_pc, d_call, d_want, d_todo, d_told, d_calls, d_recent,
    b_enabled, b_queues, b_size, b_stats, b_stats_lock, b_pools_lock, b_pc, b_asked, b_held, b_calls, b_topped,
    r_pool, r_stats, r_writer, r_readers, r_pc, r_adds, r_at, r_calls, r_missed,
    f_document, f_offset, f_parser, f_delivered, f_result,
    c_content, c_options, c_offset, c_decoder, c_delivered, c_result,
    s_scanned, s_outcome, s_call, s_chunks, s_pc, s_thread, s_at, s_found, s_joined, s_results,
    e_values, e_calculations, e_dependencies, e_order, e_told, e_forgotten, e_calls,
    v_settings, v_values, v_calculations, v_formats, v_events, v_stage, v_field, v_order, v_previous, v_told,
    v_before, v_calls,
    g_tagged, g_source, g_indexed, g_told, g_calls

documentVars == <<d_file, d_lru, d_poisoned, d_pc, d_call, d_want, d_todo, d_told, d_calls, d_recent>>
bufferVars == <<b_enabled, b_queues, b_size, b_stats, b_stats_lock, b_pools_lock, b_pc, b_asked, b_held,
                b_calls, b_topped>>
resourceVars == <<r_pool, r_stats, r_writer, r_readers, r_pc, r_adds, r_at, r_calls, r_missed>>
treeVars == vars
feedVars == <<f_document, f_offset, f_parser, f_delivered, f_result>>
chunkVars == <<c_content, c_options, c_offset, c_decoder, c_delivered, c_result>>
scanVars == <<s_scanned, s_outcome, s_call, s_chunks, s_pc, s_thread, s_at, s_found, s_joined, s_results>>
engineVars == <<e_values, e_calculations, e_dependencies, e_order, e_told, e_forgotten, e_calls>>
formVars == <<v_settings, v_values, v_calculations, v_formats, v_events, v_stage, v_field, v_order, v_previous,
              v_told, v_before, v_calls>>
tagVars == <<g_tagged, g_source, g_indexed, g_told, g_calls>>
historyVars == <<revisions, terms, reworked, last>>

threadVars == <<documentVars, bufferVars, resourceVars>>
cutVars == <<treeVars, feedVars, chunkVars>>
otherVars == <<writerVars, scanVars, engineVars, formVars, tagVars, historyVars>>

-----------------------------------------------------------------------------
(* Lazy documents: a sound file, and one with damaged and missing objects. *)

LazyPage(damaged, fonts, xobjects) == [damaged |-> damaged, fonts |-> fonts, xobjects |-> xobjects]

LazyFiles ==
    {[indexed |-> {key1, key2, key3}, damaged |-> {}, pages |-> <<LazyPage(FALSE, <<key1>>, <<>>)>>],
     [indexed |-> {key1, key2}, damaged |-> {key2},
      pages |-> <<LazyPage(FALSE, <<key1, key3>>, <<key2>>), LazyPage(TRUE, <<key1>>, <<>>)>>]}

Lazy == INSTANCE LazyDocument WITH
    Keys <- {key1, key2, key3}, CacheSizes <- 0..2, Files <- LazyFiles, MaxCalls <- 3,
    file <- d_file, lru <- d_lru, poisoned <- d_poisoned, pc <- d_pc, call <- d_call, want <- d_want,
    todo <- d_todo, told <- d_told, calls <- d_calls, recent <- d_recent

\* What the theorems of LazyDocumentProofs assume of these constants.
ASSUME LazyAssumption == Lazy!SoundConstants

-----------------------------------------------------------------------------
(* Two size classes, and three kinds of resources, two of them with one hash. *)

Buffers == INSTANCE MemoryPool WITH
    Upper <- <<2, 4>>, Capacity <- <<1, 1>>, Typical <- <<2, 4>>, Preallocated <- <<1, 0>>,
    Sizes <- {1, 3}, MaxCalls <- 3, MaxHeld <- 2,
    enabled <- b_enabled, queues <- b_queues, current_size <- b_size, stats <- b_stats,
    stats_lock <- b_stats_lock, pools_lock <- b_pools_lock, pc <- b_pc, asked <- b_asked,
    held <- b_held, calls <- b_calls, topped_up <- b_topped

\* What the theorems of ServicesProofs assume of these constants.
ASSUME BuffersAssumption == Buffers!SoundConstants

Resources == INSTANCE ResourcePool WITH
    Types <- <<"font", "image", "pattern">>, Resources <- {1, 2, 3}, Hash <- <<1, 1, 2>>, MaxCalls <- 3,
    pool <- r_pool, stats <- r_stats, writer <- r_writer, readers <- r_readers, pc <- r_pc,
    adds <- r_adds, at <- r_at, calls <- r_calls, missed <- r_missed

\* What the theorems of ServicesProofs assume of these constants.
ASSUME ResourcesAssumption == Resources!SoundConstants

-----------------------------------------------------------------------------
(* Page trees *)

NoAttributes == [key \in InheritableKeys |-> None]
With(key, value) == [NoAttributes EXCEPT ![key] = value]

Node(type, kids, contents, parent, attributes) ==
    [form |-> "dictionary", type |-> type, kids |-> kids, contents |-> contents,
     parent |-> parent, attributes |-> attributes]
Inner(kids) == Node("Pages", kids, FALSE, None, NoAttributes)
Leaf == Node("Page", None, TRUE, None, NoAttributes)
Untyped == Node(None, None, TRUE, None, NoAttributes)
Broken == [form |-> "broken"]
Other == [form |-> "other"]
Reference(n) == [form |-> "reference", to |-> n]

Tree(objects) ==
    [objects |-> objects, catalog |-> "reference", root |-> 1, scanned |-> {}, xref_len |-> 1, lenient |-> FALSE]

\* Any graph of a root and two nodes, with kids that are shared or ancestors.
KidLists == {<<>>, <<2>>, <<2, 3>>, <<3, 2>>, <<2, 2>>, <<3, 1>>}
SomeNodes == {Inner(kids) : kids \in KidLists} \cup {Leaf, Broken, Node(None, <<3, 2>>, FALSE, None, NoAttributes)}
Graphs == {Tree(<<Inner(kids), second, third>>) : kids \in KidLists, second \in SomeNodes, third \in SomeNodes}

\* Trees with more pages than an index holds.
LargeTrees ==
    {Tree(<<Inner(<<2, 5, 3>>), Inner(<<3, 4>>), Inner(<<6, 2, 7>>), Leaf, Leaf, Leaf, Leaf>>),
     Tree(<<Inner(<<2, 4>>), Inner(<<3>>), Leaf, Leaf>>),
     Tree(<<Leaf>>)}

\* A page below two nodes, any of them with a box and any of the three with any parent.
Chain(parents, box1, box2, box3) ==
    Tree(<<Node("Pages", <<2>>, FALSE, parents[1], With("MediaBox", box1)),
           Node("Pages", <<3>>, FALSE, parents[2], With("MediaBox", box2)),
           Node("Page", None, TRUE, parents[3], With("MediaBox", box3))>>)

Chains ==
    {Chain(parents, box1, box2, None) :
        parents \in [1..3 -> {None, 1, 2, 3}], box1 \in {None, "a"}, box2 \in {None, "b"}}
    \cup
    {Chain(<<None, 1, parent>>, "a", "b", "c") : parent \in {None, 1, 2, 3}}

\* Each attribute, sound, of another kind or short of elements, at a page and above.
Attributed ==
    {Tree(<<Node("Pages", <<2, 3>>, FALSE, None, With(upper, above)),
            Node(None, None, TRUE, 1, With(lower, own)),
            Node("Other", None, FALSE, 1, With("MediaBox", "odd"))>>) :
        upper \in InheritableKeys, lower \in InheritableKeys,
        above \in {"a", "odd", "short"}, own \in {"b", "odd", "short"}}

\* Files whose catalog leads nowhere, to a reference, or has no entry for pages.
Lost ==
    {[objects |-> <<Leaf, Untyped, Leaf, Other, Inner(<<1>>), Leaf>>, catalog |-> "absent", root |-> None,
      scanned |-> scanned, xref_len |-> length, lenient |-> lenient] :
        scanned \in {{}, {1}, {4}, {1, 2, 3, 4}, {1, 2, 3, 4, 6}}, length \in {4, 6, 7}, lenient \in BOOLEAN}
    \cup
    {[objects |-> <<first, Reference(4), Leaf, Inner(<<3>>), Reference(1)>>, catalog |-> "reference", root |-> root,
      scanned |-> {}, xref_len |-> 5, lenient |-> lenient] :
        first \in {Broken, Other, Inner(<<3>>)}, root \in {1, 2, 5}, lenient \in BOOLEAN}
    \cup
    {[objects |-> <<Leaf>>, catalog |-> "value", root |-> None, scanned |-> {1}, xref_len |-> 2, lenient |-> TRUE]}

TreeFiles == Graphs \cup LargeTrees \cup Chains \cup Attributed \cup Lost

-----------------------------------------------------------------------------
(* Files fed in pieces: one object with any body of up to three symbols, streams,
   and files that break off or go on at odd places. *)

FileHeader == <<"%", "V", "n">>
EndObject == <<"n", "e", "j", "n">>
FileEnding == <<"x", "f", "n", "%", "E", "n">>

Bodies == UNION {[1..k -> {"<", ">", "(", ")", "[", "e", "%", "n"}] : k \in 0..3}

Streams ==
    {<<"1">> \o keyword \o data :
        keyword \in {<<"n", "s", "m", "n">>, <<"n", "s", "m", "r", "n">>, <<"n", "s", "m", "r">>, <<"n", "s", "m">>},
        data \in {<<")">>, <<"n">>, <<"e", "j">>, <<>>}}

OddFiles ==
    {FileHeader \o <<"1", "n", "e", "j">> \o FileEnding \o <<"1">>,
     FileHeader \o FileEnding \o <<"n", "n", "n", "n", "n", "n", "n", "n">>,
     FileHeader \o FileEnding \o FileEnding,
     FileHeader \o <<"!">> \o EndObject \o FileEnding,
     FileHeader \o <<"(", "\\", ")", ")">> \o EndObject \o FileEnding,
     FileHeader \o <<"1", "1", "1", "1", "1", "1", "1">> \o EndObject \o FileEnding,
     FileHeader \o <<"1", "1", "1", "1", "1", "1", "1", "1">> \o EndObject \o FileEnding,
     FileHeader \o <<"2", "s", "m", "n", "x", "f">> \o EndObject \o FileEnding,
     <<"%", "V", "r", "n">> \o FileEnding,
     <<"%", "1", "n">>,
     <<"1", "1", "1", "1", "1">>,
     <<>>}

FedFiles == {FileHeader \o body \o EndObject \o FileEnding : body \in Bodies \cup Streams} \cup OddFiles

Feed == INSTANCE IncrementalParser WITH
    Documents <- FedFiles, MaxRead <- 3, Piece <- 2, MaxBuffer <- 10, MaxDepth <- 2, MaxHeader <- 3,
    document <- f_document, offset <- f_offset, parser <- f_parser, delivered <- f_delivered, result <- f_result

-----------------------------------------------------------------------------
(* Contents of up to two words of each form, and some longer ones. *)

Words ==
    {<<"B", "T">>, <<"E", "T">>, <<"B", "I">>, <<"q">>, <<"d">>, <<"w">>, <<"(", "q", ")">>, <<"<", "d", ">">>,
     <<"<", "<">>, <<">", ">">>, <<"[">>, <<"]">>, <<"%", "q">>, <<"/", "q">>}

Spaced(words) == FoldLeft(LAMBDA all, word : all \o word \o <<"n">>, <<>>, words)

ChunkedContents ==
    {Spaced(words) : words \in UNION {[1..k -> Words] : k \in 0..2}}
    \cup
    {<<"B", "T", "n", "d", "n", "q", "n", "E", "T", "n", "q">>, <<"q", "n", "B", "I", "n", "q", "n", "q">>,
     <<"J", "P", "q", "n", "q">>, <<"N", "n", "G", "q">>, <<"J", "P">>,
     <<"[", "[", "[", "q">>, <<"(", "(", "\\", ")", ")", "q", ")", "n", "q">>, <<"(", "(", "(", ")", ")", ")", "n">>,
     <<"d", "n", "d", "n", "d", "n", "d", "n">>, <<"q", "n", "B">>, <<"d", "q">>, <<"q", "n", "d">>,
     <<">", "q", "n">>, <<"q", "(">>, <<"/", "q", "(", "q", ")", "n">>, <<"/", "q", "n", "w">>}

Choice(kinds, split, max) == [kinds |-> kinds, split |-> split, max |-> max]
AllKinds == {"text", "graphics", "unknown", "image"}

Chunked == INSTANCE ContentChunks WITH
    Contents <- ChunkedContents,
    OptionSets <- {Choice(AllKinds, TRUE, 2), Choice(AllKinds, FALSE, 4), Choice({"text"}, TRUE, 2),
                   Choice({"graphics", "image"}, FALSE, 4), Choice({"text", "unknown"}, FALSE, 3), Choice({}, FALSE, 1)},
    MaxRead <- 2, PrefixLength <- 3, MaxRecord <- 7, MaxNesting <- 2,
    content <- c_content, options <- c_options, offset <- c_offset, decoder <- c_decoder,
    delivered <- c_delivered, result <- c_result

-----------------------------------------------------------------------------
(* Scanned pages for more and for fewer threads than there are. *)

Scanned == INSTANCE ScannedPages WITH
    Scans <- {<<>>, <<1>>, <<0, 1, 3>>, <<0, 1, 2, 3>>}, MaxThreads <- 3, Processors <- 2,
    scanned <- s_scanned, outcome <- s_outcome, call <- s_call, chunks <- s_chunks, pc <- s_pc,
    thread <- s_thread, at <- s_at, found <- s_found, joined <- s_joined, results <- s_results

\* What the theorems of ServicesProofs about ScannedPages assume.
ASSUME ScansAssumption == Scanned!SoundConstants

-----------------------------------------------------------------------------
(* Forms of three fields; sums that overflow, and a range that is none. *)

Engine == INSTANCE CalculationEngine WITH
    Fields <- {1, 2, 3}, Values <- {2}, MaxCalls <- 4,
    Expressions <- {[inputs |-> inputs, sound |-> TRUE] :
                       inputs \in {{}, {1}, {2}, {1, 2}, {1, 3}}}
                   \cup {[inputs |-> {1}, sound |-> FALSE]},
    field_values <- e_values, calculations <- e_calculations, dependencies <- e_dependencies,
    calculation_order <- e_order, told <- e_told, forgotten <- e_forgotten, calls <- e_calls

Calculation(inputs, kind) == [inputs |-> inputs, kind |-> kind]

Forms == INSTANCE FormCalculation WITH
    Fields <- {1, 2, 3}, Values <- {2, 200, 400}, MaxValue <- 300, Depths <- {1, 2}, MaxCalls <- 3,
    Calculations <- {Calculation({1}, "sum"), Calculation({1, 2}, "sum"),
                     Calculation({1}, "invalid")},
    Formats <- {"percent"},
    settings <- v_settings, field_values <- v_values, js_calculations <- v_calculations,
    field_formats <- v_formats, events <- v_events, stage <- v_stage, field <- v_field, order <- v_order,
    previous <- v_previous, told <- v_told, before <- v_before, calls <- v_calls

-----------------------------------------------------------------------------
(* Structure trees of three pages: contents on pages of their own, of an element
   above and of both, indexes of every kind, trees that are refused, and some that
   are just or not quite within the limits. *)

Ref(n) == [kind |-> "reference", to |-> n]
Items(items) == [kind |-> "array", items |-> items]
NullKid == [kind |-> "null"]
OtherKid == [kind |-> "other"]
Mcid(page, mcid) == [kind |-> "mcid", page |-> page, mcid |-> mcid]
Objr(page, key) == [kind |-> "objr", page |-> page, key |-> key]
Element(page, parent, kid) == [kind |-> "element", page |-> page, parent |-> parent, kid |-> kid, id |-> None]
Identified(element, id) == [element EXCEPT !.id = id]
IndexNode(form, kids) == [kind |-> "index", form |-> form, kids |-> kids, entries |-> <<>>]
Unreadable(zero) == [kind |-> "unreadable", at_zero |-> zero]

TaggedFile(key1_, key2_, key3_, kid, objects) ==
    [pages |-> (11 :> key1_) @@ (12 :> key2_) @@ (13 :> key3_), objects |-> objects,
     root |-> [typed |-> TRUE, kid |-> kid, ParentTree |-> IndexNode("entries", <<>>), IDTree |-> None,
               next_key |-> 0]]

TaggedTrees ==
    {TaggedFile(key, other, None, Items(<<Ref(1), Ref(2)>>), <<first, second, third>>) :
        key \in {None, 0, 1}, other \in {None, 0},
        first \in {Element(11, 0, Items(<<Mcid(None, 0), Ref(3)>>)), Element(11, 0, Ref(3)),
                   Element(None, 0, Items(<<Ref(3), NullKid>>)),
                   Element(12, 0, Items(<<Mcid(11, 1), Ref(3), Objr(13, 1)>>))},
        second \in {Element(13, 0, Mcid(None, 0)), Element(12, 0, Items(<<Mcid(None, 0)>>)),
                    Element(None, 0, Items(<<Objr(12, 0), Mcid(13, 2)>>)), Element(11, 0, None), Element(11, 0, NullKid)},
        third \in {Element(None, 1, None), Element(12, 1, Mcid(None, 0)), Element(None, 1, Mcid(None, 2)),
                   Element(13, 1, Items(<<Mcid(None, 1), Mcid(12, 1)>>)), Identified(Element(None, 1, None), 101)}}

IndexedTrees ==
    {[TaggedFile(0, None, None, Items(<<Ref(1), Ref(2)>>),
                 <<Identified(Element(11, 0, Mcid(None, 0)), 101), Identified(Element(12, 0, Mcid(None, 1)), id),
                   third, fourth>>)
      EXCEPT !.root.ParentTree = parent_tree, !.root.IDTree = id_tree] :
        parent_tree \in {None, Ref(3), IndexNode("entries", <<>>)},
        id_tree \in {None, Ref(3), Ref(4), IndexNode("kids", <<Ref(4)>>)},
        third \in {Unreadable(TRUE), Unreadable(FALSE), IndexNode("kids", <<Ref(4)>>), IndexNode("kids", <<Ref(3)>>)},
        fourth \in {IndexNode("entries", <<>>), IndexNode("odd", <<>>)},
        id \in {None, 101, 102}}

OddTrees ==
    {TaggedFile(key, None, 2, kid, objects) : key \in {None, 0, -1},
        kid \in {None, Ref(1), NullKid, OtherKid, Mcid(None, 0), Ref(0), Items(<<Ref(2), Ref(2)>>),
                 Items(<<Ref(1), Ref(4)>>)},
        objects \in {
            <<Element(11, 0, Ref(2)), Items(<<Ref(3), NullKid>>), Element(None, 1, Mcid(None, 1)),
              Element(12, 0, Objr(None, 0))>>,
            <<Element(11, 2, Ref(2)), Ref(4), Element(14, 1, Mcid(None, 1)), Element(12, 0, Objr(13, None))>>,
            <<Element(None, 0, Items(<<Ref(3), Ref(4)>>)), Items(<<Ref(3)>>), Element(14, 1, Mcid(None, 1)),
              Element(12, 0, Mcid(11, 5))>>,
            <<Element(12, 0, Items(<<Ref(3), Ref(4)>>)), Items(<<Ref(3)>>), Element(None, 1, Objr(11, 3)),
              Element(12, 1, Objr(12, 3))>>,
            <<Element(12, 0, Items(<<Ref(3), Ref(4)>>)), Unreadable(TRUE), Element(13, 1, Mcid(None, 1)),
              Element(12, 1, Items(<<Mcid(13, 2), Mcid(12, 3), Mcid(11, 3)>>))>>}}
    \cup
    {TaggedFile(None, None, None, Items(<<Ref(1)>>),
                <<Element(11, 0, Items(<<Ref(2)>>)), Element(12, 1, Items(<<Items(<<Ref(3)>>)>>)), Element(13, 2, kid)>>) :
        kid \in {Items(<<Mcid(None, 0)>>), Mcid(None, 0)}}
    \cup
    {[TaggedFile(0, None, None, Ref(1), <<Element(11, 0, Mcid(None, 0))>>) EXCEPT !.root.typed = FALSE]}

TaggedFiles == TaggedTrees \cup IndexedTrees \cup OddTrees

Tags == INSTANCE TaggedProjection WITH
    MaxEntries <- 13, MaxMcid <- 4, MaxNesting <- 9, MaxSlots <- 8, MaxCalls <- 2,
    tagged <- g_tagged, source <- g_source, indexed <- g_indexed, told <- g_told, calls <- g_calls

-----------------------------------------------------------------------------
(* A form of a text field and perhaps one to be signed, with a lock of its own or
   none; documents certified before, soundly or not. *)

FormField(type, lock) ==
    [type |-> type, value |-> None, lock |-> lock, marks |-> {}, at |-> 1]
FieldLock(permission, own) == [permission |-> permission, own |-> own]

SignedView(fields, signatures, certification) ==
    [certification |-> certification, form |-> DOMAIN fields, place |-> "object", fields |-> fields,
     signatures |-> signatures]

Unsigned ==
    {[view |-> SignedView(fields, <<>>, None), term |-> None, sound |-> TRUE] :
        fields \in {<<FormField("Tx", None), FormField("Sig", lock)>> :
                       lock \in {FieldLock(1, None), FieldLock(2, 1), FieldLock(None, 1)}}
                   \cup {<<FormField("Tx", None)>>}}

Certified ==
    {[view |-> SignedView(<<FormField("Tx", None), [FormField("Sig", None) EXCEPT !.value = 1]>>,
                          <<[certifies |-> 3, locks |-> None, covers |-> covers, at |-> 1]>>, certification),
      term |-> IF covers = 1 /\ certification = 1 THEN [certifies |-> 3, locks |-> None, permission |-> None] ELSE None,
      sound |-> covers = 1 /\ certification = 1] :
        covers \in {0, 1}, certification \in {None, 0, 1}}

Signers ==
    {[certifies |-> permission, locks |-> None, visible |-> permission = None] : permission \in {None, 1, 2}}
    \cup
    {[certifies |-> None, locks |-> [action |-> action, fields |-> {1}], visible |-> FALSE] :
        action \in {"All", "Include", "Exclude"}}

SignedBefore == Unsigned \cup Certified

History == INSTANCE SignedHistory

-----------------------------------------------------------------------------
(* One of them at work *)

Parts == {"documents", "buffers", "resources", "pages", "feed", "chunks", "streaming", "scans", "engine", "forms",
          "tags", "signing"}

\* What the parts that are left alone start from.
Plain ==
    /\ IF exercised = "documents" THEN TRUE
       ELSE d_file = (CHOOSE f \in LazyFiles : TRUE) /\ d_lru = Lazy!EmptyCache(0)
    /\ IF exercised = "buffers" THEN TRUE ELSE b_enabled = FALSE
    /\ IF exercised = "pages" THEN TRUE ELSE file = Tree(<<Leaf>>)
    /\ IF exercised = "feed" THEN TRUE ELSE f_document = <<>>
    /\ IF exercised = "chunks" THEN TRUE ELSE c_content = <<>> /\ c_options = Choice({}, FALSE, 1)
    /\ IF exercised = "streaming" THEN TRUE
       ELSE options = [direct |-> TRUE, auto_flush |-> FALSE, xref_streaming |-> FALSE]
    /\ IF exercised = "scans" THEN TRUE
       ELSE s_scanned = <<>> /\ s_call = [op |-> "one by one", limit |-> None]
    /\ IF exercised = "forms" THEN TRUE
       ELSE v_settings = [auto_recalculate |-> TRUE, max_depth |-> 1, log_events |-> TRUE]
    /\ IF exercised = "tags" THEN TRUE
       ELSE g_tagged = (CHOOSE f \in TaggedFiles : TRUE)
    /\ IF exercised = "signing" THEN TRUE
       ELSE revisions = <<(CHOOSE original \in Unsigned : TRUE).view>>

ServicesInit ==
    /\ exercised \in Parts
    /\ Plain
    /\ Lazy!Init /\ Buffers!Init /\ Resources!Init /\ Init /\ Feed!Init
    /\ Chunked!Init /\ WriterInit /\ Scanned!Init /\ Engine!Init /\ Forms!Init /\ Tags!Init
    /\ History!Init

\* The variables of all parts but one.
AllButDocument == <<exercised, bufferVars, resourceVars, cutVars, otherVars>>
AllButBuffer == <<exercised, documentVars, resourceVars, cutVars, otherVars>>
AllButResource == <<exercised, documentVars, bufferVars, cutVars, otherVars>>
AllButTree == <<exercised, threadVars, feedVars, chunkVars, otherVars>>
AllButFeed == <<exercised, threadVars, treeVars, chunkVars, otherVars>>
AllButChunk == <<exercised, threadVars, treeVars, feedVars, otherVars>>
AllButWriter == <<exercised, threadVars, cutVars, scanVars, engineVars, formVars, tagVars, historyVars>>
AllButScan == <<exercised, threadVars, cutVars, writerVars, engineVars, formVars, tagVars, historyVars>>
AllButEngine == <<exercised, threadVars, cutVars, writerVars, scanVars, formVars, tagVars, historyVars>>
AllButForm == <<exercised, threadVars, cutVars, writerVars, scanVars, engineVars, tagVars, historyVars>>
AllButTags == <<exercised, threadVars, cutVars, writerVars, scanVars, engineVars, formVars, historyVars>>
AllButHistory == <<exercised, threadVars, cutVars, writerVars, scanVars, engineVars, formVars, tagVars>>

ServicesNext ==
    \/ exercised = "documents" /\ Lazy!Next /\ UNCHANGED AllButDocument
    \/ exercised = "buffers" /\ Buffers!Next /\ UNCHANGED AllButBuffer
    \/ exercised = "resources" /\ Resources!Next /\ UNCHANGED AllButResource
    \/ exercised = "pages" /\ Next /\ UNCHANGED AllButTree
    \/ exercised = "feed" /\ Feed!Next /\ UNCHANGED AllButFeed
    \/ exercised = "chunks" /\ Chunked!Next /\ UNCHANGED AllButChunk
    \/ exercised = "streaming" /\ WriterNext /\ UNCHANGED AllButWriter
    \/ exercised = "scans" /\ Scanned!Next /\ UNCHANGED AllButScan
    \/ exercised = "engine" /\ Engine!Next /\ UNCHANGED AllButEngine
    \/ exercised = "forms" /\ Forms!Next /\ UNCHANGED AllButForm
    \/ exercised = "tags" /\ Tags!Next /\ UNCHANGED AllButTags
    \/ exercised = "signing" /\ History!Next /\ UNCHANGED AllButHistory

Variables == <<exercised, threadVars, cutVars, otherVars>>

\* Threads that can go on do so; nothing makes them call, clear or panic.  Every
\* thread of a scan does a bounded number of steps, so that it is enough for one
\* of them to go on.  A reader of chunks, a streaming writer and a form do nothing
\* that could go round, so that nothing is asked of them.
Fairness ==
    /\ \A t \in Threads :
          /\ WF_documentVars(exercised = "documents" /\ Lazy!Step(t))
          /\ WF_bufferVars(exercised = "buffers" /\ Buffers!Step(t))
          /\ WF_resourceVars(exercised = "resources" /\ Resources!Step(t))
    /\ WF_treeVars(exercised = "pages" /\ Step)
    /\ WF_feedVars(exercised = "feed" /\ Feed!Step)
    /\ WF_scanVars(exercised = "scans" /\ Scanned!Next)

ServicesSpec == ServicesInit /\ [][ServicesNext]_Variables /\ Fairness

-----------------------------------------------------------------------------
(* Properties *)

\* Types of the variables of all parts.
TypesOK ==
    /\ exercised \in Parts
    /\ Lazy!TypeOK /\ Buffers!TypeOK /\ Resources!TypeOK /\ TypeOK /\ Feed!TypeOK
    /\ Chunked!TypeOK /\ WriterTypeOK /\ Scanned!TypeOK /\ Engine!TypeOK /\ Forms!TypeOK
    /\ Tags!TypeOK /\ History!TypeOK

\* A lazy document answers like one without a cache: see LazyDocument.
AnswersFromFile == Lazy!AnswersFromFile

\* The cache of a lazy document holds what was used last, and the statistics of
\* the pools agree with what the pools hold: see LazyDocument, MemoryPool and
\* ResourcePool.
PoolsKeepAccount ==
    Lazy!CacheIsLru /\ Buffers!UsageCoversPool /\ Buffers!RequestsAddUp /\ Resources!StatsMatchPool

\* The events do not depend on where a file is cut, and chunks are pieces of the
\* content, of one kind and whole operations, none left out: see IncrementalParser
\* and ContentChunks.
CutsDoNotMatter == Feed!CutsDoNotMatter /\ Chunked!ChunksPreserve

\* The pages recognised are returned, each once: see ScannedPages.
ScanResultsExact == Scanned!ScanResultsExact

\* Calculated fields follow those they depend on, and a change that fails leaves
\* no trace: see CalculationEngine and FormCalculation.
FormsKeepUp == Engine!DependentsFollow /\ Forms!CallsAreWholeOrNothing

\* Contents keep their owners when pages are deleted, and the indexes are the
\* inverse of the structure tree: see TaggedProjection.
StructureSurvives == Tags!StructureSurvives

\* Thread t is in a call.
InCall(t) ==
    CASE exercised = "documents" -> Lazy!Busy(t)
      [] exercised = "buffers"   -> Buffers!Busy(t)
      [] exercised = "resources" -> Resources!Busy(t)
      [] exercised = "pages"     -> Busy
      [] exercised = "feed"      -> Feed!Busy
      [] exercised = "scans"     -> Scanned!Busy
      [] OTHER                   -> FALSE

\* Every call returns: no lock is waited for forever, no walk goes round.
CallsReturn == \A t \in Threads : InCall(t) ~> ~InCall(t)
=============================================================================
