------------------------------- MODULE PageTree -------------------------------
(***************************************************************************)
(* The pages of a parsed document: PdfReader::pages in parser/reader.rs    *)
(* finds the root of the page tree, flatten_page_tree in                   *)
(* parser/page_tree.rs turns the tree into an index of its leaves, and     *)
(* PdfDocument in parser/document.rs loads and caches a page of the index  *)
(* with the attributes it inherits.                                        *)
(*                                                                         *)
(* A node of the tree is an object number.  A file is read as it is: kids  *)
(* may be shared, missing or part of a cycle, types may be missing, and a  *)
(* parent need not have the node among its kids.  One iteration of the     *)
(* flattening loop is a step.                                              *)
(***************************************************************************)
EXTENDS PageObjects

CONSTANTS MaxCalls    \* bound on the calls made

VARIABLES
    file,
    pc,
    asked,       \* the call under way, or None
    root_kids,   \* the kids of the root that pages found
    stack, visited, page_refs,
    pages,       \* the cached pages, with their indexes
    told,        \* the last call and its answer, None for an error
    calls

vars == <<file, pc, asked, root_kids, stack, visited, page_refs, pages, told, calls>>

Members(s) == {s[i] : i \in DOMAIN s}
Numbers == DOMAIN file.objects
Object(n) == file.objects[n]
HasDictionary(n) == n \in Numbers /\ Object(n).form = "dictionary"
Has(n, key) == Object(n).attributes[key] # None
LooksLikePage(n) == Object(n).contents \/ Has(n, "MediaBox")

-----------------------------------------------------------------------------
(* A tree made up from the page objects of the file *)

InAscendingOrder(set) ==
    [i \in 1..Cardinality(set) |-> CHOOSE n \in set : Cardinality({m \in set : m < n}) = i - 1]

\* Of the objects whose text has the type of a page, those that are pages.
ValidPages == InAscendingOrder(
    {n \in file.scanned : HasDictionary(n) /\ (Object(n).type = "Page" \/ LooksLikePage(n))})

\* The numbers of made-up nodes are beyond those of the file.
FirstMadeUp == Len(file.objects) + 1
Groups == (Len(ValidPages) + PagesPerNode - 1) \div PagesPerNode

GroupKids(g) ==
    SubSeq(ValidPages, (g - 1) * PagesPerNode + 1,
           IF g * PagesPerNode < Len(ValidPages) THEN g * PagesPerNode ELSE Len(ValidPages))

MadeUpKids ==
    IF Len(ValidPages) <= FlatPages THEN ValidPages
    ELSE [g \in 1..Groups |-> FirstMadeUp + g - 1]

-----------------------------------------------------------------------------
(* PdfReader::pages *)

\* The kids of a dictionary; a key with another value has none.
Kids(n) == IF Object(n).kids = None THEN <<>> ELSE Object(n).kids

\* The first object below the length of the table that says it is a Pages node.
Candidates == {n \in 1..(file.xref_len - 1) : HasDictionary(n) /\ Object(n).type = "Pages"}

SearchedKids ==
    IF file.lenient /\ Candidates # {}
    THEN Kids(CHOOSE n \in Candidates : \A m \in Candidates : n <= m)
    ELSE None

\* The kids of the root, or None for an error.  An index of page objects comes
\* before a search for a Pages node, and a reference to a reference is followed.
PagesKids ==
    IF file.catalog = "value" THEN None
    ELSE IF file.catalog = "absent"
    THEN IF file.lenient /\ file.scanned # {}
         THEN IF ValidPages = <<>> THEN None ELSE MadeUpKids
         ELSE SearchedKids
    ELSE LET final == IF Object(file.root).form = "reference" THEN Object(file.root).to ELSE file.root
         IN  IF Object(file.root).form = "broken" \/ Object(final).form = "broken" THEN None
             ELSE IF HasDictionary(final) THEN Kids(final)
             ELSE SearchedKids

-----------------------------------------------------------------------------
(* flatten_page_tree *)

MadeUp == IF file.catalog = "absent" THEN FirstMadeUp..(FirstMadeUp + Groups - 1) ELSE {}

\* What a node is taken for: its type, or what its keys suggest.
NodeType(n) ==
    IF Object(n).type # None THEN Object(n).type
    ELSE IF Object(n).kids # None THEN "Pages"
    ELSE IF LooksLikePage(n) THEN "Page"
    ELSE None

IsInner(n) == n \in MadeUp \/ (HasDictionary(n) /\ NodeType(n) = "Pages")
IsLeaf(n) == HasDictionary(n) /\ NodeType(n) # "Pages" /\ (NodeType(n) = "Page" \/ LooksLikePage(n))

KidsOf(n) == IF n \in MadeUp THEN GroupKids(n - FirstMadeUp + 1) ELSE Kids(n)

\* A stack has its top first.
Init ==
    /\ file \in Files
    /\ pc = "idle" /\ asked = None
    /\ root_kids = None
    /\ stack = <<>> /\ visited = {} /\ page_refs = <<>>
    /\ pages = {}
    /\ told = None
    /\ calls = 0

\* A call: the tree is flattened before the first that finds a root.
Call(question) ==
    /\ pc \in {"idle", "indexed"} /\ asked = None
    /\ calls < MaxCalls
    /\ calls' = calls + 1
    /\ asked' = question
    /\ UNCHANGED <<file, pc, root_kids, stack, visited, page_refs, pages, told>>

EnsurePageTree ==
    /\ pc = "idle" /\ asked # None
    /\ IF PagesKids = None
       THEN /\ told' = [asked |-> asked, answer |-> None] /\ asked' = None
            /\ UNCHANGED <<pc, root_kids, stack>>
       ELSE /\ pc' = "flatten"
            /\ root_kids' = PagesKids /\ stack' = PagesKids
            /\ UNCHANGED <<told, asked>>
    /\ UNCHANGED <<file, visited, page_refs, pages, calls>>

\* A faulty variant of PopNode: a node is only marked if it has kids.
PopUnmarked ==
    /\ pc = "flatten" /\ stack # <<>> /\ Len(page_refs) < MaxPages
    /\ LET n == Head(stack) IN
       IF n \in visited
       THEN stack' = Tail(stack) /\ UNCHANGED <<visited, page_refs>>
       ELSE /\ visited' = IF IsInner(n) THEN visited \cup {n} ELSE visited
            /\ page_refs' = IF IsLeaf(n) THEN Append(page_refs, n) ELSE page_refs
            /\ stack' = (IF IsInner(n) THEN KidsOf(n) ELSE <<>>) \o Tail(stack)
    /\ UNCHANGED <<file, pc, asked, root_kids, pages, told, calls>>

\* A faulty variant of PopNode: the kids of a node go behind those that wait.
PopBreadthFirst ==
    /\ pc = "flatten" /\ stack # <<>> /\ Len(page_refs) < MaxPages
    /\ LET n == Head(stack) IN
       IF n \in visited THEN stack' = Tail(stack) /\ UNCHANGED <<visited, page_refs>>
       ELSE /\ visited' = visited \cup {n}
            /\ page_refs' = IF IsLeaf(n) THEN Append(page_refs, n) ELSE page_refs
            /\ stack' = Tail(stack) \o (IF IsInner(n) THEN KidsOf(n) ELSE <<>>)
    /\ UNCHANGED <<file, pc, asked, root_kids, pages, told, calls>>

\* The root itself is not marked: a kid that refers to it is a node like others.
PopNode ==
    /\ pc = "flatten" /\ stack # <<>> /\ Len(page_refs) < MaxPages
    /\ LET n == Head(stack) IN
       IF n \in visited THEN stack' = Tail(stack) /\ UNCHANGED <<visited, page_refs>>
       ELSE /\ visited' = visited \cup {n}
            /\ page_refs' = IF IsLeaf(n) THEN Append(page_refs, n) ELSE page_refs
            /\ stack' = (IF IsInner(n) THEN KidsOf(n) ELSE <<>>) \o Tail(stack)
    /\ UNCHANGED <<file, pc, asked, root_kids, pages, told, calls>>

\* The stack is empty, or the index has MaxPages leaves and the rest is left.
FinishIndex ==
    /\ pc = "flatten" /\ (stack = <<>> \/ Len(page_refs) >= MaxPages)
    /\ pc' = "indexed"
    /\ UNCHANGED <<file, asked, root_kids, stack, visited, page_refs, pages, told, calls>>

-----------------------------------------------------------------------------
(* get_page and page_count *)

\* The loop along the parents, the i-th ancestor in round i: the attributes got
\* so far, the next ancestor, and the ones met.
Inherited(n) ==
    LET climb[i \in 0..Cardinality(Numbers)] ==
          IF i = 0 THEN [got |-> [key \in InheritableKeys |-> None], next |-> Object(n).parent, met |-> {}]
          ELSE LET last == climb[i - 1] IN
               IF last.next = None \/ last.next \in last.met THEN last
               ELSE IF ~HasDictionary(last.next) THEN [last EXCEPT !.met = @ \cup {last.next}]
               ELSE [got  |-> [key \in InheritableKeys |->
                                 IF ~Has(n, key) /\ last.got[key] = None
                                 THEN Object(last.next).attributes[key] ELSE last.got[key]],
                     next |-> Object(last.next).parent,
                     met  |-> last.met \cup {last.next}]
    IN  climb[Cardinality(Numbers)].got

\* A value that is not what its key calls for counts as none; a rectangle
\* without four elements is an error.
ParsedPage(n) ==
    LET inherited == Inherited(n)
        Value(key) == IF Has(n, key) THEN Object(n).attributes[key] ELSE inherited[key]
        Sound(key) == IF Value(key) = "odd" THEN None ELSE Value(key)
    IN  IF Value("MediaBox") = "short" \/ Value("CropBox") = "short" THEN None
        ELSE [obj_ref   |-> n,
              media_box |-> IF Sound("MediaBox") = None THEN "letter" ELSE Sound("MediaBox"),
              crop_box  |-> Sound("CropBox"),
              rotation  |-> IF Sound("Rotate") = None THEN "upright" ELSE Sound("Rotate"),
              resources |-> Sound("Resources")]

CachedPages(i) == {entry \in pages : entry.index = i}

\* A page that could not be loaded is not cached.  An index counts from 0.
GetPage ==
    /\ pc = "indexed" /\ asked # None /\ asked.op = "get_page"
    /\ \E page \in IF CachedPages(asked.index) # {} THEN {entry.page : entry \in CachedPages(asked.index)}
                   ELSE {IF asked.index >= Len(page_refs) THEN None
                         ELSE ParsedPage(page_refs[asked.index + 1])} :
          /\ told' = [asked |-> asked, answer |-> page]
          /\ pages' = IF page = None THEN pages ELSE pages \cup {[index |-> asked.index, page |-> page]}
    /\ asked' = None
    /\ UNCHANGED <<file, pc, root_kids, stack, visited, page_refs, calls>>

PageCount ==
    /\ pc = "indexed" /\ asked # None /\ asked.op = "page_count"
    /\ told' = [asked |-> asked, answer |-> Len(page_refs)]
    /\ asked' = None
    /\ UNCHANGED <<file, pc, root_kids, stack, visited, page_refs, pages, calls>>

-----------------------------------------------------------------------------
Questions == [op : {"page_count"}, index : {0}] \cup [op : {"get_page"}, index : 0..Len(page_refs)]

Step == EnsurePageTree \/ PopNode \/ FinishIndex \/ GetPage \/ PageCount

Next == (\E question \in Questions : Call(question)) \/ Step

Spec == Init /\ [][Next]_vars

FairSpec == Spec /\ WF_vars(Step)

-----------------------------------------------------------------------------
(* Properties *)

\* Types of the variables.
TypeOK ==
    /\ pc \in {"idle", "flatten", "indexed"}
    /\ asked = None \/ asked.op \in {"page_count", "get_page"}
    /\ root_kids = None \/ Members(root_kids) \subseteq Numbers \cup MadeUp
    /\ visited \subseteq Numbers \cup MadeUp
    /\ Members(stack) \subseteq Numbers \cup MadeUp
    /\ Members(page_refs) \subseteq Numbers
    /\ \A entry \in pages : entry.index \in Nat /\ entry.page.obj_ref \in Numbers
    /\ calls \in 0..MaxCalls

\* All that is a kid of the root or of an inner node.
Nodes == Members(root_kids) \cup UNION {Members(KidsOf(n)) : n \in {m \in Numbers \cup MadeUp : IsInner(m)}}

HoldsTree(set) ==
    /\ Members(root_kids) \subseteq set
    /\ \A n \in set : IsInner(n) => Members(KidsOf(n)) \subseteq set

\* The nodes of the tree: the smallest set that holds it.
Reached == {n \in Nodes : \A set \in SUBSET Nodes : HoldsTree(set) => n \in set}

\* Whatever the kids of the nodes are (shared, missing, their own ancestors),
\* the index has no page twice and only leaves that can be reached from the
\* root, and all of those unless it has as many as it may have.
PageIndexIsExact ==
    /\ \A i, j \in DOMAIN page_refs : page_refs[i] = page_refs[j] => i = j
    /\ Len(page_refs) <= MaxPages
    /\ root_kids # None => Members(page_refs) \subseteq {n \in Reached : IsLeaf(n)}
    /\ pc = "indexed" /\ Len(page_refs) < MaxPages =>
         \A n \in Reached : IsLeaf(n) => n \in Members(page_refs)

\* Flattening ends and every call is answered, also on a tree that contains itself.
Busy == asked # None

\* Paths from the root, as positions among kids, on which no node comes twice.
Walk(path) ==
    LET node[i \in 0..Len(path)] ==
          LET kids == IF i = 1 THEN root_kids
                      ELSE IF node[i - 1] # None /\ IsInner(node[i - 1]) THEN KidsOf(node[i - 1])
                      ELSE <<>>
          IN  IF i > 0 /\ path[i] \in DOMAIN kids THEN kids[path[i]] ELSE None
    IN  [i \in 1..Len(path) |-> node[i]]

MostKids == LET lengths == {Len(root_kids)} \cup {Len(KidsOf(n)) : n \in {m \in Numbers \cup MadeUp : IsInner(m)}}
            IN  CHOOSE k \in lengths : \A l \in lengths : l <= k

Paths ==
    {path \in UNION {[1..k -> 1..MostKids] : k \in 1..Cardinality(Nodes)} :
        LET walk == Walk(path) IN
        /\ None \notin Members(walk)
        /\ \A i, j \in DOMAIN walk : walk[i] = walk[j] => i = j}

Before(p, q) ==
    \E i \in DOMAIN q :
       /\ i \in DOMAIN p => p[i] < q[i]
       /\ \A j \in 1..(i - 1) : j \in DOMAIN p /\ p[j] = q[j]

\* The pages come in the order of the document: whatever path leads to a leaf that
\* is not among the first i pages, also to one that a full index lacks, a path to
\* page i comes before it.
PagesInDocumentOrder ==
    pc = "indexed" =>
       LET arrivals == {[node |-> Walk(path)[Len(path)], path |-> path] : path \in Paths} IN
       \A i \in DOMAIN page_refs :
          /\ \E b \in arrivals : b.node = page_refs[i]
          /\ \A a \in arrivals :
                IsLeaf(a.node) /\ (\A j \in 1..i : a.node # page_refs[j])
                  => \E b \in arrivals : b.node = page_refs[i] /\ Before(b.path, a.path)

\* The ancestors of n by their distance, as far as they are dictionaries.
Ancestor(n, distance) ==
    LET up[d \in 0..distance] ==
          IF d = 0 THEN n
          ELSE IF up[d - 1] = None THEN None
          ELSE LET parent == Object(up[d - 1]).parent IN
               IF parent # None /\ HasDictionary(parent) THEN parent ELSE None
    IN  up[distance]

\* What key is for page n: its own value or that of the nearest ancestor with one.
Effective(n, key) ==
    LET set == {d \in 0..Len(file.objects) : Ancestor(n, d) # None /\ Has(Ancestor(n, d), key)}
    IN  IF set = {} THEN None
        ELSE Object(Ancestor(n, CHOOSE d \in set : \A e \in set : d <= e)).attributes[key]

\* Whatever was asked before and is cached, and even if parents form a cycle, the
\* answer to a call is the page at that place of the index, with each attribute
\* of its own or of its nearest ancestor; there is one for each index below the
\* count unless a box of it is short of elements.
AnswersFromTree ==
    told # None /\ pc = "indexed" =>
       IF told.asked.op = "page_count" THEN told.answer = Len(page_refs)
       ELSE IF told.asked.index >= Len(page_refs) THEN told.answer = None
       ELSE LET n == page_refs[told.asked.index + 1] IN
            IF "short" \in {Effective(n, "MediaBox"), Effective(n, "CropBox")}
            THEN told.answer = None
            ELSE /\ told.answer # None
                 /\ told.answer.obj_ref = n
                 /\ Effective(n, "MediaBox") \notin {None, "odd"} =>
                       told.answer.media_box = Effective(n, "MediaBox")
                 /\ Effective(n, "Rotate") \notin {None, "odd"} =>
                       told.answer.rotation = Effective(n, "Rotate")
                 /\ Effective(n, "Resources") # "odd" => told.answer.resources = Effective(n, "Resources")
                 /\ Effective(n, "CropBox") # "odd" => told.answer.crop_box = Effective(n, "CropBox")

\* Page i of a document is page i of its tree, with what it inherits.
PagesAsInTree == PagesInDocumentOrder /\ AnswersFromTree
=============================================================================
