---------------------------- MODULE PageMutation ----------------------------
(***************************************************************************)
(* Lossless changes to the page tree (operations/reorder.rs): a batch of   *)
(* moves, rotations, deletions, duplications and imports, or one reorder,  *)
(* is committed as an incremental revision that flattens the tree under    *)
(* its root.  A document is a map from object numbers to objects, of which *)
(* a page or a /Pages node keeps the entries the code treats apart.  The   *)
(* faulty variants of some definitions are not used: each is put in the    *)
(* place of what it varies to see that a property notices.                 *)
(***************************************************************************)
EXTENDS Integers, Sequences, FiniteSets, TLC, SequencesExt

CONSTANTS
    Documents,      \* the documents a caller may start from
    Sources,        \* the names of the documents pages are imported from
    Imported,       \* [Sources -> documents]
    Boxes,          \* the values of /MediaBox
    MaxOperations,  \* bound: operations pushed over all batches
    MaxBatches,     \* bound: batches and reorders begun
    MaxReordered,   \* bound: pages of a document that is reordered
    MaxImport,      \* bound: the largest index of a page asked for in an import
    None            \* an absent entry

VARIABLES
    document,       \* what the path holds
    planned,        \* the pages of the output as the operations so far ask for them
    pushed,         \* operations so far, over all batches
    begun,          \* batches and reorders begun
    outcome         \* of the last call, or "empty" and then "editing" while a batch is put together

vars == <<document, planned, pushed, begun, outcome>>

Root == 1           \* the catalog's /Pages
Keys == {"Resources", "MediaBox", "Rotate"}
Angles == {0, 90, 180, 270}
\* What a copy of a page must not take along: it belongs to the catalog.
Structural == {"Page", "Pages", "OCG"}

-----------------------------------------------------------------------------
(* The object graph. *)

Over(attrs, inherited) == [k \in Keys |-> IF attrs[k] # None THEN attrs[k] ELSE inherited[k]]
Attributed(object) == IF object.attrs["Resources"] = None THEN {} ELSE object.attrs["Resources"]

\* Every reference but the edges of the page tree, and every reference.
References(object) == object.refs \cup Attributed(object)
Links(object) == References(object) \cup Range(object.kids) \cup ({object.parent} \ {None})

\* The numbers reached from some by a map from numbers to the next ones.
Closure(from, follow) ==
    LET grown[i \in 0..Cardinality(DOMAIN follow)] ==
            IF i = 0 THEN from
            ELSE LET reached == grown[i - 1] IN reached \cup UNION {follow[n] : n \in reached \cap DOMAIN follow}
    IN  grown[Cardinality(DOMAIN follow)]

Reachable(doc) ==
    Closure(doc.catalog \cup {Root}, [n \in DOMAIN doc.objects |-> Links(doc.objects[n])])

-----------------------------------------------------------------------------
(* Walking the tree. *)

\* Nodes in the order of the walk.  A walk deeper than there are objects repeats one.
Below(doc, top) ==
    LET visit[d \in 0..Cardinality(DOMAIN doc.objects)] ==
            [n \in DOMAIN doc.objects |->
                <<n>> \o IF d = 0 THEN <<>>
                         ELSE FlattenSeq([i \in DOMAIN doc.objects[n].kids |-> visit[d - 1][doc.objects[n].kids[i]]])]
    IN  visit[Cardinality(DOMAIN doc.objects)][top]

PagesBelow(doc, top) == SelectSeq(Below(doc, top), LAMBDA n : doc.objects[n].type = "Page")
PagesOf(doc) == PagesBelow(doc, Root)

\* What a node has with what its ancestors pass on.
Effective(doc, page) ==
    LET passed[d \in 0..Cardinality(DOMAIN doc.objects)] ==
            [n \in DOMAIN doc.objects |->
                IF d = 0 \/ doc.objects[n].parent = None THEN doc.objects[n].attrs
                ELSE Over(doc.objects[n].attrs, passed[d - 1][doc.objects[n].parent])]
    IN  passed[Cardinality(DOMAIN doc.objects)][page]

Walkable(doc) ==
    LET tree == Below(doc, Root)
        node(n) == doc.objects[n]
    IN  /\ IsInjective(tree) /\ node(Root).parent = None
        /\ \A n \in Range(tree) :
            \/ node(n).type = "Page" /\ Effective(doc, n)["MediaBox"] # None
            \/ /\ node(n).type = "Pages" /\ node(n).count = Len(PagesBelow(doc, n))
               /\ \A kid \in Range(node(n).kids) : node(kid).parent = n

Editable(doc) == doc.security = "none" /\ Walkable(doc)
Importable(doc) == doc.security # "encrypted" /\ Walkable(doc)

-----------------------------------------------------------------------------
(* What a plan refers to. *)

Source(doc, page) == IF page.kind = "import" THEN Imported[page.source] ELSE doc
Origin(doc, page) == PagesOf(Source(doc, page))[page.index]
Existing(doc) == [i \in DOMAIN PagesOf(doc) |-> [kind |-> "existing", source |-> None, index |-> i, rotation |-> None]]

Retained(doc, plan) == {Origin(doc, p) : p \in {q \in Range(plan) : q.kind = "existing"}}
Deleted(doc, plan) == Range(PagesOf(doc)) \ Retained(doc, plan)

\* References that carry meaning: those of the page tree's nodes without its own edges.
Meaningful(doc) ==
    LET tree == Range(Below(doc, Root))
    IN  [n \in DOMAIN doc.objects |-> IF n \in tree THEN References(doc.objects[n]) ELSE Links(doc.objects[n])]

Kept(doc, plan) == UNION {References(doc.objects[n]) : n \in Retained(doc, plan)}

CatalogRefersToDeleted(doc, plan) == Closure(doc.catalog, Meaningful(doc)) \cap Deleted(doc, plan) # {}
\* A faulty variant of the next one: only the page itself is searched.
RetainedReferDirectly(doc, plan) == Kept(doc, plan) \cap Deleted(doc, plan) # {}
RetainedReferToDeleted(doc, plan) == Closure(Kept(doc, plan), Meaningful(doc)) \cap Deleted(doc, plan) # {}

\* What a copy of a page is asked to take along, itself aside.
Wanted(doc, page) ==
    LET top == UNION {doc.objects[page].refs, Attributed([attrs |-> Effective(doc, page)])}
        follow == [n \in DOMAIN doc.objects |->
                    IF n = page \/ doc.objects[n].type \in Structural THEN {} ELSE Links(doc.objects[n])]
    IN  Closure(top, follow) \ {page}

Copied(doc, page) == {n \in Wanted(doc, page) : doc.objects[n].type \notin Structural}
Preserved(doc, page) == Wanted(doc, page) \ Copied(doc, page)

Copyable(doc, page) ==
    \/ page.kind = "existing"
    \/ /\ page.index \in DOMAIN PagesOf(Source(doc, page))
       /\ ~Source(doc, page).objects[Origin(doc, page)].tied
       /\ page.kind = "import" => /\ Importable(Source(doc, page))
                                  /\ Preserved(Source(doc, page), Origin(doc, page)) = {}

Acceptable(doc, plan) ==
    /\ plan # <<>> /\ \A p \in Range(plan) : Copyable(doc, p)
    /\ ~CatalogRefersToDeleted(doc, plan) /\ ~RetainedReferToDeleted(doc, plan)

-----------------------------------------------------------------------------
(* The revision: the pages of a plan are added to the output one by one. *)

\* A faulty variant of Materialized: any value at the root will do.
MaterializedUnlessGiven(attrs, effective, top) ==
    [k \in Keys |-> IF attrs[k] # None \/ top[k] # None THEN attrs[k] ELSE effective[k]]

\* A page keeps what it would lose when only the root is left above it.
Materialized(attrs, effective, top) ==
    [k \in Keys |-> IF attrs[k] # None \/ top[k] = effective[k] THEN attrs[k] ELSE effective[k]]
Angle(attrs) == IF attrs["Rotate"] = None THEN 0 ELSE attrs["Rotate"]
Turned(attrs, effective, delta) ==
    IF delta = None THEN attrs ELSE [attrs EXCEPT !["Rotate"] = (Angle(effective) + delta) % 360]

WithPage(out, page, objects) ==
    LET node == objects[page]
    IN  [out EXCEPT !.objects = objects @@ @,
                    !.pages = Append(@, page),
                    !.expected = Append(@, Over(node.attrs, out.objects[Root].attrs))]

\* A faulty variant of Flattened: the page keeps its old parent.
FlattenedInPlace(doc, out, page) ==
    LET n == Origin(doc, page)
        node == doc.objects[n]
        attrs == Materialized(node.attrs, Effective(doc, n), doc.objects[Root].attrs)
    IN  WithPage(out, n, [m \in {n} |-> [node EXCEPT !.attrs = Turned(attrs, Effective(doc, n), page.rotation)]])

Flattened(doc, out, page) ==
    LET n == Origin(doc, page)
        node == doc.objects[n]
        attrs == Materialized(node.attrs, Effective(doc, n), doc.objects[Root].attrs)
    IN  WithPage(out, n, [m \in {n} |-> [node EXCEPT !.parent = Root, !.attrs = Turned(attrs, Effective(doc, n), page.rotation)]])

\* A copy and all it takes along get numbers of their own, the page's first.
Cloned(doc, out, page) ==
    LET from == Source(doc, page)
        n == Origin(doc, page)
        last == Max(DOMAIN out.objects)
        order == <<n>> \o SetToSortSeq(Copied(from, n), <)
        fresh(m) == last + SelectInSeq(order, LAMBDA x : x = m)
        renamed(refs) == {IF m \in Range(order) THEN fresh(m) ELSE m : m \in refs}
        attrs(own) == IF own["Resources"] = None THEN own ELSE [own EXCEPT !["Resources"] = renamed(@)]
        copy(m) == [from.objects[m] EXCEPT !.refs = renamed(@), !.attrs = attrs(@)]
        top == [copy(n) EXCEPT !.parent = Root, !.attrs = Turned(attrs(Effective(from, n)), Effective(from, n), page.rotation)]
    IN  [WithPage(out, fresh(n), [m \in {fresh(x) : x \in Range(order)} |->
                                    IF m = fresh(n) THEN top ELSE copy(order[m - last])])
            EXCEPT !.preserved = @ \cup Preserved(from, n)]

AddPage(doc, out, page) == IF page.kind = "existing" THEN Flattened(doc, out, page) ELSE Cloned(doc, out, page)

Built(doc, plan) ==
    FoldLeft(LAMBDA out, page : AddPage(doc, out, page),
             [objects |-> doc.objects, pages |-> <<>>, expected |-> <<>>, preserved |-> {}], plan)

Revision(doc, out) ==
    [doc EXCEPT !.objects = [out.objects EXCEPT ![Root].kids = out.pages, ![Root].count = Len(out.pages)]]

\* Where the dry run looks for what the new catalog reaches: in the old objects.
Prospective(doc, plan, preserved) ==
    LET follow == [n \in DOMAIN doc.objects |->
                    IF doc.objects[n].type = "Pages" THEN {}
                    ELSE IF doc.objects[n].type = "Page" THEN References(doc.objects[n])
                    ELSE Links(doc.objects[n])]
        from == UNION {doc.catalog, References(doc.objects[Root]), Kept(doc, plan), preserved}
    IN  Closure(from, follow) \cup {Root} \cup Retained(doc, plan)

Unreachable(doc, plan) == Reachable(doc) \ Prospective(doc, plan, Built(doc, plan).preserved)

\* The finished revision is opened again and held against what was meant.
Valid(new, pages, expected) ==
    /\ Walkable(new) /\ PagesOf(new) = pages
    /\ \A i \in DOMAIN pages : Effective(new, pages[i]) = expected[i]

-----------------------------------------------------------------------------
(* The calls. *)

Init ==
    /\ document \in Documents
    /\ planned = <<>> /\ pushed = 0 /\ begun = 0 /\ outcome = "none"

Open == outcome \in {"empty", "editing"}
Begin == ~Open /\ begun < MaxBatches /\ begun' = begun + 1

OpenBatch ==
    /\ Begin /\ Editable(document) /\ pushed < MaxOperations
    /\ outcome' = "empty" /\ planned' = Existing(document)
    /\ UNCHANGED <<document, pushed>>

\* Encrypted, forbidden by a signature, or a tree the walk refuses.
RefuseDocument ==
    /\ Begin /\ ~Editable(document)
    /\ outcome' = "refused" /\ planned' = <<>>
    /\ UNCHANGED <<document, pushed>>

Push(plan) ==
    /\ Open /\ pushed < MaxOperations
    /\ planned' = plan /\ pushed' = pushed + 1 /\ outcome' = "editing"
    /\ UNCHANGED <<document, begun>>

MovePage(from, to) == ~document.labels /\ Push(InsertAt(RemoveAt(planned, from), to, planned[from]))

RotatePage(page, degrees) ==
    LET turned == (IF planned[page].rotation = None THEN 0 ELSE planned[page].rotation) + degrees
    IN  Push([planned EXCEPT ![page].rotation = turned])

DeletePage(page) == ~document.labels /\ Push(RemoveAt(planned, page))

DuplicatePage(page, at) ==
    /\ ~document.labels
    /\ Push(InsertAt(planned, at, [planned[page] EXCEPT !.kind = IF @ = "existing" THEN "clone" ELSE @]))

InsertPage(source, page, at) ==
    /\ ~document.labels
    /\ Push(InsertAt(planned, at, [kind |-> "import", source |-> source, index |-> page, rotation |-> None]))

\* No operation at all, an index out of range, an angle that is no multiple of
\* 90, or page labels to renumber.
InvalidOperation ==
    /\ Open
    /\ outcome' = "refused" /\ planned' = <<>>
    /\ UNCHANGED <<document, pushed, begun>>

RefuseBatch ==
    /\ outcome = "editing" /\ ~Acceptable(document, planned)
    /\ outcome' = "refused" /\ planned' = <<>>
    /\ UNCHANGED <<document, pushed, begun>>

\* An output that differs from the dry run, or from what was meant, is not published.
MutateBatch ==
    /\ outcome = "editing" /\ Acceptable(document, planned)
    /\ LET out == Built(document, planned)
           new == Revision(document, out)
           exact == Reachable(document) \ Reachable(new) = Unreachable(document, planned)
       IN  /\ outcome' = IF ~exact THEN "inexact" ELSE IF ~Valid(new, out.pages, out.expected) THEN "invalid" ELSE "published"
           /\ document' = IF outcome' = "published" THEN new ELSE document
    /\ UNCHANGED <<planned, pushed, begun>>

ReorderPages(order) ==
    LET plan == [i \in DOMAIN order |-> Existing(document)[order[i]]]
        out == Built(document, plan)
        new == Revision(document, out)
        valid == Valid(new, out.pages, [i \in DOMAIN plan |-> Effective(document, Origin(document, plan[i]))])
    IN  /\ Begin /\ Editable(document)
        /\ outcome' = IF valid THEN "published" ELSE "invalid"
        /\ document' = IF valid THEN new ELSE document
        /\ planned' = plan
        /\ UNCHANGED pushed

Pages == DOMAIN planned
Gaps == 1..(Len(planned) + 1)
Orders == LET n == Len(PagesOf(document)) IN IF n > MaxReordered THEN {} ELSE {f \in [1..n -> 1..n] : IsInjective(f)}

Next ==
    \/ OpenBatch \/ RefuseDocument
    \/ \E from, to \in Pages : MovePage(from, to)
    \/ \E page \in Pages, degrees \in {-90, 90} : RotatePage(page, degrees)
    \/ \E page \in Pages : DeletePage(page)
    \/ \E page \in Pages, at \in Gaps : DuplicatePage(page, at)
    \/ \E source \in Sources, page \in 1..MaxImport, at \in Gaps : InsertPage(source, page, at)
    \/ InvalidOperation \/ RefuseBatch \/ MutateBatch
    \/ \E order \in Orders : ReorderPages(order)

Spec == Init /\ [][Next]_vars

-----------------------------------------------------------------------------
(* Properties. *)

\* Every object is well formed, its rotation one of the four a page can have,
\* and no object of a published revision refers to a number without an object.
TypeOK ==
    /\ \A n \in DOMAIN document.objects :
        LET object == document.objects[n]
        IN  /\ DOMAIN object = {"type", "parent", "kids", "count", "attrs", "refs", "tied", "data"}
            /\ object.type \in Structural \cup {"other"}
            /\ object.attrs["Rotate"] \in Angles \cup {None}
            /\ object.attrs["MediaBox"] \in Boxes \cup {None}
            /\ Links(object) \subseteq DOMAIN document.objects
    /\ pushed \in 0..MaxOperations /\ begun \in 0..MaxBatches
    /\ outcome \in {"none", "empty", "editing", "refused", "inexact", "invalid", "published"}
    /\ \A page \in Range(planned) : page.kind \in {"existing", "clone", "import"}

Published == outcome' = "published" /\ (outcome = "editing" \/ begun' # begun)
Contents(doc, attrs) == {doc.objects[n].data : n \in Attributed([attrs |-> attrs])}

\* Whatever a batch does to the tree, each page of the output has the box and
\* the resources of the page it stands for, and its rotation with the turns the
\* batch asked for; a page that inherited them has them of its own where the
\* root does not give the same.  An imported page without a rotation that the
\* batch does not turn takes the root's.
AttributesPreserved ==
    [][Published => \A new \in {document'}, plan \in {planned'} : \A i \in DOMAIN plan :
        LET page == plan[i]
            before == Effective(Source(document, page), Origin(document, page))
            after == Effective(new, PagesOf(new)[i])
            delta == IF page.rotation = None THEN 0 ELSE page.rotation
        IN  /\ after["MediaBox"] = before["MediaBox"]
            /\ Contents(new, after) = Contents(Source(document, page), before)
            /\ \/ Angle(after) = (Angle(before) + delta) % 360
               \/ /\ page.kind = "import" /\ before["Rotate"] = None /\ page.rotation = None
                  /\ after["Rotate"] = new.objects[Root].attrs["Rotate"]]_vars

\* What the batch builds is well formed and always passes the walk that checks
\* the finished file: the tree, its counts and parents, the order of pages and
\* what they inherit.
PassesValidation == TypeOK /\ outcome # "invalid"

\* After a page is deleted nothing in the catalog and no page that was kept
\* leads to it any more, through whatever objects lie between.
NoDanglingReference ==
    [][Published => \A new \in {document'}, plan \in {planned'} :
        LET kept == UNION {References(new.objects[n]) : n \in Retained(document, plan)}
            follow == [n \in DOMAIN new.objects |->
                        IF new.objects[n].type \in {"Page", "Pages"} THEN References(new.objects[n])
                        ELSE Links(new.objects[n])]
        IN  Closure(new.catalog \cup kept, follow) \cap Deleted(document, plan) = {}]_vars

\* The dry run reports exactly what the revision no longer reaches.
PlanIsExact == outcome # "inexact"
=============================================================================
