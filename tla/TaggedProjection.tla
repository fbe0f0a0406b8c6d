--------------------------- MODULE TaggedProjection ---------------------------
(***************************************************************************)
(* What operations/tagged_split.rs makes of the structure tree of a tagged *)
(* document when pages are deleted, or when its indexes are recovered: the *)
(* elements and contents of the pages that stay, ParentTree and IDTree     *)
(* built anew from them, and keys for the pages that have none.            *)
(*                                                                         *)
(* A file has pages, each with its StructParents key (None if it has none, *)
(* negative if it is no key), the root of the structure tree, and objects. *)
(* What an element has as kids is a value, direct or an object:            *)
(*   "null", "array" of items, "reference" to an object,                   *)
(*   "mcid"     content mcid of a page, None for the page in force (an     *)
(*              integer, or a marked-content reference)                    *)
(*   "objr"     an object with its StructParent key, on a page             *)
(*   "other"    anything else, which is refused                            *)
(* An object may also be an "element" (kid, page, parent and id, each None *)
(* if it is missing), an "index" node, or "unreadable".                    *)
(***************************************************************************)
EXTENDS Integers, Sequences, FiniteSets, SequencesExt, TLC

CONSTANTS
    TaggedFiles,  \* the files considered
    MaxEntries,   \* LIMIT, of values looked at
    MaxMcid,      \* LIMIT, of content numbers
    MaxNesting,   \* MAX_DEPTH
    MaxSlots,     \* of all entries of the ParentTree together
    MaxCalls,     \* bound on the calls made
    None

VARIABLES
    tagged,       \* the file
    source,       \* history: the file before any call
    indexed,      \* a call has succeeded
    told,         \* the answer to the last call
    calls

vars == <<tagged, source, indexed, told, calls>>

Root == 0    \* the object number of the structure tree root

Null == [kind |-> "null"]
Array(items) == [kind |-> "array", items |-> items]
Reference(n) == [kind |-> "reference", to |-> n]
Index(entries) == [kind |-> "index", form |-> "entries", kids |-> <<>>, entries |-> entries]

-----------------------------------------------------------------------------
(* The projector, as a value: what is left of a value is None if it is dropped *)

NewProjector(file, retained, preserve) ==
    [file |-> file, retained |-> retained, preserve_shape |-> preserve, failed |-> None,
     visited |-> {Root}, entries |-> 0,
     parents |-> {}, object_parents |-> {}, key_pages |-> {}, ids |-> {},
     reserved_keys |-> {file.pages[page] : page \in DOMAIN file.pages} \cap Nat,
     replacements |-> <<>>]

Fail(p, reason) == [p EXCEPT !.failed = reason]
Left(p, value) == [p |-> p, value |-> value]
Refused(p) == Left(Fail(p, "invalid"), None)

Budget(p, depth) ==
    IF depth > MaxNesting \/ p.entries = MaxEntries THEN Fail(p, "limit") ELSE [p EXCEPT !.entries = @ + 1]

BadPage(p, value) == value.page \notin {None} \cup DOMAIN p.file.pages
PageOf(value, inherited) == IF value.page = None THEN inherited ELSE value.page

\* Every content has a page and one owner, and the pages of contents have keys of
\* their own, also those that are removed.
BadKey(p, page) ==
    LET key == p.file.pages[page]
    IN  /\ key # None
        /\ \/ key < 0
           \/ \E k \in p.key_pages : k.key = key /\ k.page # page
           \/ \E o \in p.object_parents : o.key = key

AssociateMcid(p, page, mcid, owner) ==
    IF \/ page = None \/ mcid \notin 0..(MaxMcid - 1)
       \/ BadKey(p, page)
       \/ \E c \in p.parents : c.page = page /\ c.mcid = mcid
    THEN Fail(p, "invalid")
    ELSE [p EXCEPT !.parents = @ \cup {[page |-> page, mcid |-> mcid, owner |-> owner]},
                   !.key_pages = IF p.file.pages[page] = None THEN @
                                 ELSE @ \cup {[key |-> p.file.pages[page], page |-> page]}]

Content(p, value, owner, inherited) ==
    LET page == PageOf(value, inherited)
    IN  IF BadPage(p, value) THEN Refused(p)
        ELSE Left(AssociateMcid(p, page, value.mcid, owner), IF page \in p.retained THEN value ELSE None)

ObjectContent(p, value, owner, inherited) ==
    LET page == PageOf(value, inherited)
        seen == [p EXCEPT !.reserved_keys = @ \cup {value.key}]
    IN  IF BadPage(p, value) \/ page = None \/ value.key \notin Nat THEN Refused(p)
        ELSE IF page \notin p.retained THEN Left(seen, None)
        ELSE IF \E k \in p.key_pages \cup p.object_parents : k.key = value.key THEN Refused(seen)
        ELSE Left([seen EXCEPT !.object_parents = @ \cup {[key |-> value.key, owner |-> owner]}], value)

RECURSIVE Kid(_, _, _, _, _)

Items(p, items, owner, inherited, depth) ==
    LET all == FoldLeft(
            LAMBDA left, item :
                IF left.p.failed # None THEN left
                ELSE LET kid == Kid(left.p, item, owner, inherited, depth + 1)
                     IN  Left(kid.p, IF kid.value = None THEN left.value ELSE Append(left.value, kid.value)),
            Left(p, <<>>), items)
    IN  Left(all.p, IF all.value # <<>> \/ p.preserve_shape THEN Array(all.value) ELSE None)

\* An element goes when nothing is left of its kids, or when it never had any and
\* its page goes.  A page that goes is not named by what stays.
Element(p, n, parent, inherited, depth) ==
    LET e == p.file.objects[n]
        page == PageOf(e, inherited)
        removed == page # None /\ page \notin p.retained
        kids == IF e.kid = None THEN Left(p, None) ELSE Kid(p, e.kid, n, page, depth + 1)
    IN  IF e.parent # parent \/ BadPage(p, e) THEN Refused(p)
        ELSE IF kids.p.failed # None \/ (kids.value = None /\ (e.kid # None \/ removed)) THEN Left(kids.p, None)
        ELSE IF e.id # None /\ \E i \in kids.p.ids : i.id = e.id THEN Refused(kids.p)
        ELSE Left(IF e.id = None THEN kids.p
                  ELSE [kids.p EXCEPT !.ids = @ \cup {[id |-> e.id, element |-> n]}],
                  [e EXCEPT !.kid = kids.value, !.page = IF removed THEN None ELSE @])

Follow(p, n, owner, inherited, depth) ==
    LET object == p.file.objects[n]
        met == [p EXCEPT !.visited = @ \cup {n}]
        left == IF object.kind = "element" THEN Element(met, n, owner, inherited, depth + 1)
                ELSE Kid(met, object, owner, inherited, depth + 1)
    IN  IF n \in p.visited THEN Refused(p)
        ELSE IF left.value = None THEN left
        ELSE Left(IF left.value = object THEN left.p
                  ELSE [left.p EXCEPT !.replacements = (n :> left.value) @@ @],
                  Reference(n))

Kid(p, value, owner, inherited, depth) ==
    LET q == Budget(p, depth)
    IN  CASE q.failed # None           -> Left(q, None)
          [] value.kind = "null"       -> Left(q, IF q.preserve_shape THEN value ELSE None)
          [] value.kind = "mcid"       -> Content(q, value, owner, inherited)
          [] value.kind = "objr"       -> ObjectContent(q, value, owner, inherited)
          [] value.kind = "array"      -> Items(q, value.items, owner, inherited, depth)
          [] value.kind = "reference"  -> Follow(q, value.to, owner, inherited, depth)
          [] OTHER                     -> Refused(q)

-----------------------------------------------------------------------------
(* The indexes of the file are only looked at: a root that cannot be read, and has
   no place in the file, is made anew. *)

RECURSIVE InspectIndex(_, _, _)

InspectIndex(s, value, depth) ==
    LET q == Budget(s.p, depth)
        refers == value.kind = "reference"
        node == IF refers THEN s.p.file.objects[value.to] ELSE value
        seen == IF refers THEN s.seen \cup {value.to} ELSE s.seen
    IN  CASE q.failed # None -> [s EXCEPT !.p = q]
          [] refers /\ value.to \in s.seen -> [s EXCEPT !.p = Fail(q, "invalid")]
          [] refers /\ depth = 0 /\ node.kind = "unreadable" /\ node.at_zero ->
                [p |-> q, seen |-> seen]
          [] node.kind = "index" /\ node.form = "kids" ->
                FoldLeft(LAMBDA t, kid : IF t.p.failed # None THEN t ELSE InspectIndex(t, kid, depth + 1),
                         [p |-> q, seen |-> seen], node.kids)
          [] node.kind = "index" /\ node.form = "entries" -> [p |-> q, seen |-> seen]
          [] OTHER -> [s EXCEPT !.p = Fail(q, "invalid")]

Inspected(p, value) ==
    IF p.failed # None \/ value = None THEN p ELSE InspectIndex([p |-> p, seen |-> {}], value, 0).p

SharedIndex(root) ==
    root.ParentTree # None /\ root.ParentTree = root.IDTree /\ root.ParentTree.kind = "reference"

-----------------------------------------------------------------------------
(* The new indexes *)

Maximum(set) == CHOOSE n \in set : \A m \in set : m <= n

\* A faulty variant of FreshKey: the keys of pages are not avoided.
FreshKeyAmongObjects(p, from) ==
    CHOOSE k \in from..(from + Cardinality(p.object_parents)) :
        /\ \A o \in p.object_parents : o.key # k
        /\ \A other \in from..(k - 1) : \E o \in p.object_parents : o.key = other

FreshKey(p, from) ==
    CHOOSE k \in from..(from + Cardinality(p.reserved_keys)) :
        k \notin p.reserved_keys /\ from..(k - 1) \subseteq p.reserved_keys

\* The owners of the contents of a page, by content number.
Slots(p, page) ==
    LET owned == {c \in p.parents : c.page = page}
        Owner(mcid) == {c.owner : c \in {d \in owned : d.mcid = mcid}}
    IN  [mcid \in 0..Maximum({c.mcid : c \in owned}) |->
            IF Owner(mcid) = {} THEN None ELSE CHOOSE owner \in Owner(mcid) : TRUE]

\* One page gets its entry, and a key if it has none.
EnterPage(t, page) ==
    LET has == t.p.file.pages[page]
        fresh == FreshKey(t.p, t.fresh_key)
        key == IF has = None THEN fresh ELSE has
        slots == t.slots + Cardinality(DOMAIN Slots(t.p, page))
    IN  IF t.p.failed # None THEN t
        ELSE IF slots > MaxSlots THEN [t EXCEPT !.p = Fail(@, "limit")]
        ELSE [p |-> [t.p EXCEPT !.reserved_keys = @ \cup {key}],
              fresh_key |-> IF has = None THEN fresh ELSE t.fresh_key,
              slots |-> slots,
              keys |-> (page :> key) @@ t.keys,
              nums |-> (key :> [slots |-> Slots(t.p, page)]) @@ t.nums]

EnterPages(p) ==
    FoldLeft(EnterPage, [p |-> p, fresh_key |-> 0, slots |-> 0, keys |-> <<>>, nums |-> <<>>],
             SetToSortSeq({c.page : c \in p.parents} \cap p.retained, <))

EnterObjects(t) ==
    IF t.p.failed # None THEN t
    ELSE IF DOMAIN t.nums \cap {o.key : o \in t.p.object_parents} # {} THEN [t EXCEPT !.p = Fail(@, "invalid")]
    ELSE [t EXCEPT !.nums = @ @@ [key \in {o.key : o \in t.p.object_parents} |->
            [owner |-> (CHOOSE o \in t.p.object_parents : o.key = key).owner]]]

\* An index takes the place of the one there was.
Install(file, key, tree) ==
    LET old == file.root[key]
    IN  IF old # None /\ old.kind = "reference" THEN [file EXCEPT !.objects[old.to] = tree]
        ELSE [file EXCEPT !.root[key] = tree]

WithIds(file, ids) ==
    IF file.root.IDTree = None /\ ids = {} THEN file
    ELSE Install(file, "IDTree", Index([id \in {i.id : i \in ids} |->
                    (CHOOSE i \in ids : i.id = id).element]))

-----------------------------------------------------------------------------
\* project_impl: the file that is left, or why there is none.
Projected(file, retained, preserve) ==
    LET new == NewProjector(file, retained, preserve)
        inspected == Inspected(Inspected(new, file.root.ParentTree), file.root.IDTree)
        kids == IF file.root.kid = None THEN Left(inspected, None)
                ELSE Kid(inspected, file.root.kid, Root, None, 0)
        walked == IF inspected.failed # None THEN Left(inspected, None) ELSE kids
        t == EnterObjects(EnterPages(walked.p))
        root == [file.root EXCEPT
            !.kid = IF walked.value = None /\ ~preserve THEN Array(<<>>) ELSE walked.value,
            !.next_key = IF t.nums = <<>> THEN 0 ELSE Maximum(DOMAIN t.nums) + 1]
        left == [file EXCEPT
            !.pages = [page \in retained |-> IF page \in DOMAIN t.keys THEN t.keys[page] ELSE file.pages[page]],
            !.objects = t.p.replacements @@ @,
            !.root = root]
    IN  IF SharedIndex(file.root) \/ ~file.root.typed THEN [failed |-> "invalid"]
        ELSE IF walked.p.failed # None THEN [failed |-> walked.p.failed]
        ELSE IF t.p.failed # None THEN [failed |-> t.p.failed]
        ELSE [failed |-> None, file |-> WithIds(Install(left, "ParentTree", Index(t.nums)), t.p.ids),
              altered |-> DOMAIN t.p.replacements # {} \/ root.kid # file.root.kid]

-----------------------------------------------------------------------------
Init ==
    /\ tagged \in TaggedFiles
    /\ source = tagged
    /\ indexed = FALSE
    /\ told = "ok"
    /\ calls = 0

Change(outcome, answer) ==
    /\ calls < MaxCalls
    /\ calls' = calls + 1
    /\ told' = answer
    /\ tagged' = IF answer = "ok" THEN outcome.file ELSE tagged
    /\ indexed' = (indexed \/ answer = "ok")
    /\ UNCHANGED source

Answer(outcome) == IF outcome.failed = None THEN "ok" ELSE outcome.failed

\* A batch of page operations that deletes some pages and copies or imports none.
DeletePages ==
    \E retained \in SUBSET DOMAIN tagged.pages \ {{}, DOMAIN tagged.pages} :
        \E outcome \in {Projected(tagged, retained, FALSE)} : Change(outcome, Answer(outcome))

\* recover_tagged_structure_with_inventory: only indexes and keys may change.
Recover ==
    \E outcome \in {Projected(tagged, DOMAIN tagged.pages, TRUE)} :
        Change(outcome, IF outcome.failed = None /\ outcome.altered THEN "altered" ELSE Answer(outcome))

Next == DeletePages \/ Recover

Spec == Init /\ [][Next]_vars

-----------------------------------------------------------------------------
(* Properties *)

\* What stands in a structure tree, with the element that owns it and the page in
\* force there; n is the number of what is an object.
Place(n, value, owner, page) == [n |-> n, value |-> value, owner |-> owner, page |-> page]

Below(file, place) ==
    CASE place.value.kind = "reference" ->
            {Place(place.value.to, file.objects[place.value.to], place.owner, place.page)}
      [] place.value.kind = "array" ->
            {Place(None, item, place.owner, place.page) : item \in ToSet(place.value.items)}
      [] place.value.kind = "element" /\ place.value.kid # None ->
            {Place(None, place.value.kid, place.n, PageOf(place.value, place.page))}
      [] OTHER -> {}

Places(file, top) ==
    LET level[depth \in 0..(MaxNesting + 1)] ==
            IF depth = 0 THEN {top} ELSE UNION {Below(file, place) : place \in level[depth - 1]}
    IN  UNION {level[depth] : depth \in 0..(MaxNesting + 1)}

AllPlaces(file) ==
    IF file.root.kid = None THEN {} ELSE Places(file, Place(None, file.root.kid, Root, None))

OfKind(places, kind) == {place \in places : place.value.kind = kind}

Contents(places) ==
    {[page |-> PageOf(place.value, place.page), mcid |-> place.value.mcid, owner |-> place.owner] :
        place \in OfKind(places, "mcid")}

ObjectContents(places) ==
    {[page |-> PageOf(place.value, place.page), key |-> place.value.key, owner |-> place.owner] :
        place \in OfKind(places, "objr")}

\* A content on a page that is left, or an element without kids that is not on a
\* page that has gone, is a reason to keep the elements above it.
Stays(place) ==
    \/ place.value.kind \in {"mcid", "objr"} /\ PageOf(place.value, place.page) \in DOMAIN tagged.pages
    \/ /\ place.value.kind = "element" /\ place.value.kid = None
       /\ PageOf(place.value, place.page) \in {None} \cup DOMAIN tagged.pages

ElementsLeft ==
    {place.n : place \in {e \in OfKind(AllPlaces(source), "element") :
        DOMAIN tagged.pages = DOMAIN source.pages \/ \E p \in Places(source, e) : Stays(p)}}

Tree(key) ==
    LET value == tagged.root[key]
    IN  IF value # None /\ value.kind = "reference" THEN tagged.objects[value.to] ELSE value

\* However often pages are deleted and indexes recovered, every content of a page
\* that is left has the owner it had in the first file, in force on the same page,
\* and exactly the elements stay that still have a reason to, below the same
\* parents and naming no page that has gone.
ContentKeepsOwner ==
    LET before == AllPlaces(source)
        now == AllPlaces(tagged)
        elements == OfKind(now, "element")
    IN  /\ Contents(now) = {c \in Contents(before) : c.page \in DOMAIN tagged.pages}
        /\ ObjectContents(now) = {c \in ObjectContents(before) : c.page \in DOMAIN tagged.pages}
        /\ {e.n : e \in elements} = ElementsLeft
        /\ \A e \in elements : e.value.parent = e.owner /\ ~BadPage([file |-> tagged], e.value)

\* The ParentTree is the inverse of the structure tree: the key of a page leads to
\* the owners of its contents, that of an object to its owner, and nothing else
\* is there; the next key is free.  The IDTree has the elements that are left.
IndexesInvertTree ==
    LET now == AllPlaces(tagged)
        nums == Tree("ParentTree").entries
        ofPages == {key \in DOMAIN nums : "slots" \in DOMAIN nums[key]}
        identified == {e \in OfKind(now, "element") : e.value.id # None}
    IN  /\ \A c, d \in Contents(now) : tagged.pages[c.page] = tagged.pages[d.page] => c.page = d.page
        /\ Contents(now) = UNION {
              {[page |-> page, mcid |-> mcid, owner |-> nums[tagged.pages[page]].slots[mcid]] :
                  mcid \in {n \in DOMAIN nums[tagged.pages[page]].slots :
                              nums[tagged.pages[page]].slots[n] # None}} :
              page \in {c.page : c \in Contents(now)}}
        /\ ofPages = {tagged.pages[c.page] : c \in Contents(now)}
        /\ {[key |-> key, owner |-> nums[key].owner] : key \in DOMAIN nums \ ofPages}
              = {[key |-> c.key, owner |-> c.owner] : c \in ObjectContents(now)}
        /\ \A key \in DOMAIN nums : key < tagged.root.next_key
        /\ IF identified = {} /\ Tree("IDTree") = None THEN TRUE
           ELSE /\ DOMAIN Tree("IDTree").entries = {e.value.id : e \in identified}
                /\ \A e \in identified : Tree("IDTree").entries[e.value.id] = e.n

\* A file that has been projected can be projected again, unless it is too large,
\* and recovery never finds that it has altered the structure tree.
RepeatsSucceed == told # "altered" /\ (told = "invalid" => ~indexed)

StructureSurvives == RepeatsSucceed /\ (indexed => ContentKeepsOwner /\ IndexesInvertTree)

\* Types of the variables.
TypeOK ==
    /\ source \in TaggedFiles
    /\ DOMAIN tagged.pages \subseteq DOMAIN source.pages /\ DOMAIN tagged.objects = DOMAIN source.objects
    /\ indexed \in BOOLEAN /\ told \in {"ok", "invalid", "limit", "altered"} /\ calls \in 0..MaxCalls
=============================================================================
