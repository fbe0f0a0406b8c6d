------------------------- MODULE IncrementalRevision -------------------------
(***************************************************************************)
(* Appending revisions to an existing PDF: writer/incremental_update.rs    *)
(* (IncrementalUpdate), the public transaction over it                     *)
(* (IncrementalObjectEditor), the dedicated editors that use it directly,  *)
(* and the recovery of tagged structures that retires absent objects.      *)
(*                                                                         *)
(* A file is what a reader resolves each number to, which XRefChain shows  *)
(* to be its newest definition, with its newest revision and the numbers   *)
(* any revision defined.  A definition keeps of an object only how it is   *)
(* stored and which object numbers it refers to.                           *)
(***************************************************************************)
EXTENDS Naturals, FiniteSets

CONSTANTS MaxNumber,    \* the largest object number, u32::MAX in the code
          MaxRevisions, \* bound on the length of a file's history
          Root,         \* object number of the catalog
          Bases,        \* the files editing starts from
          RefSets,      \* the references new definitions are given
          None

Numbers == 1..MaxNumber

ASSUME RootAssumption == MaxNumber \in Nat /\ Root \in Numbers
ASSUME RefSetsAssumption == RefSets \subseteq SUBSET Numbers
ASSUME MaxRevisionsAssumption == MaxRevisions \in Nat \ {0}

\* "packed": in an object stream; "store": an xref or object stream or a
\* signature; "absent": in use but at offset 0, so that nothing can be read.
Definition == [kind : {"obj", "packed", "store", "absent", "free"}, refs : SUBSET Numbers]
Obj(refs) == [kind |-> "obj", refs |-> refs]
Free == [kind |-> "free", refs |-> {}]
Empty == [n \in Numbers |-> None]

Revision == [form : {"table", "stream"}, defs : [Numbers -> Definition \cup {None}],
             size : 1..MaxNumber]

\* An inventory of changed objects.
Inventory == [changed : SUBSET Numbers]

ASSUME NoneAssumption ==
    /\ None \notin Definition /\ None \notin Inventory
    /\ None \notin {"editor", "direct", "recover"}
ASSUME BasesAssumption == Bases \subseteq [revision : Revision, damaged : BOOLEAN]

InUse(defs) == {n \in Numbers : defs[n] # None /\ defs[n].kind # "free"}
HasBody(defs) == {n \in InUse(defs) : defs[n].kind # "absent"}

\* A file that can be opened has a catalog.  Its references lead to numbers in
\* use, and, unless its trailer is lost, /Size covers its numbers.
ASSUME SoundBases ==
    \A b \in Bases :
        /\ Root \in HasBody(b.revision.defs)
        /\ \A n \in HasBody(b.revision.defs) :
              b.revision.defs[n].refs \subseteq InUse(b.revision.defs)
        /\ ~b.damaged => \A n \in Numbers : b.revision.defs[n] # None => n < b.revision.size

Planned(changes) == {n \in Numbers : changes[n] # None}

VARIABLES
    view, newest, used, \* the file: resolved, last revision, ever defined
    length, damaged,    \* number of revisions; whether no xref parses
    session,            \* kind of the open session, or None
    size, next_id, form,    \* original_size, next_id and xref_kind
    known, protected,   \* of IncrementalObjectEditor, as read at its start
    allocated,
    writes,             \* replacements
    catalog,            \* the edited catalog, None if unchanged
    retired,
    plan, report,       \* what a recovery will write, and says it changes
    everRetired         \* history: retired by a finished revision

file == <<view, newest, used, length, damaged, everRetired>>
reading == <<size, next_id, form, known, protected, plan>>
vars == <<file, session, reading, allocated, writes, catalog, retired, report>>

Init ==
    /\ \E b \in Bases : newest = b.revision /\ damaged = b.damaged
    /\ view = newest.defs /\ used = Planned(view) /\ length = 1
    /\ session = None
    /\ size = 1 /\ next_id = 1 /\ form = "table"
    /\ known = {} /\ protected = {} /\ plan = Empty
    /\ allocated = {} /\ writes = Empty /\ catalog = None /\ retired = {}
    /\ report = None /\ everRetired = {}

(***************************************************************************)
(* Faulty variants of definitions below, one plausible slip each.  None is *)
(* part of Next: each is put in the place of the definition it names to    *)
(* see that a property notices.                                            *)
(***************************************************************************)
\* ViewSize counting the entries in use in place of trusting /Size.
ViewSizeCounted == 1 + Cardinality(InUse(view))

\* The inventory without the retired identities.
InventoriedReplacements == Planned(plan) \cup IF form = "stream" THEN {next_id} ELSE {}

\* allocate_id with an unchecked addition.
AllocateIdUnchecked ==
    /\ session \in {"editor", "direct"}
    /\ next_id' = next_id + 1
    /\ allocated' = allocated \cup {next_id}
    /\ known' = IF session = "editor" THEN known \cup {next_id} ELSE known
    /\ UNCHANGED <<file, session, size, form, protected, plan, writes, catalog, retired, report>>

\* IncrementalObjectEditor::replace without the test that the number is known.
EditorReplaceUnknown(n, refs) ==
    /\ session = "editor"
    /\ n # Root /\ n \notin protected /\ refs \subseteq known
    /\ writes[n] = None
    /\ writes' = [writes EXCEPT ![n] = Obj(refs)]
    /\ UNCHANGED <<file, session, reading, allocated, catalog, retired, report>>

\* finish without free entries for retired numbers.
ChangesKeepingRetired ==
    [n \in Numbers |-> IF n = Root /\ catalog # None THEN catalog ELSE writes[n]]

\* finish without the test that every reservation was written.
CompleteUnchecked == Planned(plan) \subseteq Planned(writes)

(***************************************************************************)
(* What a reader makes of the file.                                        *)
(***************************************************************************)
Live == InUse(view)
Readable == HasBody(view)

\* Trailer /Size: of the newest trailer, or the number of headers recovered.
ViewSize == IF damaged THEN Cardinality(Live) ELSE newest.size

Written == Planned(writes)

(***************************************************************************)
(* Opening.                                                                *)
(***************************************************************************)
\* IncrementalUpdate::from_reader.  The xref kind is read at the base's xref
\* offset; a recovered file has offset 0 there, where no `xref' stands.
\* A reader refuses a file in which it finds no object.
FromReader(kind) ==
    /\ session = None /\ length < MaxRevisions
    /\ Live # {}
    /\ session' = kind
    /\ size' = ViewSize /\ next_id' = ViewSize
    /\ form' = IF damaged THEN "stream" ELSE newest.form
    /\ UNCHANGED <<file, allocated, writes, catalog>>

\* IncrementalObjectEditor::new parses strictly, reads every known object and
\* checks that /Size covers them.
OpenEditor ==
    /\ FromReader("editor")
    /\ ~damaged /\ Live \subseteq Readable /\ \A n \in Live : n < ViewSize
    /\ known' = Live
    /\ protected' = {n \in Live : view[n].kind = "store"}
    /\ plan' = Empty /\ UNCHANGED <<retired, report>>

\* A dedicated editor (annotations, signatures, OCR layers): from_base.
OpenDirect ==
    /\ FromReader("direct")
    /\ known' = {} /\ protected' = {} /\ plan' = Empty /\ UNCHANGED <<retired, report>>

\* The xref stream takes the next number when the update is finished.
PendingXRefId(kind, next) == IF kind = "stream" THEN {next} ELSE {}

\* Numbers a walk from the trailer along the references arrives at.
Reached(refs) ==
    LET within[k \in 0..MaxNumber] ==
            IF k = 0 THEN {Root}
            ELSE LET nearer == within[k - 1] IN nearer \cup UNION {refs[n] : n \in nearer}
    IN {Root} \cup within[MaxNumber]

\* The walk of a recovery hides only the edges of structure root r to absent
\* indexes.
Walked(r, index) ==
    Reached([n \in Numbers |-> IF n \notin Readable THEN {}
                              ELSE IF n = r THEN view[n].refs \ (index \ Readable)
                              ELSE view[n].refs])

\* unreachable_zero_offset_objects: an absent index is written again instead.
Retirable(reached, index) == (Live \ Readable) \ (reached \cup index)

\* What a recovery says it changes, known before the first replacement.
Inventoried == Planned(plan) \cup retired \cup PendingXRefId(form, next_id)

\* Below structure root r the index objects are rebuilt, absent ones included,
\* while r and the pages keep their references; absent objects that nothing
\* leads to are retired.
PlanRecovery(r, index, pages, refs) ==
    /\ r # Root /\ index \subseteq Live /\ Cardinality(index) <= 2
    /\ Walked(r, index) \subseteq Readable
    /\ refs \subseteq Walked(r, index)
    /\ \A n \in {r} \cup pages \cup index : view[n].kind # "store"
    /\ plan' = [n \in Numbers |-> IF n \in index THEN Obj(refs)
                                ELSE IF n \in {r} \cup pages THEN Obj(view[n].refs)
                                ELSE None]
    /\ retired' = Retirable(Walked(r, index), index)
    /\ \A n \in retired' : n < ViewSize

\* recover_tagged_structure_with_inventory, up to its first replacement.
OpenRecovery ==
    /\ FromReader("recover")
    /\ known' = {} /\ protected' = {}
    /\ \E r \in view[Root].refs \cap Readable :
       \E index \in SUBSET (view[r].refs \ {r, Root}) :
       \E pages \in SUBSET (Readable \ ({r, Root} \cup index)), refs \in RefSets :
          /\ pages \subseteq Walked(r, index)
          /\ PlanRecovery(r, index, pages, refs)
    /\ report' = [changed |-> Inventoried']

(***************************************************************************)
(* Staging.                                                                *)
(***************************************************************************)
Staging(kinds) == session \in kinds

\* allocate_id: checked_add fails when the number space is used up, which
\* leaves the update as it was.
AllocateId ==
    /\ Staging({"editor", "direct"}) /\ next_id < MaxNumber
    /\ next_id' = next_id + 1
    /\ allocated' = allocated \cup {next_id}
    /\ known' = IF session = "editor" THEN known \cup {next_id} ELSE known
    /\ UNCHANGED <<file, session, size, form, protected, plan, writes, catalog, retired, report>>

\* IncrementalUpdate::replace, refused for a number retired or already
\* replaced.
Replace(n, refs) ==
    /\ n \notin retired /\ writes[n] = None
    /\ writes' = [writes EXCEPT ![n] = Obj(refs)]
    /\ UNCHANGED <<file, session, reading, allocated, catalog, retired, report>>

\* IncrementalObjectEditor::replace and validate_object.
EditorReplace(n, refs) ==
    /\ Staging({"editor"})
    /\ n # Root /\ n \notin protected /\ n \in known
    /\ refs \subseteq known
    /\ Replace(n, refs)

\* A dedicated editor rewrites objects it has read and ones it allocated.
DirectReplace(n, refs) ==
    /\ Staging({"direct"})
    /\ \/ n \in allocated
       \/ n \in Live /\ view[n].kind \in {"obj", "packed"}
    /\ refs \subseteq allocated \cup Live
    /\ Replace(n, refs)

\* set_catalog_entry and remove_catalog_entry edit the catalog in memory: a
\* value gives way to a new one or to none, every other entry stays.
EditCatalog(kept, refs) ==
    /\ Staging({"editor"}) /\ refs \subseteq known
    /\ kept \subseteq IF catalog = None THEN view[Root].refs ELSE catalog.refs
    /\ catalog' = Obj(kept \cup refs)
    /\ UNCHANGED <<file, session, reading, allocated, writes, retired, report>>

\* The recovery writes what it planned.
RecoveryReplace(n) ==
    /\ Staging({"recover"}) /\ plan[n] # None
    /\ Replace(n, plan[n].refs)

(***************************************************************************)
(* Ending.                                                                 *)
(***************************************************************************)
Closed ==
    /\ session' = None
    /\ allocated' = {} /\ writes' = Empty /\ catalog' = None /\ retired' = {}
    /\ size' = 1 /\ next_id' = 1 /\ form' = "table"
    /\ known' = {} /\ protected' = {} /\ plan' = Empty /\ report' = None

\* What finish writes: replacements, the edited catalog among them, free
\* entries for retired numbers and, in a stream, the stream's own entry.
Changes == [n \in Numbers |->
               IF n = Root /\ catalog # None THEN catalog
               ELSE IF n \in retired THEN Free
               ELSE writes[n]]

NewRevision ==
    [form |-> form,
     defs |-> [n \in Numbers |-> IF n \in PendingXRefId(form, next_id) THEN [kind |-> "store", refs |-> {Root}]
                               ELSE Changes[n]],
     size |-> IF form = "stream" THEN next_id + 1
              ELSE IF next_id > size THEN next_id ELSE size]

\* The editor must have written all it allocated; a dedicated editor writes
\* what it allocates and a recovery what it planned.
Complete ==
    /\ allocated \subseteq Written
    /\ Planned(plan) \subseteq Written

\* Newer definitions win; the recovery scan finds only headers with a body.
Resolved(defs) ==
    [n \in Numbers |-> IF defs[n] = None \/ (damaged /\ defs[n].kind \notin {"obj", "store"})
                     THEN view[n] ELSE defs[n]]

\* IncrementalUpdate::finish: without replacements the base is returned.
Finish ==
    /\ session # None /\ Complete
    /\ (form = "stream" => next_id < MaxNumber)
    /\ IF Written = {} /\ catalog = None
       THEN UNCHANGED file
       ELSE /\ newest' = NewRevision
            /\ view' = Resolved(NewRevision.defs)
            /\ used' = used \cup Planned(NewRevision.defs)
            /\ length' = length + 1
            /\ everRetired' = everRetired \cup retired
            /\ UNCHANGED damaged
    /\ Closed

\* A refused call (finish with unwritten reservations included) or a dropped
\* editor: the base bytes are all there is.
Abandon ==
    /\ session # None
    /\ Closed /\ UNCHANGED file

Next ==
    \/ OpenEditor \/ OpenDirect \/ OpenRecovery
    \/ AllocateId
    \/ \E n \in Numbers, refs \in RefSets : EditorReplace(n, refs)
    \/ \E n \in Numbers, refs \in RefSets : DirectReplace(n, refs)
    \/ \E n \in Numbers : RecoveryReplace(n)
    \/ \E kept \in SUBSET Numbers, refs \in RefSets : EditCatalog(kept, refs)
    \/ Finish \/ Abandon

Spec == Init /\ [][Next]_vars

(******************************* Properties ********************************)

\* Every variable has its type.
TypeOK ==
    /\ view \in [Numbers -> Definition \cup {None}] /\ newest \in Revision
    /\ used \subseteq Numbers /\ length \in 1..MaxRevisions /\ damaged \in BOOLEAN
    /\ session \in {None, "editor", "direct", "recover"}
    /\ size \in Numbers /\ next_id \in Numbers /\ form \in {"table", "stream"}
    /\ known \subseteq Numbers /\ protected \subseteq Numbers
    /\ allocated \subseteq Numbers /\ retired \subseteq Numbers /\ everRetired \subseteq Numbers
    /\ plan \in [Numbers -> Definition \cup {None}]
    /\ writes \in [Numbers -> Definition \cup {None}]
    /\ catalog \in Definition \cup {None} /\ report \in Inventory \cup {None}

\* /Size of the newest trailer exceeds every number any revision ever defined,
\* the xref streams' own included: the parser rejects a classic table with a
\* greater number, and the next update allocates from /Size.
SizeCoversNumbers == ~damaged => \A n \in used : n < ViewSize

\* IncrementalObjectEditor::allocate_id hands out a fresh reference, as does
\* IncrementalUpdate::allocate_id: no revision ever defined that number, not
\* even one since freed, and neither did one define the pending xref stream's.
FreshIds ==
    ~damaged /\ session # None => (allocated \cup PendingXRefId(form, next_id)) \cap used = {}

\* docs/CLAIMS.md says of the OCR layers, one of the dedicated editors, that
\* they preserve the base revision: no new object is written under the number
\* of an object of the base.
BaseSurvives == \A n \in allocated \cap Live : writes[n] = None

\* Objects that can be read refer only to numbers in use, or to ones that were
\* retired as absent: a forward reference to a reserved number is defined by
\* the revision that makes it visible.
NoDanglingReference ==
    \A n \in Readable : view[n].refs \subseteq Live \cup everRetired

\* The comment of retire_unreachable: a retired number is never reused.
RetiredStaysFree == ~damaged => \A n \in everRetired : view[n] = Free

\* The inventory of a recovery (TaggedPdfEditor::preparation_objects: `Exact
\* objects changed', xref stream and retired numbers included) is what the
\* finished revision defines, although it is taken before the replacements.
InventoryIsExact ==
    [][(session = "recover" /\ length' # length)
          => report.changed = Planned(newest'.defs)]_vars

Store == INSTANCE RevisionStore WITH
    Definitions <- Definition, doc <- view, reserved <- allocated,
    staged <- Changes, active <- (session # None)

\* Seen through any reader, an update is a transaction of RevisionStore: it
\* changes only numbers in use or freshly reserved, and all of it or nothing
\* becomes visible when finish returns.
IsTransactional == Store!Spec
=============================================================================
