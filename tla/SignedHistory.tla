----------------------------- MODULE SignedHistory -----------------------------
(***************************************************************************)
(* A document that is signed, filled and edited by one revision after the  *)
(* other: what SignaturePolicy lets the editors of the library append, and *)
(* what these editors write to signatures and their fields.  The chain of  *)
(* revisions is intact, and one update is at work at a time.               *)
(***************************************************************************)
EXTENDS SignaturePolicy

vars == <<revisions, terms, reworked, last>>

Answer(allowed, fit) == IF ~allowed THEN "refused" ELSE IF fit THEN "done" ELSE "unfit"

-----------------------------------------------------------------------------
(* Revisions *)

\* A call that appends the view, or changes nothing.  What could follow a call that
\* changes nothing could as well take its place, and is looked at there.
Call(kind, targets, answer, view, term, reworks) ==
    /\ Len(revisions) < MaxRevisions /\ last.answer = "done"
    /\ last' = [kind |-> kind, targets |-> targets, answer |-> answer]
    /\ IF answer = "done"
       THEN /\ revisions' = Append(revisions, view)
            /\ terms' = Append(terms, term)
            /\ reworked' = (reworked \/ reworks)
       ELSE UNCHANGED <<revisions, terms, reworked>>

InForm(n) == n \in Latest.form
Field(n) == Latest.fields[n]

EmptyField == [type |-> "Sig", value |-> None, lock |-> None, marks |-> {}, at |-> Number]
Marked(n, mark) == mark \in Field(n).marks

\* The view with a field written anew, and in the form.
WithField(n, field) ==
    [Latest EXCEPT !.form = @ \cup {n},
                   !.fields = [m \in DOMAIN @ \cup {n} |-> IF m = n THEN [field EXCEPT !.at = Number] ELSE @[m]]]

\* prepare_incremental_signature and prepare_document_timestamp; slots and drawn
\* fields have a visible rectangle, timestamps must not.
SignAs(kind, n, new, options) ==
    LET fit == /\ IF new THEN ~InForm(n) ELSE InForm(n) /\ Field(n).type = "Sig" /\ Field(n).value = None
               /\ options.certifies # None => Latest.certification = None
               /\ kind = "DocumentTimestamp" /\ ~new => ~Marked(n, "slot") /\ ~Marked(n, "drawn")
        field == IF new THEN EmptyField ELSE Field(n)
        signed == WithField(n, [field EXCEPT !.value = Number, !.marks = IF options.visible THEN @ \cup {"drawn"} ELSE @])
        signature == [certifies |-> options.certifies, locks |-> options.locks, covers |-> Number, at |-> Number]
        view == [signed EXCEPT
            !.certification = IF options.certifies = None THEN @ ELSE Number,
            !.signatures = [s \in DOMAIN @ \cup {Number} |-> IF s = Number THEN signature ELSE @[s]]]
        term == [certifies |-> options.certifies, locks |-> options.locks,
                 permission |-> IF field.lock = None THEN None ELSE field.lock.permission]
    IN  Call(kind, {n}, Answer(Allows(kind, {n}), fit), view, term, FALSE)

Sign == \E n \in Fields, new \in BOOLEAN, options \in SignOptions : SignAs("AddSignature", n, new, options)

Timestamp ==
    \E n \in Fields, new \in BOOLEAN :
        SignAs("DocumentTimestamp", n, new, [certifies |-> None, locks |-> None, visible |-> FALSE])

\* A prepared field is completed when it was drawn for good, or has a value.
Completed(n) == Marked(n, "completed") \/ Field(n).value # None

\* read_signature_slot
IsSlot(n) == InForm(n) /\ Marked(n, "slot") /\ Field(n).type = "Sig" /\ (Completed(n) => Marked(n, "drawn"))

CreateSlot ==
    \E n \in Fields :
        LET fit == ~InForm(n) /\ \A m \in Latest.form : Marked(m, "slot") => IsSlot(m)
        IN  Call("FormStructure", {n}, Answer(Allows("FormStructure", {n}), fit),
                 WithField(n, [EmptyField EXCEPT !.marks = {"slot"}]), None, FALSE)

\* The form is written into the catalog, the field is left behind.
RemoveSlot ==
    \E n \in Fields :
        LET answer == IF IsSlot(n) /\ ~Completed(n) THEN Answer(Allows("FormStructure", {n}), TRUE) ELSE "unfit"
        IN  Call("FormStructure", {n}, answer,
                 [Latest EXCEPT !.form = @ \ {n}, !.place = "catalog"], None, FALSE)

DrawSlot ==
    \E n \in Fields, marks \in {{"drawn"}, {"drawn", "completed"}} :
        LET answer == IF IsSlot(n) /\ ~Completed(n) THEN Answer(Allows("FormFill", {n}), TRUE) ELSE "unfit"
        IN  Call("FormFill", {n}, answer,
                 WithField(n, [Field(n) EXCEPT !.marks = @ \cup marks]), None, FALSE)

\* fill_many: fields of every type, but those that are completed are read-only.
FillForm ==
    \E targets \in (SUBSET Fields) \ {{}} :
        LET found == Latest.place = "object" /\ targets \subseteq Latest.form
            answer == IF HistoryAllows("FormFill") /\ ~found THEN "unfit"
                      ELSE Answer(Allows("FormFill", targets), \A n \in targets : ~Marked(n, "completed"))
            view == [Latest EXCEPT !.fields = [n \in DOMAIN @ |->
                        IF n \in targets THEN [@[n] EXCEPT !.value = Text, !.at = Number] ELSE @[n]]]
        IN  Call("FormFill", targets, answer, view, None, \E n \in targets : Field(n).type = "Sig")

\* The editors of pages and annotations do not write fields or signatures.
EditPages ==
    \E kind \in {"PageTreeReorder", "PageTreeMutation", "AddAnnotation", "OcrTextLayer", "TaggedStructure"} :
        Call(kind, {}, Answer(HistoryAllows(kind), TRUE), Latest, None, FALSE)

SignatureFields == {n \in Latest.form : Field(n).type = "Sig"}

\* Views with the form or a field of a signature written in another way.
Reformed(form) == [Latest EXCEPT !.form = form]
Revalued(n, value) == WithField(n, [Field(n) EXCEPT !.value = value])
Relocked(n) == WithField(n, [Field(n) EXCEPT !.lock = [permission |-> 3, own |-> None]])
RelockedApart(n) == [Latest EXCEPT !.fields[n].lock = [permission |-> 3, own |-> Number]]

Rewritten ==
    {Reformed(form) : form \in (SUBSET DOMAIN Latest.fields) \ {Latest.form}}
    \cup {Revalued(n, value) : n \in SignatureFields, value \in {None, Text} \cup DOMAIN Latest.signatures}
    \cup {Relocked(n) : n \in SignatureFields}
    \cup {RelockedApart(n) : n \in {m \in SignatureFields : Field(m).lock # None /\ Field(m).lock.own # None}}

\* IncrementalObjectEditor: signatures and /Perms are protected.
EditObjects ==
    \E view \in Rewritten : Call("GenericObjects", {}, Answer(HistoryAllows("GenericObjects"), TRUE), view, None, TRUE)

\* Another program appends a revision, with the same signatures.
OtherProgram ==
    \E view \in Rewritten : Call("none of ours", {}, "done", view, None, TRUE)

Init ==
    \E original \in Originals :
        /\ revisions = <<original.view>>
        /\ terms = <<original.term>>
        /\ reworked = ~original.sound
        /\ last = [kind |-> "none of ours", targets |-> {}, answer |-> "done"]

Next ==
    \/ Sign \/ Timestamp
    \/ CreateSlot \/ RemoveSlot \/ DrawSlot
    \/ FillForm \/ EditPages \/ EditObjects
    \/ OtherProgram

Spec == Init /\ [][Next]_vars

\* Types of the variables.
TypeOK ==
    /\ Len(revisions) \in 1..MaxRevisions /\ Len(terms) = Len(revisions)
    /\ reworked \in BOOLEAN
    /\ last.kind \in Kinds \cup {"none of ours"} /\ last.targets \subseteq Fields
    /\ last.answer \in {"done", "refused", "unfit"}
    /\ \A k \in DOMAIN revisions : revisions[k].form \subseteq DOMAIN revisions[k].fields
=============================================================================
