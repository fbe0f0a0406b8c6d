---------------------------- MODULE SignaturePolicy ----------------------------
(***************************************************************************)
(* What signers allow: signatures/permissions.rs and                       *)
(* permissions/field_lock.rs decide from the revisions of a document       *)
(* whether the library appends another one.                                *)
(*                                                                         *)
(* A view is what a reader resolves in one revision:                       *)
(*   certification   what /Perms of the catalog refers to                  *)
(*   form, place     the fields of the form, and whether the form is an    *)
(*                   object or a part of the catalog                       *)
(*   fields          the field objects, each with the revision that has    *)
(*                   written it; a value is a signature, or Text           *)
(*   signatures      the signatures, named by the revision they were made  *)
(*                   in; each certifies the document with a permission, or *)
(*                   locks fields, or neither, and its byte ranges cover   *)
(*                   the file up to the end of a revision                  *)
(* A field may have a lock with a permission of its own; the lock is part  *)
(* of the field or, if it was written by itself, an object.  The marks of  *)
(* a field say that it is a slot, that it was drawn, and that it was drawn *)
(* for good.  Fields are named by their object, each by one name.          *)
(***************************************************************************)
EXTENDS Absence, Integers, Sequences

CONSTANTS
    Fields,        \* names of fields
    Originals,     \* first views, with their terms, and whether they are sound
    SignOptions,   \* certification, field locks and appearance asked for
    MaxRevisions   \* bound on the revisions of a document

VARIABLES
    revisions,     \* the views of all revisions, oldest first
    terms,         \* history: what the signature made in each revision has asked for
    reworked,      \* history: a field of a signature was written other than by signing
    last           \* the last call, and its answer

Text == 0

Kinds == {"PageTreeReorder", "PageTreeMutation", "FormFill", "FormStructure", "AddSignature",
          "DocumentTimestamp", "AddAnnotation", "OcrTextLayer", "TaggedStructure", "GenericObjects"}

Latest == revisions[Len(revisions)]
Number == Len(revisions) + 1

-----------------------------------------------------------------------------
(* Policy *)

Permits(kind, permission) ==
    \/ kind = "DocumentTimestamp"
    \/ kind \in {"FormFill", "AddSignature"} /\ permission \in {2, 3}
    \/ kind = "AddAnnotation" /\ permission = 3

\* ensure_definition_is_signed: the definition in force is within the byte ranges.
Signed(revision, signature) == revision <= signature.covers

CertificationAllows(view, kind) ==
    LET Certifying == {s \in DOMAIN view.signatures : view.signatures[s].certifies # None}
    IN  /\ kind = "GenericObjects" => \A s \in DOMAIN view.signatures : view.signatures[s].locks = None
        /\ Certifying = {view.certification} \ {None}
        /\ \A s \in Certifying :
              /\ view.signatures[s].certifies \in 1..3
              /\ Signed(view.signatures[s].at, view.signatures[s])
              /\ Permits(kind, view.signatures[s].certifies)

\* The permission in the lock of a field counts from when the field is signed.
Restricts(field) ==
    field.type = "Sig" /\ field.value # None /\ field.lock # None /\ field.lock.permission # None

FieldAllows(view, field, kind) ==
    Restricts(field) =>
        /\ field.lock.permission \in 1..3
        /\ field.value \in DOMAIN view.signatures
        /\ LET signature == view.signatures[field.value]
           IN  /\ Signed(field.at, signature) /\ Signed(signature.at, signature)
               /\ field.lock.own # None => Signed(field.lock.own, signature)
        /\ Permits(kind, field.lock.permission)

ViewAllows(view, kind) ==
    CertificationAllows(view, kind) /\ \A n \in view.form : FieldAllows(view, view.fields[n], kind)

\* A faulty variant of HistoryAllows: only what is in force now is looked at.
PresentAllows(kind) == ViewAllows(Latest, kind)

\* enforce_history
HistoryAllows(kind) == \A k \in DOMAIN revisions : ViewAllows(revisions[k], kind)

Locks(locks, n) ==
    CASE locks.action = "All"     -> TRUE
      [] locks.action = "Include" -> n \in locks.fields
      [] locks.action = "Exclude" -> n \notin locks.fields

\* ensure_field_modifications_allowed
LocksAllow(targets) ==
    \A s \in DOMAIN Latest.signatures :
        LET signature == Latest.signatures[s]
        IN  signature.locks # None =>
                Signed(signature.at, signature) /\ \A n \in targets : ~Locks(signature.locks, n)

Allows(kind, targets) == HistoryAllows(kind) /\ LocksAllow(targets)

-----------------------------------------------------------------------------
(* What a document is like *)

Rules == [action : {"All", "Include", "Exclude"}, fields : SUBSET Fields]
Terms == [certifies : Nat \cup {None}, locks : Rules \cup {None}, permission : Nat \cup {None}]
Signatures == [certifies : Nat \cup {None}, locks : Rules \cup {None}, covers : Nat, at : Nat]
FieldLocks == [permission : Nat \cup {None}, own : Nat \cup {None}]
Marks == {"slot", "drawn", "completed"}
FieldObjects ==
    [type : {"Sig", "Tx"}, value : Nat \cup {None}, lock : FieldLocks \cup {None}, marks : SUBSET Marks, at : Nat]

IsView(view) ==
    /\ view = [certification |-> view.certification, form |-> view.form, place |-> view.place,
               fields |-> view.fields, signatures |-> view.signatures]
    /\ view.certification \in Nat \cup {None} /\ view.place \in {"object", "catalog"}
    /\ view.form \subseteq DOMAIN view.fields /\ DOMAIN view.fields \subseteq Fields
    /\ view.fields \in [DOMAIN view.fields -> FieldObjects]
    /\ view.signatures \in [DOMAIN view.signatures -> Signatures]

\* What the signature made in revision k has asked for can be read in that revision.
Readable(view, k, term) ==
    term # None =>
        /\ k \in DOMAIN view.signatures
        /\ view.signatures[k].certifies = term.certifies /\ view.signatures[k].locks = term.locks
        /\ term.permission # None =>
              \E n \in view.form :
                 Restricts(view.fields[n]) /\ view.fields[n].lock.permission = term.permission

\* Every signature is one that has asked for what it says, and is covered by itself.
SignaturesSound(view, asked) ==
    \A s \in DOMAIN view.signatures :
       /\ asked[s] # None
       /\ view.signatures[s].certifies = asked[s].certifies /\ view.signatures[s].locks = asked[s].locks
       /\ view.signatures[s].certifies \in 1..3 \cup {None}
       /\ Signed(view.signatures[s].at, view.signatures[s])

\* The certification is the only signature that certifies.
CertifiedOnce(view) ==
    {s \in DOMAIN view.signatures : view.signatures[s].certifies # None} = {view.certification} \ {None}

\* A lock is one of the first k revisions, and that of a signed field is what its
\* signature has asked for.
FieldSound(view, field, asked, k) ==
    field.type = "Sig" /\ field.lock # None =>
        /\ field.lock.permission \in 1..3 \cup {None}
        /\ field.lock.own # None => field.lock.own <= k
        /\ Restricts(field) =>
              /\ field.value \in DOMAIN view.signatures
              /\ asked[field.value].permission = field.lock.permission
              /\ Signed(field.at, view.signatures[field.value])
              /\ field.lock.own # None => Signed(field.lock.own, view.signatures[field.value])

SoundView(view, asked, k) ==
    /\ SignaturesSound(view, asked)
    /\ CertifiedOnce(view)
    /\ \A n \in view.form : FieldSound(view, view.fields[n], asked, k)

\* The terms of a signature in the original are in it; if the original is called
\* sound, there is nothing else in it.
ASSUME OriginalsAssumption ==
    \A original \in Originals :
       /\ IsView(original.view) /\ original.term \in Terms \cup {None} /\ original.sound \in BOOLEAN
       /\ DOMAIN original.view.signatures \subseteq {1}
       /\ Readable(original.view, 1, original.term)
       /\ original.sound => SoundView(original.view, <<original.term>>, 1)

ASSUME SignersAssumption ==
    /\ None \notin Nat /\ None \notin Terms
    /\ MaxRevisions \in Nat \ {0}
    /\ \A options \in SignOptions :
          /\ options.certifies \in 1..3 \cup {None} /\ options.locks \in Rules \cup {None}
          /\ options.visible \in BOOLEAN

-----------------------------------------------------------------------------
(* Properties *)

\* What a signer has asked for allows the call.
TermAllows(term, kind, targets) ==
    /\ term.certifies # None => Permits(kind, term.certifies)
    /\ term.permission # None => Permits(kind, term.permission)
    /\ term.locks # None => kind # "GenericObjects" /\ \A n \in targets : ~Locks(term.locks, n)

TermsAllow(kind, targets, length) ==
    \A k \in 1..length : terms[k] # None => TermAllows(terms[k], kind, targets)

Value(view, n) == IF n \in view.form THEN view.fields[n].value ELSE None

\* Whatever was done to the fields since, also by another program, no revision the
\* library appends is of a kind that a signer before has ruled out, and none
\* changes the value of a field a signer has locked.
TermsAreKept ==
    LET n == Len(revisions)
    IN  last.answer = "done" /\ last.kind \in Kinds =>
            /\ TermsAllow(last.kind, last.targets, n - 1)
            /\ \A k \in 1..(n - 1), f \in Fields :
                  terms[k] # None /\ terms[k].locks # None /\ Locks(terms[k].locks, f)
                    => Value(revisions[n], f) = Value(revisions[n - 1], f)

\* As long as signed fields are written by signing only, nothing is refused but
\* what a signer has ruled out: what the editors write is never mistaken for a
\* broken policy.
RefusedForCause ==
    last.answer = "refused" /\ ~reworked => ~TermsAllow(last.kind, last.targets, Len(revisions))

\* What the signers have asked for is kept by every later revision, and is the only
\* reason for which the library refuses one (signatures/permissions.rs).
SignedTermsHold == TermsAreKept /\ RefusedForCause
=============================================================================
