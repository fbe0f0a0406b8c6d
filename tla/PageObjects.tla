----------------------------- MODULE PageObjects -----------------------------
(***************************************************************************)
(* The files that PageTree reads: their objects, as far as pages are made  *)
(* of them.  A file is                                                     *)
(*   objects   its objects by number, each of a form: "broken" if it       *)
(*             cannot be loaded, "reference" to another, "dictionary" (or  *)
(*             a stream, which has one), or "other"                        *)
(*   catalog   whether the catalog has a "reference" for Pages, to root,   *)
(*             or another "value", or that key is "absent"                 *)
(*   scanned   the objects whose text says that they are pages             *)
(*   xref_len  the number of entries of its cross-reference table          *)
(*   lenient   whether it is read with lenient syntax                      *)
(* A dictionary has a type, kids and a parent, each None if it is missing, *)
(* contents or not, and attributes that pages inherit.                     *)
(***************************************************************************)
EXTENDS Absence, Integers, Sequences, FiniteSets

CONSTANTS
    Files,          \* the files considered
    MaxPages,       \* MAX_PAGES, the leaves an index holds at most
    PagesPerNode,   \* pages of one node of a tree made up for a file without one
    FlatPages       \* up to how many pages such a tree is flat

InheritableKeys == {"Resources", "MediaBox", "CropBox", "Rotate"}

ASSUME SizesAssumption == MaxPages \in Nat /\ FlatPages \in Nat /\ PagesPerNode \in Nat \ {0}

\* Kids are references to objects of the file; others are left out.
ASSUME FilesAssumption ==
    \A f \in Files :
       /\ f.objects \in Seq({f.objects[n] : n \in DOMAIN f.objects})
       /\ f.scanned \subseteq DOMAIN f.objects
       /\ \A n \in DOMAIN f.objects :
             f.objects[n].form = "dictionary" /\ f.objects[n].kids # None =>
                f.objects[n].kids \in Seq(DOMAIN f.objects)

\* The values that attributes have in the files, None for a missing one.
AttributeValues ==
    UNION {UNION {{f.objects[n].attributes[key] : key \in InheritableKeys} :
                     n \in {m \in DOMAIN f.objects : f.objects[m].form = "dictionary"}} : f \in Files}

\* A parsed page: a box that is missing has the size of a letter.
Pages ==
    [obj_ref : Nat, media_box : AttributeValues \cup {"letter"}, crop_box : AttributeValues \cup {None},
     rotation : AttributeValues \cup {"upright"}, resources : AttributeValues \cup {None}]

\* None is neither a number nor a page.
ASSUME NoneAssumption == None \notin Nat \cup Pages
=============================================================================
