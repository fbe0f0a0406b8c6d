--------------------------- MODULE MCPageMutation ---------------------------
(***************************************************************************)
(* A nested tree whose inner node has an indirect /Resources, flat trees   *)
(* whose pages refer to each other, and documents that may not be edited.  *)
(***************************************************************************)
EXTENDS PageMutation, TLC

Attrs(resources, box, rotate) ==
    "Resources" :> resources @@ "MediaBox" :> box @@ "Rotate" :> rotate
Nothing == Attrs(None, None, None)
Node(type, parent, attrs) ==
    [type |-> type, parent |-> parent, kids |-> <<>>, count |-> 0, attrs |-> attrs, refs |-> {}, tied |-> FALSE, data |-> type]
Tree(parent, kids, count, attrs) == [Node("Pages", parent, attrs) EXCEPT !.kids = kids, !.count = count]
Page(parent, attrs, refs) == [Node("Page", parent, attrs) EXCEPT !.refs = refs]
Other(data, refs) == [Node("other", None, Nothing) EXCEPT !.data = data, !.refs = refs]
Layer == Node("OCG", None, Nothing)

Doc(objects, catalog) == [objects |-> objects, catalog |-> catalog, labels |-> FALSE, security |-> "none"]

\* 3 and 4 inherit from 2, and 4 turns further than the root says.
Nested(catalog, refs) ==
    Doc(<<Tree(None, <<2, 5>>, 3, Attrs(None, "a4", 90)), Tree(1, <<3, 4>>, 2, Attrs({6}, "a5", None)),
          Page(2, Nothing, refs), Page(2, Attrs({7}, None, 270), {}), Page(1, Attrs(None, None, None), {}),
          Other("font", {}), Other("image", {8}), Other("mask", {})>>, catalog)

\* 2 has a link whose destinations are other pages or a layer; 3 has the layer.
Linked(refs, tied) ==
    Doc(<<Tree(None, <<2, 3>>, 2, Attrs({6}, None, None)), Page(1, Attrs(None, "a4", 180), {4}),
          [Page(1, Attrs(None, "a5", None), {5}) EXCEPT !.tied = tied], Other("link", refs), Layer, Other("font", {})>>, {})

Refused(doc) ==
    {[doc EXCEPT !.security = "signed"], [doc EXCEPT !.objects[1].count = 3], [doc EXCEPT !.objects[1].kids = <<2, 2>>]}
MCDocuments ==
    {Nested({5, 6}, {4}), Linked({2, 3, 5}, TRUE), [Linked({2}, FALSE) EXCEPT !.labels = TRUE]} \cup Refused(Linked({2}, FALSE))
MCUnsharedResources == {Nested({}, {})}
MCSources == {"other"}
MCImported ==
    [name \in MCSources |->
        [Linked({2}, FALSE) EXCEPT !.objects[1].attrs = Attrs({6}, "a5", None), !.objects[2].attrs = Nothing]]
MCBoxes == {"a4", "a5"}
=============================================================================
