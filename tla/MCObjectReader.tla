--------------------------- MODULE MCObjectReader ---------------------------
(***************************************************************************)
(* Files of four objects: a leaf, two objects that may be its containers   *)
(* and a leaf packed in the second one.                                    *)
(***************************************************************************)
EXTENDS ObjectReader, TLC

Plain(gen, body, scan) ==
    [xref |-> "used", gen |-> gen, body |-> body, container |-> 1, holds |-> {}, size |-> 0, scan |-> scan]
Stream(gen, holds, size) == [Plain(gen, "pack", None) EXCEPT !.holds = holds, !.size = size]
InStream(n, body) == [Plain(0, body, None) EXCEPT !.xref = "packed", !.container = n]
Scan(gen, body) == [gen |-> gen, body |-> body]
As(xref, entry) == [entry EXCEPT !.xref = xref]

Leaves ==
    {Plain(1, "array", None), Plain(0, "broken", Scan(0, "dict")), InStream(2, "array"), InStream(2, "broken"),
     As("free", Plain(1, "array", None)), As("none", Plain(0, "broken", None)), As("none", Plain(0, "dict", Scan(1, "array"))),
     As("zero", Plain(0, "dict", None))}
Seconds == {Stream(0, {1}, 2), Stream(0, {3}, 4), Stream(1, {1}, 1), InStream(3, "dict"), InStream(2, "dict"),
            [Stream(0, {1}, 1) EXCEPT !.body = "broken", !.scan = Scan(0, "pack")]}
Thirds == {Stream(0, {2, 4}, 2), InStream(2, "dict"), Plain(0, "dict", None)}

MCFiles ==
    {[n \in 1..4 |-> CASE n = 1 -> a [] n = 2 -> b [] n = 3 -> c [] OTHER -> InStream(3, "dict")] :
        a \in Leaves, b \in Seconds, c \in Thirds}
MCGens == {0, 1}
MCQuestions == {<<"get", <<1, 1>>>>, <<"get", <<1, 0>>>>, <<"get", <<2, 0>>>>, <<"get", <<4, 0>>>>, <<"sparse", <<1, 1>>>>}
=============================================================================
