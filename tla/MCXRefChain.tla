---------------------------- MODULE MCXRefChain ----------------------------
(***************************************************************************)
(* Model-checking instance of XRefChain: every chain of up to three        *)
(* sections over one object, classic, packed or broken, with every /Prev,  *)
(* cycles included.                                                        *)
(***************************************************************************)
EXTENDS XRefChain

\* A sound section that keeps, places, frees or packs object 1.
Plain(prev) ==
    {[form |-> f, plain |-> p, freed |-> fr, packed |-> pk, prev |-> prev, size |-> 2, trailer |-> "ok"] :
        <<f, p, fr, pk>> \in {<<"table", {}, {}, {}>>, <<"table", {1}, {}, {}>>,
                              <<"table", {}, {1}, {}>>, <<"stream", {}, {}, {1}>>}}

Row(f, size, prev, trailer) ==
    [form |-> f, plain |-> {1}, freed |-> {}, packed |-> {}, prev |-> prev, size |-> size, trailer |-> trailer]

\* Broken, sloppily written, undersized and badly or not closed sections.
Odd == {Row("junk", 2, None, "ok"), Row("table", 2, None, "none")}
       \cup UNION {{Row("sloppy", 2, p, "ok"), Row("table", 1, p, "ok"), Row("table", 2, p, "bad"),
                    Row("stream", 2, p, "encrypted")} : p \in Offsets \cup {None}}

Chains == [Offsets -> UNION {Plain(p) : p \in Offsets \cup {None}} \cup Odd]

\* The newest section is at the greatest offset.  What a scan of the bytes
\* finds varies only where no section lists the object.
MCFiles ==
    [sec : Chains, start : {3}, scan : {[o \in Objects |-> 1]}]
    \cup [sec : {[s \in Offsets |-> [Row("table", 2, None, "ok") EXCEPT !.plain = {}]]},
          start : {None, 3}, scan : [Objects -> Offsets \cup {None}]]
=============================================================================
