----------------------- MODULE MCIncrementalRevision -----------------------
(***************************************************************************)
(* Model-checking instances of IncrementalRevision: small files, classic    *)
(* and stream, plain, with protected, packed or absent objects, and tagged. *)
(***************************************************************************)
EXTENDS IncrementalRevision

Bodiless == [kind : {"store", "absent", "packed"}, refs : {{}}]

Defs(f) == [n \in Numbers |-> IF n \in DOMAIN f THEN f[n] ELSE None]
Base(f, n, defs) == [form |-> f, size |-> n, defs |-> Defs(defs)]

\* Only a file with cross-reference streams has object streams.
Sound(b) == b.form = "stream" \/ \A n \in Numbers : b.defs[n] = None \/ b.defs[n].kind # "packed"

\* A catalog and a second number, the trailer's /Size exact or larger.
Plain == {Base(f, n, <<Obj({}), d>>) :
             f \in {"table", "stream"}, n \in {3, 4}, d \in {Free, Obj({})} \cup Bodiless}

\* A catalog, a structure root, its index and an object nothing refers to.
Tagged == {Base(f, 5, <<Obj({2}), Obj({3}), d, e>>) :
             f \in {"table", "stream"},
             d \in {Obj({2}), [kind |-> "absent", refs |-> {}]},
             e \in {Obj({}), [kind |-> "absent", refs |-> {}]}}

MCBases == {[revision |-> b, damaged |-> FALSE] : b \in {x \in Plain \cup Tagged : Sound(x)}}

\* To none, or to a fourth number, which may be fresh or absent.
MCRefSets == {{}, {4}}

\* A file with two plain objects whose cross-reference table is lost.
DamagedBases == {[revision |-> Base("table", 3, <<Obj({}), Obj({})>>), damaged |-> TRUE]}
=============================================================================
