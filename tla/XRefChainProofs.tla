--------------------------- MODULE XRefChainProofs ---------------------------
(***************************************************************************)
(* Proofs about XRefChain for every file: any number of objects, offsets   *)
(* and sections, every /Prev, cycles included.                             *)
(*                                                                         *)
(* The inductive invariant IInv adds to the properties how the walk is     *)
(* linked (each revision's /Prev is the next one, the last one's is where  *)
(* the walk stands), which section the table takes its offset and trailer  *)
(* from, and that a rewound walk never leaves the open reader's chain.     *)
(***************************************************************************)
EXTENDS XRefChain, SequenceTheorems, WellFoundedInduction, TLAPS

Members(revs) == {revs[i] : i \in 1..Len(revs)}
Oldest(revs) == revs[Len(revs)]

\* Each revision's /Prev is the next older revision.
Linked(revs) == \A i \in 1..(Len(revs) - 1) : Section(revs[i]).prev = revs[i + 1]

\* The oldest section ends the chain or leads back into it.
Closed(revs) == Section(Oldest(revs)).prev \in {None} \cup Members(revs)

Walked == pc \in {"walk", "rewind", "scan", "trailer", "open", "snapshot"}

\* Nothing is merged before the walk starts; only a strict option skips the scan.
BeforeWalk ==
    /\ pc \in {"find", "recover"} => revisions = <<>>
    /\ pc = "find" => table = EmptyTable /\ visited = {}
    /\ pc = "scan" => lenient
    /\ pc \in {"find", "walk", "scan", "trailer", "recover", "open", "rewind", "snapshot"}
         => cache = [o \in Objects |-> None]

\* A rebuilt table belongs to a file without revisions.
RebuiltAlone == table.trailer = 0 => revisions = <<>> /\ pc \in {"trailer", "open", "done", "failed"}

\* How the walk is linked, and what the table takes from its newest section.
WalkLinked ==
    /\ Walking /\ revisions = <<>> => table = EmptyTable /\ current # None
    /\ Walked /\ revisions # <<>> =>
        /\ Linked(revisions)
        /\ table.xref_offset = revisions[1]
        /\ table.trailer = IF Section(revisions[1]).trailer = "none" THEN None ELSE revisions[1]
        /\ IF Walking THEN current = Section(Oldest(revisions)).prev ELSE Closed(revisions)

\* Until the hybrid scan, objects that no section lists are not found.
WalkResolves ==
    Walked /\ table.trailer # 0 =>
        \A o \in Objects : NewestWins(table, revisions, 1, o,
                              IF pc \in {"trailer", "open"} THEN {None} \cup Scanned(o) ELSE {None})

\* What the history is replayed from: the chain the open reader walked.
HistoryKept ==
    pc \in {"rewind", "snapshot", "replay"} =>
        /\ reader.revisions # <<>>
        /\ Linked(reader.revisions) /\ Closed(reader.revisions)
        /\ reader.table.xref_offset = reader.revisions[1]
        /\ \A o \in Objects : NewestWins(reader.table, reader.revisions, 1, o, {None} \cup Scanned(o))

\* The rewound walk starts at the oldest revision and stays in the chain.
RewindInside ==
    pc \in {"rewind", "snapshot"} =>
        /\ visited \subseteq Members(reader.revisions)
        /\ current \in {None} \cup Members(reader.revisions)
        /\ IF revisions = <<>> THEN pc = "rewind" /\ current = Oldest(reader.revisions)
                               ELSE revisions[1] = Oldest(reader.revisions)

\* Until the replay is over, a chain that leads back may already have supplied an
\* object from a newer section; one that ends supplies nothing.
Otherwise(tb, revs, o) == IF ChainEnds(revs) THEN {None} ELSE {Lookup(tb, o)}

\* The snapshot is at revision `step': newer sections have not touched it.
ReplayResolves ==
    pc = "replay" =>
        /\ step \in 1..Len(reader.revisions)
        /\ table.xref_offset = reader.revisions[step]
        /\ \A o \in Objects :
             /\ NewestWins(table, reader.revisions, step, o, Otherwise(table, reader.revisions, o))
             /\ (\A i \in 1..Len(reader.revisions) : o \notin Defined(Section(reader.revisions[i])))
                  => Lookup(table, o) = None
             /\ cache[o] # None => cache[o] = Lookup(table, o)

IInv ==
    /\ TypeOK /\ EachSectionOnce /\ MapsExclusive
    /\ BeforeWalk /\ RebuiltAlone /\ WalkLinked /\ WalkResolves
    /\ HistoryKept /\ RewindInside /\ ReplayResolves

\* A sequence that is not empty has a first and a last element.
LEMMA NotEmpty ==
    ASSUME NEW S, NEW seq \in Seq(S), seq # <<>>
    PROVE  /\ Len(seq) \in Nat /\ 1 \in 1..Len(seq) /\ Len(seq) \in 1..Len(seq)
           /\ Len(seq) = 1 \/ Len(seq) > 1
<1>1. Len(seq) \in Nat \ {0}
  BY EmptySeq
<1>2. \A n \in Nat \ {0} : 1 \in 1..n /\ n \in 1..n /\ (n = 1 \/ n > 1)
  OBVIOUS
<1>. QED
  BY <1>1, <1>2

-----------------------------------------------------------------------------
(* One section. *)

\* An entry is not mistaken for a missing one.
LEMMA EntryIsNotNone == \A b \in BOOLEAN, n \in Nat : [used |-> b, at |-> n] # None
BY NoneAssumption

\* The sections of a file and where they put an object: nowhere exactly if they
\* do not list it, in one map only.
LEMMA SectionFacts ==
    ASSUME file \in Files, NEW s \in Offsets, NEW o \in Objects
    PROVE  /\ Section(s).prev \in Offsets \cup {None}
           /\ Section(s).trailer \in {"none", "ok", "bad", "encrypted"}
           /\ Section(s).trailer = "none" => Section(s).prev = None
           /\ s # None /\ s # 0 /\ s \in Nat
           /\ SectionEntry(s, o) \in Entry \cup {None}
           /\ SectionExt(s, o) \in {s, None}
           /\ o \in Defined(Section(s)) <=> SectionEntry(s, o) # None
           /\ SectionExt(s, o) # None <=> o \in Section(s).packed
           /\ SectionExt(s, o) # None => SectionEntry(s, o) # None
           /\ SectionExt(s, o) = None => Placed(s, o) = SectionEntry(s, o)
           /\ SectionExt(s, o) # None => Placed(s, o) = [used |-> TRUE, at |-> s]
<1>1. Section(s) \in Sections
  BY FilesAssumption DEF Section
<1>2. s # None /\ s # 0 /\ s \in Nat
  BY OffsetsAssumption, NoneAssumption
<1>3. /\ Section(s).prev \in Offsets \cup {None}
      /\ Section(s).trailer \in {"none", "ok", "bad", "encrypted"}
      /\ Section(s).trailer = "none" => Section(s).prev = None
  BY <1>1 DEF Sections
<1>4. \A b \in BOOLEAN, n \in Nat : [used |-> b, at |-> n] # None
  BY EntryIsNotNone
<1>5. None \notin Entry
  BY <1>4, OffsetsAssumption DEF Entry
<1>6. SectionEntry(s, o) \in Entry \cup {None}
  BY <1>2 DEF SectionEntry, Entry, Dummy
<1>7. SectionExt(s, o) \in {s, None} /\ (SectionExt(s, o) # None <=> o \in Section(s).packed)
  BY <1>2 DEF SectionExt
<1>8. o \in Defined(Section(s)) <=> SectionEntry(s, o) # None
  BY <1>2, <1>4 DEF SectionEntry, Defined, Dummy
<1>9. SectionExt(s, o) # None => SectionEntry(s, o) # None
  BY <1>7, <1>8 DEF Defined
<1>. QED
  BY <1>2, <1>3, <1>6, <1>7, <1>8, <1>9 DEF Placed

\* What an object resolves to is an entry or nothing.
LEMMA LookupFacts ==
    ASSUME NEW tb \in Table, NEW o \in Objects
    PROVE  /\ Lookup(tb, o) \in Entry \cup {None}
           /\ Lookup(tb, o) = None <=> tb.entries[o] = None /\ tb.ext[o] = None
           /\ tb.entries[o] \in Entry \cup {None}
           /\ tb.ext[o] \in Offsets \cup {None}
<1>1. tb.entries[o] \in Entry \cup {None} /\ tb.ext[o] \in Offsets \cup {None}
  BY DEF Table
<1>. QED
  BY <1>1, EntryIsNotNone, OffsetsAssumption DEF Lookup, Entry

\* Merging an older section keeps what is known and fills in what it lists.
LEMMA MergeFills ==
    ASSUME file \in Files, table \in Table, MapsExclusive, NEW s \in Offsets
    PROVE  /\ Merged(s) \in Table
           /\ \A o \in Objects :
                /\ Merged(s).entries[o] = None \/ Merged(s).ext[o] = None
                /\ Lookup(table, o) # None => Lookup(Merged(s), o) = Lookup(table, o)
                /\ Lookup(table, o) = None =>
                     Lookup(Merged(s), o) = IF o \in Defined(Section(s)) THEN Placed(s, o) ELSE None
<1>1. ASSUME NEW o \in Objects
      PROVE  /\ MergedEntry(s, o) \in Entry \cup {None}
             /\ MergedExt(s, o) \in Offsets \cup {None}
             /\ MergedEntry(s, o) = None \/ MergedExt(s, o) = None
             /\ Lookup(table, o) # None =>
                  MergedEntry(s, o) = table.entries[o] /\ MergedExt(s, o) = table.ext[o]
             /\ Lookup(table, o) = None =>
                  MergedEntry(s, o) = (IF SectionExt(s, o) = None THEN SectionEntry(s, o) ELSE None)
                  /\ MergedExt(s, o) = SectionExt(s, o)
  BY SectionFacts, LookupFacts DEF MergedEntry, MergedExt, MapsExclusive
<1>2. Merged(s) \in Table
  BY <1>1, SectionFacts DEF Merged, Table
<1>3. ASSUME NEW o \in Objects
      PROVE  Merged(s).entries[o] = MergedEntry(s, o) /\ Merged(s).ext[o] = MergedExt(s, o)
  BY DEF Merged
<1>4. ASSUME NEW o \in Objects, Lookup(table, o) # None
      PROVE  Lookup(Merged(s), o) = Lookup(table, o)
  BY <1>1, <1>3, <1>4 DEF Lookup
<1>5. ASSUME NEW o \in Objects, Lookup(table, o) = None
      PROVE  Lookup(Merged(s), o) = IF o \in Defined(Section(s)) THEN Placed(s, o) ELSE None
  <2>1. CASE SectionExt(s, o) = None
    BY <1>1, <1>3, <1>5, <2>1, SectionFacts DEF Lookup
  <2>2. CASE SectionExt(s, o) # None
    <3>1. Merged(s).ext[o] = s /\ s # None /\ o \in Defined(Section(s))
      BY <1>1, <1>3, <1>5, <2>2, SectionFacts
    <3>. QED
      BY <3>1, <2>2, SectionFacts DEF Lookup
  <2>. QED
    BY <2>1, <2>2
<1>. QED
  BY <1>1, <1>2, <1>3, <1>4, <1>5

\* Moving on to a newer section replaces what it lists, and only that.
LEMMA AdvanceReplaces ==
    ASSUME file \in Files, table \in Table, MapsExclusive, NEW s \in Offsets
    PROVE  /\ Advanced(s) \in Table
           /\ \A o \in Objects :
                /\ Advanced(s).entries[o] = None \/ Advanced(s).ext[o] = None
                /\ Lookup(Advanced(s), o) =
                     IF o \in Defined(Section(s)) THEN Placed(s, o) ELSE Lookup(table, o)
<1>1. Advanced(s) \in Table
  BY SectionFacts, LookupFacts DEF Advanced, Table
<1>2. ASSUME NEW o \in Objects
      PROVE  /\ Advanced(s).entries[o] = (IF SectionExt(s, o) # None THEN None
                                          ELSE IF SectionEntry(s, o) # None THEN SectionEntry(s, o)
                                          ELSE table.entries[o])
             /\ Advanced(s).ext[o] = (IF SectionExt(s, o) # None THEN SectionExt(s, o)
                                      ELSE IF SectionEntry(s, o) # None THEN None ELSE table.ext[o])
  BY DEF Advanced
<1>3. ASSUME NEW o \in Objects
      PROVE  /\ Advanced(s).entries[o] = None \/ Advanced(s).ext[o] = None
             /\ Lookup(Advanced(s), o) =
                  IF o \in Defined(Section(s)) THEN Placed(s, o) ELSE Lookup(table, o)
  BY <1>2, SectionFacts DEF Lookup, MapsExclusive
<1>. QED
  BY <1>1, <1>3

\* The scan supplies objects that are not found yet, and changes nothing else.
LEMMA ScanFills ==
    ASSUME file \in Files, NEW tb \in Table, \A o \in Objects : tb.entries[o] = None \/ tb.ext[o] = None
    PROVE  /\ WithHeaders(tb) \in Table
           /\ WithHeaders(tb).trailer = tb.trailer /\ WithHeaders(tb).xref_offset = tb.xref_offset
           /\ \A o \in Objects :
                /\ WithHeaders(tb).entries[o] = None \/ WithHeaders(tb).ext[o] = None
                /\ Lookup(tb, o) # None => Lookup(WithHeaders(tb), o) = Lookup(tb, o)
                /\ Lookup(tb, o) = None =>
                     Lookup(WithHeaders(tb), o) = IF file.scan[o] = None THEN None
                                                  ELSE [used |-> TRUE, at |-> file.scan[o]]
<1>1. \A o \in Objects : file.scan[o] \in Offsets \cup {None}
  BY FilesAssumption
<1>2. /\ WithHeaders(tb).ext = tb.ext /\ WithHeaders(tb).trailer = tb.trailer
      /\ WithHeaders(tb).xref_offset = tb.xref_offset
      /\ \A o \in Objects : WithHeaders(tb).entries[o] =
            IF tb.entries[o] = None /\ tb.ext[o] = None /\ file.scan[o] # None
            THEN [used |-> TRUE, at |-> file.scan[o]] ELSE tb.entries[o]
  BY DEF WithHeaders, Table
<1>3. WithHeaders(tb) \in Table
  BY <1>1 DEF WithHeaders, Table, Entry
<1>. QED
  BY <1>2, <1>3, LookupFacts DEF Lookup

-----------------------------------------------------------------------------
(* Which section of a chain an object is found in. *)

\* An object that a section lists is placed by it.
LEMMA PlacedSomewhere ==
    ASSUME file \in Files, NEW s \in Offsets, NEW o \in Objects, o \in Defined(Section(s))
    PROVE  Placed(s, o) # None
<1>1. s \in Nat /\ [used |-> TRUE, at |-> s] # None
  BY OffsetsAssumption, EntryIsNotNone
<1>. QED
  BY <1>1, SectionFacts

\* A section appended at the old end of the chain.
LEMMA OlderSection ==
    ASSUME file \in Files, NEW revs \in Seq(Offsets), NEW s \in Offsets, NEW o \in Objects,
           NEW tb, NEW tb2, NewestWins(tb, revs, 1, o, {None}),
           Lookup(tb, o) # None => Lookup(tb2, o) = Lookup(tb, o),
           Lookup(tb, o) = None =>
             Lookup(tb2, o) = IF o \in Defined(Section(s)) THEN Placed(s, o) ELSE None
    PROVE  NewestWins(tb2, Append(revs, s), 1, o, {None})
<1>. DEFINE longer == Append(revs, s)
<1>1. /\ Len(revs) \in Nat /\ Len(longer) = Len(revs) + 1 /\ longer[Len(revs) + 1] = s
      /\ \A i \in 1..Len(revs) : longer[i] = revs[i] /\ revs[i] \in Offsets
  BY AppendProperties, LenProperties, ElementOfSeq
<1>. HIDE DEF longer
<1>2. ASSUME NEW i \in 1..Len(longer), o \in Defined(Section(longer[i])),
             \A j \in 1..(i - 1) : o \notin Defined(Section(longer[j]))
      PROVE  Lookup(tb2, o) = Placed(longer[i], o)
  <2>1. CASE i \in 1..Len(revs)
    <3>1. \A j \in 1..(i - 1) : j \in 1..Len(revs)
      BY <1>1, <2>1
    <3>2. Lookup(tb, o) = Placed(revs[i], o)
      BY <1>1, <1>2, <2>1, <3>1 DEF NewestWins
    <3>3. Placed(revs[i], o) # None
      <4>1. o \in Defined(Section(revs[i])) /\ revs[i] \in Offsets
        BY <1>1, <1>2, <2>1
      <4>. QED
        BY <4>1, PlacedSomewhere
    <3>. QED
      BY <1>1, <2>1, <3>2, <3>3
  <2>2. CASE i = Len(revs) + 1
    <3>1. \A j \in 1..Len(revs) : o \notin Defined(Section(revs[j]))
      BY <1>1, <1>2, <2>2
    <3>. QED
      BY <1>1, <1>2, <2>2, <3>1 DEF NewestWins
  <2>. QED
    BY <1>1, <2>1, <2>2
<1>3. ASSUME \A i \in 1..Len(longer) : o \notin Defined(Section(longer[i]))
      PROVE  Lookup(tb2, o) \in {None}
  <2>1. \A j \in 1..Len(revs) : o \notin Defined(Section(revs[j]))
    BY <1>1, <1>3
  <2>2. o \notin Defined(Section(s))
    BY <1>1, <1>3
  <2>. QED
    BY <2>1, <2>2 DEF NewestWins
<1>. QED
  BY <1>2, <1>3 DEF NewestWins, longer

\* The next newer section of the chain.
LEMMA NewerSection ==
    ASSUME NEW revs \in Seq(Offsets), NEW k \in 2..Len(revs), NEW o \in Objects,
           NEW tb, NEW tb2, NEW other, NEW other2, NewestWins(tb, revs, k, o, other),
           Lookup(tb2, o) = IF o \in Defined(Section(revs[k - 1])) THEN Placed(revs[k - 1], o)
                                                                  ELSE Lookup(tb, o),
           Lookup(tb, o) \in other => Lookup(tb, o) \in other2
    PROVE  NewestWins(tb2, revs, k - 1, o, other2)
<1>1. Len(revs) \in Nat
  BY LenProperties
<1>2. ASSUME NEW i \in (k - 1)..Len(revs), o \in Defined(Section(revs[i])),
             \A j \in (k - 1)..(i - 1) : o \notin Defined(Section(revs[j]))
      PROVE  Lookup(tb2, o) = Placed(revs[i], o)
  <2>1. CASE i = k - 1
    BY <1>2, <2>1
  <2>2. CASE i \in k..Len(revs)
    <3>1. k - 1 \in (k - 1)..(i - 1) /\ \A j \in k..(i - 1) : j \in (k - 1)..(i - 1)
      BY <1>1, <2>2
    <3>. QED
      BY <1>2, <2>2, <3>1 DEF NewestWins
  <2>. QED
    BY <1>1, <2>1, <2>2
<1>3. ASSUME \A i \in (k - 1)..Len(revs) : o \notin Defined(Section(revs[i]))
      PROVE  Lookup(tb2, o) \in other2
  <2>1. k - 1 \in (k - 1)..Len(revs) /\ \A i \in k..Len(revs) : i \in (k - 1)..Len(revs)
    BY <1>1
  <2>. QED
    BY <1>3, <2>1 DEF NewestWins
<1>. QED
  BY <1>2, <1>3 DEF NewestWins

\* More answers may be allowed for what no section lists.
LEMMA MoreAnswers ==
    ASSUME NEW revs, NEW first, NEW o, NEW tb, NEW other, NEW other2,
           NewestWins(tb, revs, first, o, other), other \subseteq other2
    PROVE  NewestWins(tb, revs, first, o, other2)
BY DEF NewestWins

\* Of the sections that list an object, one is the newest.
LEMMA NewestExists ==
    ASSUME NEW revs \in Seq(Offsets), NEW o,
           NEW k \in 1..Len(revs), o \in Defined(Section(revs[k]))
    PROVE  \E i \in 1..Len(revs) :
             /\ o \in Defined(Section(revs[i]))
             /\ \A j \in 1..(i - 1) : o \notin Defined(Section(revs[j]))
<1>. DEFINE Listing == {i \in 1..Len(revs) : o \in Defined(Section(revs[i]))}
            Less == OpToRel(<, Nat)
<1>1. Len(revs) \in Nat
  BY LenProperties
<1>2. Listing \subseteq Nat /\ Listing # {}
  BY <1>1
<1>3. \A m, n \in Nat : m < n => <<m, n>> \in Less
  BY DEF OpToRel
<1>4. \E i \in Listing : \A j \in Listing : <<j, i>> \notin Less
  BY <1>2, NatLessThanWellFounded, WFMin
<1>. HIDE DEF Less
<1>5. PICK i \in Listing : \A j \in Listing : <<j, i>> \notin Less
  BY <1>4
<1>6. ASSUME NEW j \in 1..(i - 1) PROVE o \notin Defined(Section(revs[j]))
  <2>1. j \in 1..Len(revs) /\ j \in Nat /\ i \in Nat /\ j < i
    BY <1>1, <1>5
  <2>2. j \notin Listing
    BY <1>3, <1>5, <2>1
  <2>. QED
    BY <2>1, <2>2
<1>. QED
  BY <1>5, <1>6

\* Two tables in which the newest section of one chain wins agree on what it lists.
LEMMA NewestAgree ==
    ASSUME NEW revs \in Seq(Offsets), NEW o, NEW tb, NEW tb2, NEW other, NEW other2,
           NewestWins(tb, revs, 1, o, other), NewestWins(tb2, revs, 1, o, other2)
    PROVE  \/ Lookup(tb, o) = Lookup(tb2, o)
           \/ Lookup(tb, o) \in other /\ Lookup(tb2, o) \in other2
              /\ \A i \in 1..Len(revs) : o \notin Defined(Section(revs[i]))
<1>1. CASE \E k \in 1..Len(revs) : o \in Defined(Section(revs[k]))
  <2>1. PICK i \in 1..Len(revs) : /\ o \in Defined(Section(revs[i]))
                                  /\ \A j \in 1..(i - 1) : o \notin Defined(Section(revs[j]))
    BY <1>1, NewestExists
  <2>. QED
    BY <2>1 DEF NewestWins
<1>2. CASE \A k \in 1..Len(revs) : o \notin Defined(Section(revs[k]))
  BY <1>2 DEF NewestWins
<1>. QED
  BY <1>1, <1>2

-----------------------------------------------------------------------------
(* Initial states. *)

\* The table that find_xref starts from knows no object.
LEMMA EmptyTableFacts ==
    /\ EmptyTable \in Table
    /\ \A o \in Objects : Lookup(EmptyTable, o) = None /\ EmptyTable.entries[o] = None
                          /\ EmptyTable.ext[o] = None
BY DEF EmptyTable, Table, Lookup

\* No section, nothing found.
LEMMA EmptyResolves ==
    ASSUME NEW o \in Objects, NEW other, None \in other
    PROVE  NewestWins(EmptyTable, <<>>, 1, o, other)
<1>1. Lookup(EmptyTable, o) = None
  BY EmptyTableFacts
<1>2. 1..Len(<<>>) = {}
  OBVIOUS
<1>. QED
  BY <1>1, <1>2 DEF NewestWins

\* A file of which nothing is read yet.
THEOREM InitEstablishes == Init => IInv
<1>. SUFFICES ASSUME Init PROVE IInv
  OBVIOUS
<1>1. TypeOK /\ MapsExclusive
  BY EmptyTableFacts DEF Init, TypeOK, States, MapsExclusive
<1>2. EachSectionOnce
  BY DEF Init, EachSectionOnce
<1>3. /\ BeforeWalk /\ RebuiltAlone /\ WalkLinked /\ WalkResolves
      /\ HistoryKept /\ RewindInside /\ ReplayResolves
  BY NoneAssumption DEF Init, EmptyTable, BeforeWalk, RebuiltAlone, WalkLinked, WalkResolves, Walking, Walked,
     HistoryKept, RewindInside, ReplayResolves
<1>. QED
  BY <1>1, <1>2, <1>3 DEF IInv

-----------------------------------------------------------------------------
(* Steps. *)

\* No step changes the file, so what its sections say stays.
LEMMA FileStays ==
    ASSUME UNCHANGED input
    PROVE  /\ \A s : Section(s)' = Section(s)
           /\ \A s, o : Placed(s, o)' = Placed(s, o)
           /\ \A o : Scanned(o)' = Scanned(o)
           /\ \A revs : Linked(revs)' = Linked(revs)
           /\ \A revs : Closed(revs)' = Closed(revs)
           /\ \A tb, revs, o : Otherwise(tb, revs, o)' = Otherwise(tb, revs, o)
           /\ \A tb, revs, first, o, other :
                NewestWins(tb, revs, first, o, other)' = NewestWins(tb, revs, first, o, other)
<1>1. file' = file /\ lenient' = lenient
  BY DEF input
<1>2. \A s : Section(s)' = Section(s)
  BY <1>1 DEF Section
<1>3. \A s, o : Placed(s, o)' = Placed(s, o)
  BY <1>1 DEF Placed, SectionEntry, Section
<1>4. \A o : Scanned(o)' = Scanned(o)
  BY <1>1 DEF Scanned
<1>5. \A revs : Linked(revs)' = Linked(revs) /\ Closed(revs)' = Closed(revs)
  BY <1>2 DEF Linked, Closed
<1>7. \A tb, revs, o : Otherwise(tb, revs, o)' = Otherwise(tb, revs, o)
  BY <1>2 DEF Otherwise, ChainEnds, Lookup
<1>6. ASSUME NEW tb, NEW revs, NEW first, NEW o, NEW other
      PROVE  NewestWins(tb, revs, first, o, other)' = NewestWins(tb, revs, first, o, other)
  BY <1>2, <1>3 DEF NewestWins
<1>. QED
  BY <1>2, <1>3, <1>4, <1>5, <1>6, <1>7

\* The last startxref names the section the walk starts from.
LEMMA FindXRefKeeps == ASSUME IInv, FindXRef PROVE IInv'
<1>. USE DEF IInv, FindXRef
<1>1. TypeOK' /\ EachSectionOnce' /\ MapsExclusive'
  BY FilesAssumption DEF TypeOK, States, EachSectionOnce, MapsExclusive, input
<1>2. BeforeWalk' /\ RebuiltAlone'
  BY DEF BeforeWalk, RebuiltAlone, TypeOK
<1>3. WalkLinked'
  BY DEF BeforeWalk, WalkLinked, Walking, Walked
<1>4. WalkResolves'
  <2>. SUFFICES ASSUME NEW o \in Objects PROVE NewestWins(table, revisions, 1, o, {None})'
    BY DEF WalkResolves
  <2>1. NewestWins(table, revisions, 1, o, {None})
    BY EmptyResolves DEF BeforeWalk
  <2>. QED
    BY <2>1, FileStays
<1>5. HistoryKept' /\ RewindInside' /\ ReplayResolves'
  BY DEF HistoryKept, RewindInside, ReplayResolves
<1>. QED
  BY <1>1, <1>2, <1>3, <1>4, <1>5

\* One section of the chain is merged, older entries giving way to newer ones.
LEMMA MergeSectionKeeps == ASSUME IInv, MergeSection PROVE IInv'
<1>. USE DEF IInv, MergeSection
<1>1. /\ file \in Files /\ table \in Table /\ revisions \in Seq(Offsets) /\ Len(revisions) \in Nat
      /\ current \in Offsets /\ current # None /\ current \notin visited
  BY LenProperties DEF TypeOK, WalkEnded
<1>2. /\ revisions' \in Seq(Offsets) /\ Len(revisions') = Len(revisions) + 1
      /\ \A i \in 1..Len(revisions) : revisions'[i] = revisions[i] /\ revisions[i] \in Offsets
      /\ revisions'[Len(revisions) + 1] = current /\ revisions' # <<>>
  BY <1>1, AppendProperties, ElementOfSeq
<1>3. table.trailer # 0
  BY DEF RebuiltAlone, Walking
<1>4. TypeOK'
  <2>1. table' \in Table
    BY <1>1, MergeFills
  <2>2. current' \in Offsets \cup {None}
    BY <1>1, FilesAssumption DEF Section, Sections
  <2>. QED
    BY <1>1, <1>2, <2>1, <2>2 DEF TypeOK, input
<1>5. EachSectionOnce'
  <2>1. visited' = {revisions'[i] : i \in 1..Len(revisions')}
    BY <1>1, <1>2 DEF EachSectionOnce
  <2>2. \A i \in 1..Len(revisions) : revisions'[i] # current
    BY <1>1, <1>2 DEF EachSectionOnce
  <2>3. ASSUME NEW i \in 1..Len(revisions'), NEW j \in 1..Len(revisions'), revisions'[i] = revisions'[j]
        PROVE  i = j
    BY <1>1, <1>2, <2>2, <2>3 DEF EachSectionOnce
  <2>. QED
    BY <2>1, <2>3 DEF EachSectionOnce
<1>6. MapsExclusive'
  BY <1>1, MergeFills DEF MapsExclusive
<1>7. BeforeWalk'
  BY DEF BeforeWalk, Walking
<1>8. RebuiltAlone'
  BY <1>1, <1>3, SectionFacts, OffsetsAssumption DEF RebuiltAlone, Merged
<1>9. WalkLinked'
  <2>1. Linked(revisions')
    <3>. SUFFICES ASSUME NEW i \in 1..Len(revisions)
                  PROVE  Section(revisions'[i]).prev = revisions'[i + 1]
      BY <1>1, <1>2 DEF Linked
    <3>1. CASE i = Len(revisions)
      <4>1. current = Section(revisions[i]).prev
        BY <1>1, <3>1 DEF WalkLinked, Walking, Walked, Oldest
      <4>. QED
        BY <1>2, <3>1, <4>1
    <3>2. CASE i \in 1..(Len(revisions) - 1)
      <4>1. Section(revisions[i]).prev = revisions[i + 1]
        BY <1>1, <3>2 DEF WalkLinked, Walking, Walked, Linked
      <4>. QED
        BY <1>1, <1>2, <3>2, <4>1
    <3>. QED
      BY <1>1, <3>1, <3>2
  <2>2. /\ table'.xref_offset = revisions'[1]
        /\ table'.trailer = IF Section(revisions'[1]).trailer = "none" THEN None ELSE revisions'[1]
    <3>1. CASE revisions = <<>>
      <4>1. table.trailer = None /\ revisions'[1] = current
        BY <1>2, <3>1 DEF WalkLinked, Walking, EmptyTable
      <4>. QED
        BY <4>1 DEF Merged
    <3>2. CASE revisions # <<>>
      <4>1. 1 \in 1..Len(revisions)
        BY <1>1, <3>2, NotEmpty
      <4>2. /\ table.xref_offset = revisions[1]
            /\ table.trailer = IF Section(revisions[1]).trailer = "none" THEN None ELSE revisions[1]
            /\ Linked(revisions) /\ current = Section(Oldest(revisions)).prev
        BY <3>2 DEF WalkLinked, Walking, Walked
      <4>3. Section(revisions[1]).prev # None
        <5>1. CASE Len(revisions) = 1
          BY <1>1, <4>2, <5>1 DEF Oldest
        <5>2. CASE Len(revisions) > 1
          <6>1. Section(revisions[1]).prev = revisions[2] /\ revisions[2] \in Offsets
            BY <1>1, <1>2, <4>2, <5>2 DEF Linked
          <6>. QED
            BY <6>1, OffsetsAssumption, NoneAssumption
        <5>. QED
          BY <1>1, <3>2, <5>1, <5>2, NotEmpty
      <4>4. Section(revisions[1]).trailer # "none"
        BY <1>1, <1>2, <4>1, <4>3, FilesAssumption DEF Section, Sections
      <4>5. table.trailer # None
        BY <1>2, <4>1, <4>2, <4>4, OffsetsAssumption, NoneAssumption
      <4>. QED
        BY <1>2, <4>1, <4>2, <4>5 DEF Merged
    <3>. QED
      BY <3>1, <3>2
  <2>3. current' = Section(Oldest(revisions')).prev
    BY <1>1, <1>2 DEF Oldest
  <2>. QED
    BY <1>2, <2>1, <2>2, <2>3, FileStays DEF WalkLinked, Walking
<1>10. WalkResolves'
  <2>. SUFFICES ASSUME NEW o \in Objects PROVE NewestWins(table, revisions, 1, o, {None})'
    BY DEF WalkResolves, Walking
  <2>1. NewestWins(table, revisions, 1, o, {None})
    BY <1>3 DEF WalkResolves, Walked, Walking
  <2>2. NewestWins(table', revisions', 1, o, {None})
    BY <1>1, <2>1, MergeFills, OlderSection
  <2>. QED
    BY <2>2, FileStays
<1>11. HistoryKept'
  BY FileStays DEF HistoryKept, Walking
<1>12. RewindInside'
  <2>. SUFFICES ASSUME pc = "rewind" PROVE RewindInside'
    BY DEF RewindInside, Walking
  <2>1. /\ reader.revisions \in Seq(Offsets) /\ Len(reader.revisions) \in Nat
        /\ Linked(reader.revisions) /\ Closed(reader.revisions)
        /\ current \in Members(reader.revisions)
    BY <1>1, LenProperties DEF TypeOK, HistoryKept, RewindInside
  <2>2. current' \in {None} \cup Members(reader.revisions)
    <3>1. PICK i \in 1..Len(reader.revisions) : current = reader.revisions[i]
      BY <2>1 DEF Members
    <3>2. CASE i = Len(reader.revisions)
      BY <2>1, <3>1, <3>2 DEF Closed, Oldest
    <3>3. CASE i \in 1..(Len(reader.revisions) - 1)
      BY <2>1, <3>1, <3>3 DEF Linked, Members
    <3>. QED
      BY <2>1, <3>1, <3>2, <3>3
  <2>3. revisions'[1] = Oldest(reader.revisions)
    <3>1. CASE revisions = <<>>
      BY <1>2, <3>1 DEF RewindInside
    <3>2. CASE revisions # <<>>
      <4>1. 1 \in 1..Len(revisions)
        BY <1>1, <3>2, NotEmpty
      <4>. QED
        BY <1>2, <3>2, <4>1 DEF RewindInside
    <3>. QED
      BY <3>1, <3>2
  <2>. QED
    BY <1>2, <2>1, <2>2, <2>3 DEF RewindInside, Members
<1>13. ReplayResolves'
  BY DEF ReplayResolves, Walking
<1>. QED
  BY <1>4, <1>5, <1>6, <1>7, <1>8, <1>9, <1>10, <1>11, <1>12, <1>13

\* The chain ends, or returns to a section that is merged already.
LEMMA EndWalkKeeps == ASSUME IInv, EndWalk PROVE IInv'
<1>1. /\ TypeOK /\ Walking /\ WalkEnded /\ UNCHANGED <<input, walk, rebuilt, reader, step, cache>>
      /\ pc' = IF pc = "rewind" THEN "snapshot" ELSE IF lenient THEN "scan" ELSE "trailer"
  BY DEF IInv, EndWalk
<1>2. UNCHANGED <<file, lenient, recovery, table, revisions, visited, current>>
  BY <1>1 DEF input, walk
<1>3. revisions # <<>>
  <2>. SUFFICES ASSUME revisions = <<>> PROVE FALSE
    OBVIOUS
  <2>1. visited = {}
    BY DEF IInv, EachSectionOnce
  <2>. QED
    BY <1>1, <2>1 DEF IInv, WalkLinked, WalkEnded
<1>4. TypeOK' /\ EachSectionOnce' /\ MapsExclusive'
  <2>1. TypeOK'
    BY <1>1, <1>2 DEF TypeOK, States
  <2>2. EachSectionOnce' /\ MapsExclusive'
    BY <1>2 DEF IInv, EachSectionOnce, MapsExclusive
  <2>. QED
    BY <2>1, <2>2
<1>5. table.trailer # 0
  BY <1>1 DEF IInv, RebuiltAlone, Walking
<1>6. BeforeWalk' /\ RebuiltAlone'
  BY <1>1, <1>2, <1>5 DEF IInv, BeforeWalk, RebuiltAlone, Walking
<1>7. WalkLinked'
  <2>1. /\ Linked(revisions) /\ table.xref_offset = revisions[1]
        /\ table.trailer = IF Section(revisions[1]).trailer = "none" THEN None ELSE revisions[1]
        /\ current = Section(Oldest(revisions)).prev
    BY <1>1, <1>3 DEF IInv, WalkLinked, Walking, Walked
  <2>2. visited = Members(revisions)
    BY DEF IInv, EachSectionOnce, Members
  <2>3. Closed(revisions)
    BY <1>1, <2>1, <2>2 DEF Closed, WalkEnded
  <2>4. ~Walking'
    BY <1>1 DEF Walking
  <2>. QED
    BY <1>1, <1>2, <1>3, <2>1, <2>3, <2>4, FileStays DEF WalkLinked
<1>8. WalkResolves'
  <2>. SUFFICES ASSUME NEW o \in Objects
                PROVE  NewestWins(table, revisions, 1, o,
                          IF pc' \in {"trailer", "open"} THEN {None} \cup Scanned(o) ELSE {None})
    BY <1>1, <1>2, FileStays DEF WalkResolves
  <2>1. NewestWins(table, revisions, 1, o, {None})
    BY <1>1, <1>5 DEF IInv, WalkResolves, Walked, Walking
  <2>. QED
    BY <2>1, MoreAnswers
<1>9. HistoryKept' /\ RewindInside'
  BY <1>1, <1>2, <1>3, FileStays DEF IInv, HistoryKept, RewindInside, Walking
<1>10. ReplayResolves'
  BY <1>1 DEF ReplayResolves
<1>. QED
  BY <1>4, <1>6, <1>7, <1>8, <1>9, <1>10 DEF IInv

\* The chain cannot be found or read: the table is dropped before recovery.
LEMMA FallBackKeeps == ASSUME IInv, FallBack PROVE IInv'
<1>1. /\ pc \in {"find", "walk"} /\ pc' \in {"recover", "failed"}
      /\ table' = EmptyTable /\ revisions' = <<>> /\ visited' = {} /\ current' = None
      /\ UNCHANGED <<input, rebuilt, reader, step, cache>>
  BY DEF FallBack
<1>2. TypeOK' /\ MapsExclusive'
  BY <1>1, EmptyTableFacts DEF IInv, TypeOK, States, MapsExclusive, input
<1>3. EachSectionOnce'
  BY <1>1 DEF EachSectionOnce
<1>4. BeforeWalk' /\ RebuiltAlone' /\ WalkLinked' /\ WalkResolves'
  BY <1>1, NoneAssumption DEF IInv, EmptyTable, BeforeWalk, RebuiltAlone, WalkLinked, WalkResolves, Walking, Walked
<1>5. HistoryKept' /\ RewindInside' /\ ReplayResolves'
  BY <1>1 DEF HistoryKept, RewindInside, ReplayResolves
<1>. QED
  BY <1>2, <1>3, <1>4, <1>5 DEF IInv

\* Lenient reading fills in what the chain lacks from a scan.
LEMMA FillMissingKeeps == ASSUME IInv, FillMissing PROVE IInv'
<1>1. /\ file \in Files /\ table \in Table /\ pc = "scan" /\ lenient /\ table.trailer # 0
      /\ \A o \in Objects : table.entries[o] = None \/ table.ext[o] = None
  BY DEF IInv, TypeOK, FillMissing, BeforeWalk, RebuiltAlone, MapsExclusive
<1>2. /\ pc' = "trailer" /\ table' \in {table, WithHeaders(table)}
      /\ UNCHANGED <<input, revisions, visited, current, rebuilt, reader, step, cache>>
  BY DEF FillMissing
<1>3. /\ table' \in Table /\ table'.trailer = table.trailer /\ table'.xref_offset = table.xref_offset
      /\ \A o \in Objects :
           /\ table'.entries[o] = None \/ table'.ext[o] = None
           /\ Lookup(table, o) # None => Lookup(table', o) = Lookup(table, o)
           /\ Lookup(table, o) = None => Lookup(table', o) \in {None} \cup Scanned(o)
  <2>1. CASE table' = table
    BY <1>1, <2>1
  <2>2. CASE table' = WithHeaders(table)
    BY <1>1, <2>2, ScanFills DEF Scanned
  <2>. QED
    BY <1>2, <2>1, <2>2
<1>4. TypeOK'
  BY <1>2, <1>3 DEF IInv, TypeOK, States, input
<1>5. EachSectionOnce'
  BY <1>2 DEF IInv, EachSectionOnce
<1>6. MapsExclusive'
  BY <1>3 DEF MapsExclusive
<1>7. BeforeWalk' /\ RebuiltAlone'
  BY <1>1, <1>2, <1>3 DEF IInv, BeforeWalk, RebuiltAlone
<1>8. WalkLinked'
  BY <1>1, <1>2, <1>3, FileStays DEF IInv, WalkLinked, Walking, Walked
<1>9. WalkResolves'
  <2>. SUFFICES ASSUME NEW o \in Objects
                PROVE  NewestWins(table', revisions, 1, o, {None} \cup Scanned(o))
    BY <1>2, FileStays DEF WalkResolves
  <2>1. NewestWins(table, revisions, 1, o, {None})
    BY <1>1 DEF IInv, WalkResolves, Walked
  <2>2. \A i \in 1..Len(revisions) :
           o \in Defined(Section(revisions[i])) => Placed(revisions[i], o) # None
    BY <1>1, ElementOfSeq, PlacedSomewhere DEF IInv, TypeOK
  <2>. QED
    BY <1>3, <2>1, <2>2 DEF NewestWins
<1>10. HistoryKept' /\ RewindInside' /\ ReplayResolves'
  BY <1>2 DEF HistoryKept, RewindInside, ReplayResolves
<1>. QED
  BY <1>4, <1>5, <1>6, <1>7, <1>8, <1>9, <1>10 DEF IInv

\* The table is rebuilt from a scan.
LEMMA RecoverKeeps == ASSUME IInv, Recover PROVE IInv'
<1>1. /\ pc = "recover" /\ UNCHANGED <<input, revisions, visited, current, reader, step, cache>>
      /\ revisions = <<>> /\ file \in Files
  BY DEF IInv, TypeOK, Recover, BeforeWalk
<1>2. \/ pc' = "failed" /\ UNCHANGED <<table, rebuilt>>
      \/ /\ table' = [WithHeaders(EmptyTable) EXCEPT !.trailer = 0]
         /\ rebuilt' \in {"ok", "bad", "encrypted"} /\ pc' = "trailer"
  BY DEF Recover
<1>3. table.trailer # 0
  BY <1>1 DEF IInv, RebuiltAlone
<1>4. /\ table' \in Table
      /\ \A o \in Objects : table'.entries[o] = None \/ table'.ext[o] = None
  <2>1. CASE UNCHANGED table
    BY <2>1 DEF IInv, TypeOK, MapsExclusive
  <2>2. CASE table' = [WithHeaders(EmptyTable) EXCEPT !.trailer = 0]
    <3>1. /\ WithHeaders(EmptyTable) \in Table
          /\ \A o \in Objects : WithHeaders(EmptyTable).entries[o] = None \/ WithHeaders(EmptyTable).ext[o] = None
      BY <1>1, EmptyTableFacts, ScanFills
    <3>. HIDE DEF WithHeaders, EmptyTable
    <3>. QED
      BY <2>2, <3>1 DEF Table
  <2>. QED
    BY <1>2, <2>1, <2>2
<1>5. pc' = "trailer" => table'.trailer = 0
  BY <1>2, EmptyTableFacts, ScanFills, <1>1 DEF Table
<1>6. TypeOK' /\ MapsExclusive'
  BY <1>1, <1>2, <1>4 DEF IInv, TypeOK, States, input, MapsExclusive
<1>7. EachSectionOnce' /\ BeforeWalk' /\ RebuiltAlone'
  BY <1>1, <1>2, <1>3 DEF IInv, EachSectionOnce, BeforeWalk, RebuiltAlone
<1>8. WalkLinked' /\ WalkResolves'
  BY <1>1, <1>2, <1>5 DEF WalkLinked, WalkResolves, Walking, Walked
<1>9. HistoryKept' /\ RewindInside' /\ ReplayResolves'
  BY <1>2 DEF HistoryKept, RewindInside, ReplayResolves
<1>. QED
  BY <1>6, <1>7, <1>8, <1>9 DEF IInv

\* The trailer is judged before the table is used.
LEMMA CheckTrailerKeeps == ASSUME IInv, CheckTrailer PROVE IInv'
<1>1. /\ pc = "trailer" /\ pc' \in {"open", "failed"}
      /\ UNCHANGED <<input, walk, rebuilt, reader, step, cache>>
  BY DEF CheckTrailer
<1>2. UNCHANGED <<file, lenient, recovery, table, revisions, visited, current>>
  BY <1>1 DEF input, walk
<1>3. TypeOK'
  BY <1>1, <1>2 DEF IInv, TypeOK, States
<1>4. EachSectionOnce' /\ MapsExclusive' /\ BeforeWalk' /\ RebuiltAlone'
  BY <1>1, <1>2 DEF IInv, EachSectionOnce, MapsExclusive, BeforeWalk, RebuiltAlone
<1>5. WalkLinked' /\ WalkResolves'
  BY <1>1, <1>2, FileStays DEF IInv, WalkLinked, WalkResolves, Walking, Walked
<1>6. HistoryKept' /\ RewindInside' /\ ReplayResolves'
  BY <1>1 DEF HistoryKept, RewindInside, ReplayResolves
<1>. QED
  BY <1>3, <1>4, <1>5, <1>6 DEF IInv

\* The oldest revision is asked for: the table is set aside and its chain walked anew.
LEMMA RewindKeeps == ASSUME IInv, Rewind PROVE IInv'
<1>1. pc = "open" /\ UNCHANGED <<input, rebuilt, step, cache>>
  BY DEF Rewind
<1>2. CASE pc' \in {"done", "refused"} /\ (pc' = "refused" => revisions # <<>>) /\ UNCHANGED <<walk, reader>>
  <2>1. UNCHANGED <<file, lenient, recovery, table, revisions, visited, current>>
    BY <1>1, <1>2 DEF input, walk
  <2>2. TypeOK'
    BY <1>1, <1>2, <2>1 DEF IInv, TypeOK, States
  <2>3. EachSectionOnce' /\ MapsExclusive' /\ BeforeWalk' /\ RebuiltAlone'
    BY <1>1, <1>2, <2>1 DEF IInv, EachSectionOnce, MapsExclusive, BeforeWalk, RebuiltAlone
  <2>4. WalkLinked' /\ WalkResolves' /\ HistoryKept' /\ RewindInside' /\ ReplayResolves'
    BY <1>2 DEF WalkLinked, WalkResolves, Walking, Walked, HistoryKept, RewindInside, ReplayResolves
  <2>. QED
    BY <2>2, <2>3, <2>4 DEF IInv
<1>3. CASE /\ revisions # <<>> /\ pc' = "rewind"
           /\ reader' = [table |-> table, revisions |-> revisions]
           /\ table' = EmptyTable /\ revisions' = <<>> /\ visited' = {}
           /\ current' = revisions[Len(revisions)]
  <2>1. /\ file \in Files /\ revisions \in Seq(Offsets) /\ Len(revisions) \in 1..Len(revisions)
        /\ revisions[Len(revisions)] \in Offsets
    BY <1>3, NotEmpty, ElementOfSeq DEF IInv, TypeOK
  <2>2. reader'.table = table /\ reader'.revisions = revisions
    BY <1>3
  <2>3. current' \in Offsets /\ current' # None /\ current' \in Members(revisions)
    BY <1>3, <2>1, OffsetsAssumption, NoneAssumption DEF Members
  <2>4. TypeOK' /\ MapsExclusive'
    BY <1>1, <1>3, <2>2, <2>3, EmptyTableFacts DEF IInv, TypeOK, States, input, MapsExclusive
  <2>5. EachSectionOnce' /\ BeforeWalk'
    BY <1>1, <1>3 DEF IInv, EachSectionOnce, BeforeWalk
  <2>10. RebuiltAlone'
    BY <1>3, NoneAssumption DEF RebuiltAlone, EmptyTable
  <2>6. WalkLinked'
    BY <1>3, <2>3 DEF WalkLinked
  <2>7. WalkResolves'
    <3>. SUFFICES ASSUME NEW o \in Objects PROVE NewestWins(table, revisions, 1, o, {None})'
      BY <1>3 DEF WalkResolves
    <3>1. NewestWins(EmptyTable, <<>>, 1, o, {None})
      BY EmptyResolves
    <3>. QED
      BY <1>1, <1>3, <3>1, FileStays
  <2>8. HistoryKept'
    <3>1. table.trailer # 0
      BY <1>3 DEF IInv, RebuiltAlone
    <3>2. Linked(revisions) /\ Closed(revisions) /\ table.xref_offset = revisions[1]
      BY <1>1, <1>3 DEF IInv, WalkLinked, Walked, Walking
    <3>3. \A o \in Objects : NewestWins(table, revisions, 1, o, {None} \cup Scanned(o))
      BY <1>1, <3>1 DEF IInv, WalkResolves, Walked
    <3>. QED
      BY <1>1, <1>3, <2>2, <3>2, <3>3, FileStays DEF HistoryKept
  <2>9. RewindInside' /\ ReplayResolves'
    BY <1>3, <2>2, <2>3 DEF RewindInside, ReplayResolves, Members, Oldest
  <2>. QED
    BY <2>4, <2>5, <2>6, <2>7, <2>8, <2>9, <2>10 DEF IInv
<1>. QED
  BY <1>2, <1>3 DEF Rewind

\* A step that only stops the replay or the walk that rewinds.
LEMMA StopKeeps ==
    ASSUME IInv, pc \in {"rewind", "snapshot", "replay"}, pc' \in {"refused", "done"},
           UNCHANGED <<input, walk, rebuilt, reader, step, cache>>
    PROVE  IInv'
<1>1. UNCHANGED <<file, lenient, recovery, table, revisions, visited, current>>
  BY DEF input, walk
<1>2. TypeOK'
  BY <1>1 DEF IInv, TypeOK, States
<1>3. EachSectionOnce' /\ MapsExclusive' /\ BeforeWalk' /\ RebuiltAlone'
  BY <1>1 DEF IInv, EachSectionOnce, MapsExclusive, BeforeWalk, RebuiltAlone
<1>4. WalkLinked' /\ WalkResolves' /\ HistoryKept' /\ RewindInside' /\ ReplayResolves'
  BY DEF WalkLinked, WalkResolves, Walking, Walked, HistoryKept, RewindInside, ReplayResolves
<1>. QED
  BY <1>2, <1>3, <1>4 DEF IInv

\* The snapshot of the oldest revision.
LEMMA TakeSnapshotKeeps == ASSUME IInv, TakeSnapshot PROVE IInv'
<1>1. pc = "snapshot" /\ UNCHANGED <<input, walk, rebuilt, reader, cache>>
  BY DEF TakeSnapshot
<1>2. CASE pc' = "refused" /\ UNCHANGED step
  BY <1>1, <1>2, StopKeeps
<1>3. CASE pc' = "replay" /\ step' = Len(reader.revisions)
  <2>1. UNCHANGED <<file, lenient, recovery, table, revisions, visited, current>>
    BY <1>1 DEF input, walk
  <2>2. /\ file \in Files /\ revisions \in Seq(Offsets) /\ reader.revisions \in Seq(Offsets)
        /\ table.trailer # 0
    BY <1>1 DEF IInv, TypeOK, RebuiltAlone
  <2>3. revisions # <<>> /\ reader.revisions # <<>> /\ revisions[1] = Oldest(reader.revisions)
    BY <1>1 DEF IInv, RewindInside, HistoryKept
  <2>4. /\ Linked(revisions) /\ table.xref_offset = revisions[1]
        /\ visited \subseteq Members(reader.revisions) /\ visited = Members(revisions)
        /\ cache = [o \in Objects |-> None]
    BY <1>1, <2>3 DEF IInv, WalkLinked, Walked, RewindInside, EachSectionOnce, Members, BeforeWalk, Walking
  <2>5. \A o \in Objects : NewestWins(table, revisions, 1, o, {None})
    BY <1>1, <2>2 DEF IInv, WalkResolves, Walked
  <2>. DEFINE n == Len(reader.revisions)
  <2>6. n \in Nat /\ n \in 1..n /\ reader.revisions[n] = revisions[1]
    BY <2>2, <2>3, NotEmpty DEF Oldest
  <2>7. /\ Len(revisions) \in Nat /\ 1 \in 1..Len(revisions) /\ (Len(revisions) = 1 \/ Len(revisions) > 1)
        /\ \A i \in 1..Len(revisions) : revisions[i] \in Offsets
    BY <2>2, <2>3, NotEmpty, ElementOfSeq
  <2>8. ASSUME NEW o \in Objects, o \in Defined(Section(reader.revisions[n]))
        PROVE  Lookup(table, o) = Placed(reader.revisions[n], o)
    <3>1. \A j \in 1..(1 - 1) : o \notin Defined(Section(revisions[j]))
      OBVIOUS
    <3>. QED
      BY <2>5, <2>6, <2>7, <2>8, <3>1 DEF NewestWins
  <2>9. ASSUME NEW o \in Objects, ChainEnds(reader.revisions),
               o \notin Defined(Section(reader.revisions[n]))
        PROVE  Lookup(table, o) = None
    <3>1. Section(revisions[1]).prev = None
      BY <2>6, <2>9 DEF ChainEnds
    <3>2. Len(revisions) = 1
      <4>. SUFFICES ASSUME Len(revisions) > 1 PROVE FALSE
        BY <2>7
      <4>1. Section(revisions[1]).prev = revisions[2] /\ revisions[2] \in Offsets
        BY <2>4, <2>7 DEF Linked
      <4>. QED
        BY <3>1, <4>1, OffsetsAssumption, NoneAssumption
    <3>3. \A i \in 1..Len(revisions) : o \notin Defined(Section(revisions[i]))
      BY <2>6, <2>9, <3>2
    <3>. QED
      BY <2>5, <3>3 DEF NewestWins
  <2>10. ASSUME NEW o \in Objects,
                \A i \in 1..Len(reader.revisions) : o \notin Defined(Section(reader.revisions[i]))
         PROVE  Lookup(table, o) = None
    <3>1. \A i \in 1..Len(revisions) : revisions[i] \in Members(reader.revisions)
      BY <2>4 DEF Members
    <3>2. \A i \in 1..Len(revisions) : o \notin Defined(Section(revisions[i]))
      BY <2>10, <3>1 DEF Members
    <3>. QED
      BY <2>5, <3>2 DEF NewestWins
  <2>11. ASSUME NEW o \in Objects
         PROVE  NewestWins(table, reader.revisions, n, o, Otherwise(table, reader.revisions, o))
    <3>1. \A i \in n..Len(reader.revisions) : i = n
      BY <2>6
    <3>2. n \in n..Len(reader.revisions)
      BY <2>6
    <3>. QED
      BY <2>8, <2>9, <3>1, <3>2 DEF NewestWins, Otherwise
  <2>12. ReplayResolves'
    <3>1. /\ step' \in 1..Len(reader.revisions) /\ table.xref_offset = reader.revisions[step']
      BY <1>3, <2>4, <2>6
    <3>3. \A o \in Objects : cache[o] = None
      BY <2>4
    <3>4. (step \in 1..Len(reader.revisions) /\ table.xref_offset = reader.revisions[step])'
      BY <1>1, <2>1, <3>1
    <3>5. ASSUME NEW o \in Objects
          PROVE  NewestWins(table, reader.revisions, step, o, Otherwise(table, reader.revisions, o))'
      BY <1>1, <1>3, <2>1, <2>11, FileStays
    <3>6. ASSUME NEW o \in Objects
          PROVE  ((\A i \in 1..Len(reader.revisions) : o \notin Defined(Section(reader.revisions[i])))
                    => Lookup(table, o) = None)'
      BY <1>1, <2>1, <2>10, FileStays DEF Lookup
    <3>. QED
      BY <1>1, <3>3, <3>4, <3>5, <3>6 DEF ReplayResolves
  <2>13. TypeOK'
    BY <1>1, <1>3, <2>1, <2>6 DEF IInv, TypeOK, States
  <2>14. EachSectionOnce' /\ MapsExclusive' /\ BeforeWalk' /\ RebuiltAlone'
    BY <1>1, <1>3, <2>1, <2>2 DEF IInv, EachSectionOnce, MapsExclusive, BeforeWalk, RebuiltAlone
  <2>15. WalkLinked' /\ WalkResolves' /\ RewindInside'
    BY <1>3 DEF WalkLinked, WalkResolves, Walking, Walked, RewindInside
  <2>16. HistoryKept'
    BY <1>1, <1>3, FileStays DEF IInv, HistoryKept
  <2>. QED
    BY <2>12, <2>13, <2>14, <2>15, <2>16 DEF IInv
<1>. QED
  BY <1>2, <1>3 DEF TakeSnapshot

\* An object of the revision is looked up and cached.
LEMMA ReadObjectKeeps == ASSUME IInv, NEW o \in Objects, ReadObject(o) PROVE IInv'
<1>1. /\ pc = "replay" /\ cache' = [cache EXCEPT ![o] = Lookup(table, o)]
      /\ UNCHANGED <<input, pc, walk, rebuilt, reader, step>>
  BY DEF ReadObject
<1>2. UNCHANGED <<file, lenient, recovery, table, revisions, visited, current>>
  BY <1>1 DEF input, walk
<1>3. cache \in [Objects -> Entry \cup {None}] /\ table \in Table
  BY DEF IInv, TypeOK
<1>4. \A p \in Objects : cache'[p] = IF p = o THEN Lookup(table, o) ELSE cache[p]
  BY <1>1, <1>3
<1>5. TypeOK'
  <2>1. cache' \in [Objects -> Entry \cup {None}]
    BY <1>1, <1>3, LookupFacts
  <2>. QED
    BY <1>1, <1>2, <2>1 DEF IInv, TypeOK
<1>6. EachSectionOnce' /\ MapsExclusive' /\ BeforeWalk' /\ RebuiltAlone'
  BY <1>1, <1>2 DEF IInv, EachSectionOnce, MapsExclusive, BeforeWalk, RebuiltAlone
<1>7. WalkLinked' /\ WalkResolves' /\ RewindInside'
  BY <1>1 DEF WalkLinked, WalkResolves, Walking, Walked, RewindInside
<1>8. HistoryKept'
  BY <1>1, FileStays DEF IInv, HistoryKept
<1>9. ReplayResolves'
  <2>1. (step \in 1..Len(reader.revisions) /\ table.xref_offset = reader.revisions[step])'
    BY <1>1, <1>2 DEF IInv, ReplayResolves
  <2>2. ASSUME NEW p \in Objects
        PROVE  NewestWins(table, reader.revisions, step, p, Otherwise(table, reader.revisions, p))'
    BY <1>1, <1>2, FileStays DEF IInv, ReplayResolves
  <2>3. ASSUME NEW p \in Objects
        PROVE  ((\A i \in 1..Len(reader.revisions) : p \notin Defined(Section(reader.revisions[i])))
                  => Lookup(table, p) = None)'
    BY <1>1, <1>2, FileStays DEF IInv, ReplayResolves, Lookup
  <2>4. ASSUME NEW p \in Objects
        PROVE  (cache[p] # None => cache[p] = Lookup(table, p))'
    BY <1>1, <1>2, <1>4 DEF IInv, ReplayResolves, Lookup
  <2>. QED
    BY <2>1, <2>2, <2>3, <2>4 DEF ReplayResolves
<1>. QED
  BY <1>5, <1>6, <1>7, <1>8, <1>9 DEF IInv

\* The history goes on to the next revision.
LEMMA AdvanceRevisionKeeps == ASSUME IInv, AdvanceRevision PROVE IInv'
<1>1. /\ pc = "replay" /\ step > 1
      /\ table' = Advanced(NextRevision)
      /\ \/ pc' = pc /\ step' = step - 1 /\ cache' = [o \in Objects |-> None]
         \/ pc' = "refused" /\ UNCHANGED <<step, cache>>
      /\ UNCHANGED <<input, revisions, visited, current, rebuilt, reader>>
  BY DEF AdvanceRevision
<1>2. /\ file \in Files /\ table \in Table /\ MapsExclusive
      /\ reader.revisions \in Seq(Offsets) /\ Len(reader.revisions) \in Nat
  BY LenProperties DEF IInv, TypeOK
<1>3. /\ step \in 1..Len(reader.revisions) /\ step \in 2..Len(reader.revisions)
      /\ step - 1 \in 1..Len(reader.revisions)
  BY <1>1, <1>2 DEF IInv, ReplayResolves
<1>4. NextRevision = reader.revisions[step - 1] /\ NextRevision \in Offsets
  BY <1>2, <1>3, ElementOfSeq DEF NextRevision
<1>5. /\ table' \in Table /\ table'.xref_offset = NextRevision /\ table'.trailer # 0
      /\ \A o \in Objects :
           /\ table'.entries[o] = None \/ table'.ext[o] = None
           /\ Lookup(table', o) =
                IF o \in Defined(Section(NextRevision)) THEN Placed(NextRevision, o) ELSE Lookup(table, o)
  <2>1. Advanced(NextRevision).xref_offset = NextRevision /\ Advanced(NextRevision).trailer # 0
    BY <1>4, OffsetsAssumption, NoneAssumption DEF Advanced
  <2>. QED
    BY <1>1, <1>2, <1>4, <2>1, AdvanceReplaces
<1>6. TypeOK'
  BY <1>1, <1>2, <1>3, <1>5 DEF IInv, TypeOK, States, input
<1>7. EachSectionOnce' /\ MapsExclusive' /\ BeforeWalk' /\ RebuiltAlone'
  BY <1>1, <1>5 DEF IInv, EachSectionOnce, MapsExclusive, BeforeWalk, RebuiltAlone
<1>8. WalkLinked' /\ WalkResolves' /\ RewindInside'
  BY <1>1 DEF WalkLinked, WalkResolves, Walking, Walked, RewindInside
<1>9. HistoryKept'
  BY <1>1, FileStays DEF IInv, HistoryKept
<1>10. ReplayResolves'
  <2>1. CASE pc' = "refused"
    BY <2>1 DEF ReplayResolves
  <2>2. CASE pc' = pc /\ step' = step - 1 /\ cache' = [o \in Objects |-> None]
    <3>1. (step \in 1..Len(reader.revisions) /\ table.xref_offset = reader.revisions[step])'
      BY <1>1, <1>3, <1>4, <1>5, <2>2
    <3>2. ASSUME NEW o \in Objects
          PROVE  NewestWins(table, reader.revisions, step, o, Otherwise(table, reader.revisions, o))'
      <4>1. NewestWins(table, reader.revisions, step, o, Otherwise(table, reader.revisions, o))
        BY <1>1 DEF IInv, ReplayResolves
      <4>2. Lookup(table', o) = IF o \in Defined(Section(reader.revisions[step - 1]))
                                THEN Placed(reader.revisions[step - 1], o) ELSE Lookup(table, o)
        BY <1>4, <1>5
      <4>3. ASSUME o \notin Defined(Section(reader.revisions[step - 1])),
                   Lookup(table, o) \in Otherwise(table, reader.revisions, o)
            PROVE  Lookup(table', o) \in Otherwise(table', reader.revisions, o)
        BY <4>2, <4>3 DEF Otherwise
      <4>4. NewestWins(table', reader.revisions, step - 1, o, Otherwise(table', reader.revisions, o))
        <5>1. CASE o \in Defined(Section(reader.revisions[step - 1]))
          <6>1. NewestWins(table', reader.revisions, step - 1, o, Otherwise(table, reader.revisions, o))
            BY <1>2, <1>3, <4>1, <4>2, NewerSection
          <6>2. step - 1 \in (step - 1)..Len(reader.revisions)
            BY <1>2, <1>3
          <6>. QED
            BY <5>1, <6>1, <6>2 DEF NewestWins
        <5>2. CASE o \notin Defined(Section(reader.revisions[step - 1]))
          BY <1>2, <1>3, <4>1, <4>2, <4>3, <5>2, NewerSection
        <5>. QED
          BY <5>1, <5>2
      <4>. QED
        BY <1>1, <2>2, <4>4, FileStays
    <3>3. ASSUME NEW o \in Objects,
                 \A i \in 1..Len(reader.revisions) : o \notin Defined(Section(reader.revisions[i]))
          PROVE  Lookup(table', o) = None
      BY <1>1, <1>3, <1>4, <1>5, <3>3 DEF IInv, ReplayResolves
    <3>4. ASSUME NEW o \in Objects
          PROVE  ((\A i \in 1..Len(reader.revisions) : o \notin Defined(Section(reader.revisions[i])))
                    => Lookup(table, o) = None)'
      BY <1>1, <3>3, FileStays
    <3>5. \A o \in Objects : cache'[o] = None
      BY <2>2
    <3>. QED
      BY <3>1, <3>2, <3>4, <3>5 DEF ReplayResolves
  <2>. QED
    BY <1>1, <2>1, <2>2
<1>. QED
  BY <1>6, <1>7, <1>8, <1>9, <1>10 DEF IInv

\* Nothing happens.
LEMMA StutterKeeps == ASSUME IInv, UNCHANGED vars PROVE IInv'
<1>1. /\ UNCHANGED <<file, lenient, recovery, pc, table, revisions, visited, current, rebuilt>>
      /\ UNCHANGED <<input, reader, step, cache>>
  BY DEF vars, input, walk
<1>2. TypeOK' /\ EachSectionOnce' /\ MapsExclusive' /\ BeforeWalk' /\ RebuiltAlone'
  BY <1>1 DEF IInv, TypeOK, EachSectionOnce, MapsExclusive, BeforeWalk, RebuiltAlone
<1>3. WalkLinked' /\ HistoryKept' /\ RewindInside'
  BY <1>1, FileStays DEF IInv, WalkLinked, Walking, Walked, HistoryKept, RewindInside
<1>4. WalkResolves'
  BY <1>1, FileStays DEF IInv, WalkResolves, Walked
<1>5. ReplayResolves'
  <2>1. \A o : Lookup(table, o)' = Lookup(table, o)
    BY <1>1 DEF Lookup
  <2>2. (step \in 1..Len(reader.revisions) /\ table.xref_offset = reader.revisions[step])'
        \/ pc' # "replay"
    BY <1>1 DEF IInv, ReplayResolves
  <2>3. ASSUME NEW o \in Objects, pc = "replay"
        PROVE  NewestWins(table, reader.revisions, step, o, Otherwise(table, reader.revisions, o))'
    BY <1>1, <2>3, FileStays DEF IInv, ReplayResolves
  <2>4. ASSUME NEW o \in Objects, pc = "replay"
        PROVE  ((\A i \in 1..Len(reader.revisions) : o \notin Defined(Section(reader.revisions[i])))
                  => Lookup(table, o) = None)'
    BY <1>1, <2>1, <2>4, FileStays DEF IInv, ReplayResolves
  <2>5. ASSUME NEW o \in Objects, pc = "replay"
        PROVE  (cache[o] # None => cache[o] = Lookup(table, o))'
    BY <1>1, <2>1, <2>5 DEF IInv, ReplayResolves
  <2>. QED
    BY <1>1, <2>2, <2>3, <2>4, <2>5 DEF ReplayResolves
<1>. QED
  BY <1>2, <1>3, <1>4, <1>5 DEF IInv

\* Every step keeps the invariant.
THEOREM StepKeeps == IInv /\ [Next]_vars => IInv'
<1>. SUFFICES ASSUME IInv, [Next]_vars PROVE IInv'
  OBVIOUS
<1>1. CASE RewindFails \/ RefuseRevision \/ EndReplay
  BY <1>1, StopKeeps DEF RewindFails, RefuseRevision, EndReplay
<1>2. CASE Terminated \/ UNCHANGED vars
  BY <1>2, StutterKeeps DEF Terminated
<1>3. CASE \E o \in Objects : ReadObject(o)
  BY <1>3, ReadObjectKeeps
<1>. QED
  BY <1>1, <1>2, <1>3, FindXRefKeeps, MergeSectionKeeps, EndWalkKeeps, FallBackKeeps, FillMissingKeeps,
     RecoverKeeps, CheckTrailerKeeps, RewindKeeps, TakeSnapshotKeeps, AdvanceRevisionKeeps DEF Next

\* The inductive invariant holds in every reachable state.
THEOREM Invariance == Spec => []IInv
BY InitEstablishes, StepKeeps, PTL DEF Spec

-----------------------------------------------------------------------------
(* What the invariant says. *)

\* However the sections of a file refer to each other, cycles included, each is
\* merged once and into one map (parse_revision, issue #531), in the walk, after
\* the hybrid scan, in a recovered table and in every replayed revision.
THEOREM SectionsMergeOnceAlways == Spec => []SectionsMergeOnce
<1>1. IInv => SectionsMergeOnce
  BY DEF IInv, SectionsMergeOnce
<1>. QED
  BY <1>1, Invariance, PTL

\* In every chain of any length the newest section that lists an object decides
\* where it is, deleted objects included; the hybrid scan only supplies objects
\* that no section lists.
THEOREM NewestRevisionWinsAlways == Spec => []NewestRevisionWins
<1>1. IInv => NewestRevisionWins
  <2>. SUFFICES ASSUME IInv, Walking \/ pc \in {"scan", "trailer", "open", "snapshot"},
                       table.trailer # 0, NEW o \in Objects
                PROVE  NewestWins(table, revisions, 1, o, {None} \cup Scanned(o))
    BY DEF NewestRevisionWins
  <2>1. NewestWins(table, revisions, 1, o,
                   IF pc \in {"trailer", "open"} THEN {None} \cup Scanned(o) ELSE {None})
    BY DEF IInv, WalkResolves, Walked, Walking
  <2>. QED
    BY <2>1, MoreAnswers
<1>. QED
  BY <1>1, Invariance, PTL

\* The replayed history of a chain that ends is never told by newer bytes: not by
\* the table the snapshot resolves with, and not by an object cached before
\* advance_revision.
THEOREM HistoryIsIsolatedAlways == Spec => []HistoryIsIsolated
<1>1. IInv => HistoryIsIsolated
  BY DEF IInv, HistoryIsIsolated, ReplayResolves, Otherwise
<1>. QED
  BY <1>1, Invariance, PTL

\* A chain that was walked from its newest section can be replayed from its
\* oldest one, to the same table, also if its oldest section leads back into it.
THEOREM ReplayAgreesAlways == Spec => []ReplayAgrees
<1>1. IInv => ReplayAgrees
  <2>. SUFFICES ASSUME IInv, pc = "replay" PROVE ReplayAgrees
    BY DEF ReplayAgrees, OwnChainFollows, ReplayReachesLatest
  <2>1. /\ reader.revisions \in Seq(Offsets) /\ Len(reader.revisions) \in Nat
        /\ step \in 1..Len(reader.revisions) /\ table.xref_offset = reader.revisions[step]
        /\ Linked(reader.revisions) /\ reader.table.xref_offset = reader.revisions[1]
    BY LenProperties DEF IInv, TypeOK, ReplayResolves, HistoryKept
  <2>2. OwnChainFollows
    <3>. SUFFICES ASSUME step > 1 PROVE Section(NextRevision).prev = table.xref_offset
      BY DEF OwnChainFollows
    <3>1. step - 1 \in 1..(Len(reader.revisions) - 1) /\ (step - 1) + 1 = step
      BY <2>1
    <3>. QED
      BY <2>1, <3>1 DEF Linked, NextRevision
  <2>3. ReplayReachesLatest
    <3>. SUFFICES ASSUME step = 1
                  PROVE  /\ table.xref_offset = reader.table.xref_offset
                         /\ \A o \in Objects :
                              \/ Lookup(table, o) = Lookup(reader.table, o)
                              \/ Lookup(table, o) = None /\ Lookup(reader.table, o) \in Scanned(o)
      BY DEF ReplayReachesLatest
    <3>1. table.xref_offset = reader.table.xref_offset
      BY <2>1
    <3>2. ASSUME NEW o \in Objects
          PROVE  \/ Lookup(table, o) = Lookup(reader.table, o)
                 \/ Lookup(table, o) = None /\ Lookup(reader.table, o) \in Scanned(o)
      <4>1. /\ NewestWins(table, reader.revisions, 1, o, Otherwise(table, reader.revisions, o))
            /\ NewestWins(reader.table, reader.revisions, 1, o, {None} \cup Scanned(o))
            /\ (\A i \in 1..Len(reader.revisions) : o \notin Defined(Section(reader.revisions[i])))
                 => Lookup(table, o) = None
        BY DEF IInv, ReplayResolves, HistoryKept
      <4>2. \/ Lookup(table, o) = Lookup(reader.table, o)
            \/ /\ Lookup(reader.table, o) \in {None} \cup Scanned(o)
               /\ \A i \in 1..Len(reader.revisions) : o \notin Defined(Section(reader.revisions[i]))
        BY <2>1, <4>1, NewestAgree
      <4>. QED
        BY <4>1, <4>2
    <3>. QED
      BY <3>1, <3>2
  <2>. QED
    BY <2>2, <2>3 DEF ReplayAgrees
<1>. QED
  BY <1>1, Invariance, PTL
=============================================================================
