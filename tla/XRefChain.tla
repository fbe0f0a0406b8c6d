------------------------------ MODULE XRefChain ------------------------------
(***************************************************************************)
(* How oxidize-pdf resolves the cross-reference sections of a PDF file:    *)
(* XRefTable::parse_with_options (the walk along /Prev, the hybrid scan,   *)
(* the recovery scan), PdfReader::at_revision and advance_revision, and    *)
(* the loop of signatures/permissions/field_lock.rs that replays the       *)
(* history of a signed file.                                               *)
(*                                                                         *)
(* A file is its sections by byte offset, the offset `startxref' gives and *)
(* the object headers a scan of the bytes finds.  The location of an       *)
(* object is the offset of the section that places it, so that two         *)
(* revisions of an object are told apart and their bytes need no model.    *)
(***************************************************************************)
EXTENDS Naturals, Sequences, FiniteSets

CONSTANTS Objects,      \* the object numbers considered
          Offsets,      \* byte offsets at which a section may be found
          Files,        \* the files considered
          None

ASSUME ObjectsAssumption == Objects \subseteq Nat
ASSUME OffsetsAssumption == IsFiniteSet(Offsets) /\ Offsets \subseteq Nat \ {0}
ASSUME NoneAssumption == None \notin Nat \cup [used : BOOLEAN, at : Nat]

\* What is read at an offset.  "junk" is no section for any option, "sloppy"
\* one that only the lenient lexer accepts.  A section without a trailer
\* dictionary has no /Prev and no /Size.
Sections ==
    {t \in [form : {"table", "stream", "sloppy", "junk"},
            plain : SUBSET Objects, freed : SUBSET Objects, packed : SUBSET Objects,
            prev : Offsets \cup {None}, size : Nat,
            trailer : {"none", "ok", "bad", "encrypted"}] :
        /\ t.plain \cap t.freed = {} /\ t.packed \cap (t.plain \cup t.freed) = {}
        /\ t.form # "stream" => t.packed = {}
        /\ t.form = "stream" => t.trailer # "none"
        /\ t.trailer = "none" => t.prev = None}

ASSUME FilesAssumption ==
    Files \subseteq [sec : [Offsets -> Sections], start : Offsets \cup {None},
                     scan : [Objects -> Offsets \cup {None}]]

Entry == [used : BOOLEAN, at : Offsets \cup {0}]
Dummy == [used |-> TRUE, at |-> 0]      \* stands in entries for a packed object

Table == [entries : [Objects -> Entry \cup {None}],
          ext : [Objects -> Offsets \cup {None}],       \* compressed_info
          trailer : Offsets \cup {0, None},             \* whose trailer; 0: rebuilt
          xref_offset : Offsets \cup {0}]

EmptyTable == [entries |-> [o \in Objects |-> None], ext |-> [o \in Objects |-> None],
               trailer |-> None, xref_offset |-> 0]

VARIABLES
    file, lenient, recovery,    \* the bytes and the ParseOptions
    pc,
    table, revisions,   \* the XRefTable being built or open, newest first
    visited, current,   \* visited_offsets and current_offset of the walk
    rebuilt,            \* trailer of a reconstructed table: what was found
    reader,             \* the open reader's table, revisions kept aside
    step,               \* revision of the history the snapshot is at
    cache               \* object_cache of the snapshot

input == <<file, lenient, recovery>>
walk == <<table, revisions, visited, current>>
vars == <<input, pc, walk, rebuilt, reader, step, cache>>

States == {"find", "walk", "scan", "recover", "trailer", "open",
           "rewind", "snapshot", "replay", "done", "failed", "refused"}

Init ==
    /\ file \in Files /\ lenient \in BOOLEAN /\ recovery \in BOOLEAN
    /\ pc = "find"
    /\ table = EmptyTable /\ revisions = <<>> /\ visited = {} /\ current = None
    /\ rebuilt = "none"
    /\ reader = [table |-> EmptyTable, revisions |-> <<>>]
    /\ step = 0
    /\ cache = [o \in Objects |-> None]

(***************************************************************************)
(* One section.                                                            *)
(***************************************************************************)
Section(s) == file.sec[s]
Defined(t) == t.plain \cup t.freed \cup t.packed

\* parse_primary_with_options succeeds; `soft' is options.lenient_syntax.  A
\* classic table must not list an object at or above its trailer's /Size.
Parses(t, soft) ==
    /\ t.form = "junk" => FALSE
    /\ t.form = "sloppy" => soft
    /\ t.form # "stream" /\ t.trailer # "none" => \A o \in Defined(t) : o < t.size

\* A packed object is entered in both maps, in entries at offset 0.
SectionEntry(s, o) ==
    IF o \in Section(s).plain THEN [used |-> TRUE, at |-> s]
    ELSE IF o \in Section(s).freed THEN [used |-> FALSE, at |-> s]
    ELSE IF o \in Section(s).packed THEN Dummy
    ELSE None
SectionExt(s, o) == IF o \in Section(s).packed THEN s ELSE None

(***************************************************************************)
(* Faulty variants of the definitions below, one plausible slip each.      *)
(* None is part of Next: each is put in the place of the definition it     *)
(* names to see that a property notices.                                   *)
(***************************************************************************)
\* The merge without the test for a newer compressed entry.
MergedEntryOverPacked(s, o) ==
    IF SectionEntry(s, o) # None /\ SectionExt(s, o) = None /\ table.entries[o] = None
    THEN SectionEntry(s, o) ELSE table.entries[o]

\* Headers found by the scan replacing entries that are merely free.
WithHeadersOverFree(tb) ==
    [tb EXCEPT !.entries =
        [o \in Objects |-> IF tb.ext[o] = None /\ file.scan[o] # None
                              /\ (tb.entries[o] = None \/ ~tb.entries[o].used)
                           THEN [used |-> TRUE, at |-> file.scan[o]] ELSE tb.entries[o]]]

\* advance_revision that leaves the compressed location of a rewritten object.
AdvancedKeepingPacked(s) ==
    [entries |-> [o \in Objects |-> IF SectionExt(s, o) # None THEN None
                                    ELSE IF SectionEntry(s, o) # None THEN SectionEntry(s, o)
                                    ELSE table.entries[o]],
     ext |-> [o \in Objects |-> IF SectionExt(s, o) # None THEN SectionExt(s, o) ELSE table.ext[o]],
     trailer |-> IF Section(s).trailer = "none" THEN None ELSE s,
     xref_offset |-> s]

\* advance_revision of the reader without object_cache.clear().
AdvanceRevisionCached ==
    /\ pc = "replay" /\ step > 1
    /\ LET s == reader.revisions[step - 1] IN
       /\ Parses(Section(s), FALSE) /\ Section(s).prev = table.xref_offset
       /\ table' = [entries |-> [o \in Objects |-> IF SectionExt(s, o) # None THEN None
                                    ELSE IF SectionEntry(s, o) # None THEN SectionEntry(s, o)
                                    ELSE table.entries[o]],
                    ext |-> [o \in Objects |-> IF SectionExt(s, o) # None THEN SectionExt(s, o)
                                ELSE IF SectionEntry(s, o) # None THEN None ELSE table.ext[o]],
                    trailer |-> s, xref_offset |-> s]
       /\ Section(s).trailer = "ok"
    /\ step' = step - 1
    /\ UNCHANGED <<input, pc, revisions, visited, current, rebuilt, reader, cache>>

(***************************************************************************)
(* The walk along /Prev (parse_revision), for the latest revision ("walk") *)
(* and for a historical one ("rewind").                                    *)
(***************************************************************************)
Soft == lenient /\ pc = "walk"

\* Older sections only fill what newer ones left open, the two maps of the
\* merged table staying exclusive.
MergedEntry(s, o) ==
    IF SectionEntry(s, o) # None /\ SectionExt(s, o) = None /\ table.ext[o] = None
       /\ table.entries[o] = None
    THEN SectionEntry(s, o) ELSE table.entries[o]
MergedExt(s, o) ==
    IF SectionExt(s, o) # None /\ MergedEntry(s, o) = None /\ table.ext[o] = None
    THEN SectionExt(s, o) ELSE table.ext[o]

Merged(s) ==
    [entries |-> [o \in Objects |-> MergedEntry(s, o)],
     ext |-> [o \in Objects |-> MergedExt(s, o)],
     trailer |-> IF table.trailer = None /\ Section(s).trailer # "none" THEN s ELSE table.trailer,
     xref_offset |-> IF table.trailer = None THEN s ELSE table.xref_offset]

WalkEnded == current = None \/ current \in visited
Walking == pc \in {"walk", "rewind"}

MergeSection ==
    /\ Walking /\ ~WalkEnded /\ Parses(Section(current), Soft)
    /\ visited' = visited \cup {current}
    /\ revisions' = Append(revisions, current)
    /\ table' = Merged(current)
    /\ current' = Section(current).prev
    /\ UNCHANGED <<input, pc, rebuilt, reader, step, cache>>

EndWalk ==
    /\ Walking /\ WalkEnded
    /\ pc' = IF pc = "rewind" THEN "snapshot" ELSE IF lenient THEN "scan" ELSE "trailer"
    /\ UNCHANGED <<input, walk, rebuilt, reader, step, cache>>

(***************************************************************************)
(* Opening a file (parse_with_options, then PdfReader::new_with_options).  *)
(***************************************************************************)
\* The last startxref of the file's final kilobyte.
FindXRef ==
    /\ pc = "find" /\ file.start # None
    /\ current' = file.start /\ pc' = "walk"
    /\ UNCHANGED <<input, table, revisions, visited, rebuilt, reader, step, cache>>

\* No startxref, or a section of the chain that does not parse: the partial
\* table is dropped and the file is scanned, if the options allow it.
FallBack ==
    /\ \/ pc = "find" /\ file.start = None
       \/ pc = "walk" /\ ~WalkEnded /\ ~Parses(Section(current), Soft)
    /\ pc' = IF recovery THEN "recover" ELSE "failed"
    /\ table' = EmptyTable /\ revisions' = <<>> /\ visited' = {} /\ current' = None
    /\ UNCHANGED <<input, rebuilt, reader, step, cache>>

\* add_headers_latest_wins: `scan' already holds the last header of an object.
WithHeaders(tb) ==
    [tb EXCEPT !.entries =
        [o \in Objects |-> IF tb.entries[o] = None /\ tb.ext[o] = None /\ file.scan[o] # None
                           THEN [used |-> TRUE, at |-> file.scan[o]] ELSE tb.entries[o]]]

\* scan_and_fill_missing_objects; an I/O error in it is only logged.
FillMissing ==
    /\ pc = "scan"
    /\ table' \in {table, WithHeaders(table)}
    /\ pc' = "trailer"
    /\ UNCHANGED <<input, revisions, visited, current, rebuilt, reader, step, cache>>

\* parse_with_recovery_options: the table of all headers found, with a
\* trailer that has a /Root if a catalog was recognised and keeps /Encrypt.
Recover ==
    /\ pc = "recover"
    /\ IF \A o \in Objects : file.scan[o] = None
       THEN pc' = "failed" /\ UNCHANGED <<table, rebuilt>>
       ELSE /\ table' = [WithHeaders(EmptyTable) EXCEPT !.trailer = 0]
            /\ rebuilt' \in {"ok", "bad", "encrypted"}
            /\ pc' = "trailer"
    /\ UNCHANGED <<input, revisions, visited, current, reader, step, cache>>

TrailerOf(tb) == IF tb.trailer = None THEN "none"
                 ELSE IF tb.trailer = 0 THEN rebuilt ELSE Section(tb.trailer).trailer

\* The trailer must have /Size and /Root; an encryption dictionary that does
\* not load fails the open.
CheckTrailer ==
    /\ pc = "trailer"
    /\ pc' \in CASE TrailerOf(table) = "ok" -> {"open"}
              [] TrailerOf(table) = "encrypted" -> {"open", "failed"}
              [] OTHER -> {"failed"}
    /\ UNCHANGED <<input, walk, rebuilt, reader, step, cache>>

(***************************************************************************)
(* The history of an open file (enforce_history).                          *)
(***************************************************************************)
\* at_revision on the oldest revision; a table without revisions (recovered)
\* has no history, an encrypted file none that may be read.
Rewind ==
    /\ pc = "open"
    /\ IF revisions = <<>> \/ TrailerOf(table) = "encrypted"
       THEN /\ pc' = IF revisions = <<>> THEN "done" ELSE "refused"
            /\ UNCHANGED <<walk, reader>>
       ELSE /\ reader' = [table |-> table, revisions |-> revisions]
            /\ table' = EmptyTable /\ revisions' = <<>> /\ visited' = {}
            /\ current' = revisions[Len(revisions)]
            /\ pc' = "rewind"
    /\ UNCHANGED <<input, rebuilt, step, cache>>

\* Historical readers parse strictly and never recover.
RewindFails ==
    /\ pc = "rewind" /\ ~WalkEnded /\ ~Parses(Section(current), Soft)
    /\ pc' = "refused"
    /\ UNCHANGED <<input, walk, rebuilt, reader, step, cache>>

TakeSnapshot ==
    /\ pc = "snapshot"
    /\ IF TrailerOf(table) = "ok"
       THEN pc' = "replay" /\ step' = Len(reader.revisions)
       ELSE pc' = "refused" /\ UNCHANGED step
    /\ UNCHANGED <<input, walk, rebuilt, reader, cache>>

\* What load_object_from_disk finds for an object number: the object stream
\* first, then the plain entry; an entry at offset 0 is an error.
Lookup(tb, o) == IF tb.ext[o] # None THEN [used |-> TRUE, at |-> tb.ext[o]] ELSE tb.entries[o]

ReadObject(o) ==
    /\ pc = "replay" /\ cache[o] = None
    /\ Lookup(table, o) # None /\ Lookup(table, o).at # 0
    /\ cache' = [cache EXCEPT ![o] = Lookup(table, o)]
    /\ UNCHANGED <<input, pc, walk, rebuilt, reader, step>>

\* XRefTable::advance_revision
Advanced(s) ==
    [entries |-> [o \in Objects |-> IF SectionExt(s, o) # None THEN None
                                    ELSE IF SectionEntry(s, o) # None THEN SectionEntry(s, o)
                                    ELSE table.entries[o]],
     ext |-> [o \in Objects |-> IF SectionExt(s, o) # None THEN SectionExt(s, o)
                                ELSE IF SectionEntry(s, o) # None THEN None ELSE table.ext[o]],
     trailer |-> IF Section(s).trailer = "none" THEN None ELSE s,
     xref_offset |-> s]

NextRevision == reader.revisions[step - 1]
Follows(s) == Parses(Section(s), FALSE) /\ Section(s).prev = table.xref_offset

\* PdfReader::advance_revision: the table moves on before the new trailer is
\* judged, the caches are dropped only after it was accepted.
AdvanceRevision ==
    /\ pc = "replay" /\ step > 1 /\ Follows(NextRevision)
    /\ table' = Advanced(NextRevision)
    /\ IF Section(NextRevision).trailer = "ok"
       THEN step' = step - 1 /\ cache' = [o \in Objects |-> None] /\ UNCHANGED pc
       ELSE pc' = "refused" /\ UNCHANGED <<step, cache>>
    /\ UNCHANGED <<input, revisions, visited, current, rebuilt, reader>>

RefuseRevision ==
    /\ pc = "replay" /\ step > 1 /\ ~Follows(NextRevision)
    /\ pc' = "refused"
    /\ UNCHANGED <<input, walk, rebuilt, reader, step, cache>>

EndReplay ==
    /\ pc = "replay" /\ step = 1 /\ pc' = "done"
    /\ UNCHANGED <<input, walk, rebuilt, reader, step, cache>>

Terminated == pc \in {"done", "failed", "refused"} /\ UNCHANGED vars

Next ==
    \/ FindXRef \/ MergeSection \/ EndWalk \/ FallBack
    \/ FillMissing \/ Recover \/ CheckTrailer
    \/ Rewind \/ RewindFails \/ TakeSnapshot
    \/ \E o \in Objects : ReadObject(o)
    \/ AdvanceRevision \/ RefuseRevision \/ EndReplay
    \/ Terminated

Spec == Init /\ [][Next]_vars

(******************************* Properties ********************************)

\* Types of the variables.
TypeOK ==
    /\ file \in Files /\ lenient \in BOOLEAN /\ recovery \in BOOLEAN
    /\ pc \in States
    /\ table \in Table /\ reader.table \in Table
    /\ revisions \in Seq(Offsets) /\ reader.revisions \in Seq(Offsets)
    /\ visited \subseteq Offsets /\ current \in Offsets \cup {None}
    /\ rebuilt \in {"none", "ok", "bad", "encrypted"}
    /\ step \in Nat
    /\ cache \in [Objects -> Entry \cup {None}]

\* parse_revision reads a section once, whatever /Prev says: the revisions it
\* records are distinct and are the offsets it visited.
EachSectionOnce ==
    /\ visited = {revisions[i] : i \in 1..Len(revisions)}
    /\ \A i, j \in 1..Len(revisions) : revisions[i] = revisions[j] => i = j

\* The comment of parse_revision: the two maps stay mutually exclusive, so
\* that resolution cannot prefer a stale object-stream location (issue #531);
\* here for the merged table, the hybrid scan and every replayed revision.
MapsExclusive == \A o \in Objects : table.entries[o] = None \/ table.ext[o] = None

\* Each section of the chain is merged once, also one whose /Prev leads back into
\* the chain, and into one of the maps; the variables keep their types.
SectionsMergeOnce == TypeOK /\ EachSectionOnce /\ MapsExclusive

\* Where a section puts an object it lists.
Placed(s, o) == IF o \in Section(s).packed THEN [used |-> TRUE, at |-> s] ELSE SectionEntry(s, o)

\* Object o resolves in tb to its entry in the newest of the revisions
\* revs[first], revs[first + 1], ... that lists it; if none does, to an answer
\* in other.
NewestWins(tb, revs, first, o, other) ==
    /\ \A i \in first..Len(revs) :
          (o \in Defined(Section(revs[i]))
           /\ \A j \in first..(i - 1) : o \notin Defined(Section(revs[j])))
          => Lookup(tb, o) = Placed(revs[i], o)
    /\ (\A i \in first..Len(revs) : o \notin Defined(Section(revs[i]))) => Lookup(tb, o) \in other

Scanned(o) == IF lenient /\ file.scan[o] # None THEN {[used |-> TRUE, at |-> file.scan[o]]} ELSE {}

\* At every point of the walk, and in the table that parse_with_options
\* returns, an object is what the newest section of the chain listing it says,
\* deleted objects included; bytes found by the hybrid scan only supply objects
\* that no section lists.
NewestRevisionWins ==
    (Walking \/ pc \in {"scan", "trailer", "open", "snapshot"}) /\ table.trailer # 0 =>
        \A o \in Objects : NewestWins(table, revisions, 1, o, {None} \cup Scanned(o))

\* A chain whose oldest section has no /Prev (and not one that leads back).
ChainEnds(revs) == Section(revs[Len(revs)]).prev = None

\* The comment of at_revision: later bytes cannot supply historical objects.
\* While the history of a chain that ends is replayed, the snapshot at a
\* revision, and every object already read from it, is what that revision and
\* the older ones say.
HistoryIsIsolated ==
    (pc = "replay" /\ ChainEnds(reader.revisions)) =>
        \A o \in Objects :
            /\ NewestWins(table, reader.revisions, step, o, {None})
            /\ cache[o] # None => cache[o] = Lookup(table, o)

\* advance_revision, applied from the oldest revision on, arrives where
\* parse_revision arrives from the newest: replayed to the end, the history is
\* the open reader's own view without what the hybrid scan added to it.
ReplayReachesLatest ==
    (pc = "replay" /\ step = 1) =>
        /\ table.xref_offset = reader.table.xref_offset
        /\ \A o \in Objects :
             \/ Lookup(table, o) = Lookup(reader.table, o)
             \/ Lookup(table, o) = None /\ Lookup(reader.table, o) \in Scanned(o)

\* The /Prev check of advance_revision refuses no revision of the chain that
\* the reader itself walked.
OwnChainFollows ==
    (pc = "replay" /\ step > 1) => Section(NextRevision).prev = table.xref_offset

\* Replaying a chain that was walked goes all the way, to the table of the walk.
ReplayAgrees == OwnChainFollows /\ ReplayReachesLatest
=============================================================================
