------------------------------ MODULE PdfWriter ------------------------------
(***************************************************************************)
(* PdfWriter of writer/pdf_writer: how objects get their numbers and       *)
(* positions, which of them are packed, and the cross-reference data that  *)
(* ends the file.  write_document writes a file, write_incremental_document *)
(* appends a revision to one.                                              *)
(*                                                                         *)
(* What pages, fonts and forms write is any sequence of allocations and of *)
(* writes of what was allocated; a position is an index into the bodies    *)
(* that are written.                                                       *)
(***************************************************************************)
EXTENDS Naturals, Sequences, FiniteSets, FiniteSetsExt

CONSTANTS MaxNumber,        \* bound: the largest object number
          MaxAllocated,     \* bound: the largest number the writer allocates
          StreamBase,       \* the number of the first object stream, 1,000,000 in the code
          MaxPerStream,     \* max_objects_per_stream, 100 in the code
          Bases,            \* the files that are appended to
          None

Numbers == 1..MaxNumber

\* What matters of a base file: the numbers its cross-reference table refers
\* to, those of its pages, the trailer.
Base == [objects : SUBSET Numbers, pages : SUBSET Numbers, size : Nat, encrypted : BOOLEAN]

ASSUME BoundsAssumption ==
    /\ MaxNumber \in Nat /\ MaxAllocated \in 4..MaxNumber
    /\ StreamBase \in Nat \ {0} /\ MaxPerStream \in Nat \ {0}
    /\ MaxAllocated + StreamBase <= MaxNumber /\ MaxAllocated + 2 <= MaxNumber
\* The bounds leave room for what begins a revision.
ASSUME BasesAssumption ==
    \A b \in Bases : /\ b \in Base /\ b.pages \subseteq b.objects
                     /\ b.size + 2 <= MaxAllocated
                     /\ \A n \in b.objects : n + 3 <= MaxAllocated

\* An object as it is written: "key" is the number its key was derived from,
\* 0 in clear.  A draft is the page tree that an incremental write replaces.
Object == [n : Numbers, kind : {"stream", "plain", "draft", "pack", "xref"}, key : {0} \cup Numbers]
ASSUME NoneAssumption == None \notin Nat \cup Object

VARIABLES
    config,         \* WriterConfig: use_object_streams, use_xref_streams
    encryption,     \* whether the document has an encryption
    base,           \* the file that is appended to, None for write_document
    info_policy,    \* IncrementalInfoPolicy
    phase,
    next_object_id, catalog_id, pages_id, info_id, encrypt_obj_id,
    owed,           \* numbers allocated for objects that are still to be written
    bodies,         \* the objects in the file
    xref_positions, buffered_objects, compressed_object_map,
    trailer,        \* /Size, /Encrypt and the form of the cross-reference data
    written         \* history: the object last written under a number

request == <<config, encryption, base, info_policy>>
ids == <<next_object_id, catalog_id, pages_id, info_id, encrypt_obj_id>>
output == <<bodies, xref_positions, buffered_objects, compressed_object_map, written>>
vars == <<request, phase, ids, owed, output, trailer>>

Init ==
    /\ config \in [use_object_streams : BOOLEAN, use_xref_streams : BOOLEAN]
    /\ base \in Bases \cup {None}
    \* write_incremental_document sets up no encryption, whatever the document asks.
    /\ encryption \in IF base = None THEN BOOLEAN ELSE {FALSE}
    /\ info_policy \in {"preserve", "replace"}
    /\ phase = "start" /\ next_object_id = 1
    /\ catalog_id = None /\ pages_id = None /\ info_id = None /\ encrypt_obj_id = None
    /\ owed = {} /\ bodies = <<>> /\ xref_positions = [n \in Numbers |-> 0]
    /\ buffered_objects = [n \in Numbers |-> None] /\ compressed_object_map = [n \in Numbers |-> None]
    /\ trailer = None /\ written = [n \in Numbers |-> None]

Incremental == base # None
MaxOf(S) == IF S = {} THEN 0 ELSE Max(S)

(***************************************************************************)
(* Writing objects.                                                        *)
(***************************************************************************)
\* A mutant: the first position stays (HashMap::entry).
PositionsKeeping(n, position) == [xref_positions EXCEPT ![n] = IF @ = 0 THEN position ELSE @]

\* HashMap::insert of an object's position.
PositionsWith(n, position) == [xref_positions EXCEPT ![n] = position]

\* write_object, with encryption active or not: buffered if it may be packed,
\* written otherwise.
Packable(kind) == config.use_object_streams /\ kind # "stream"

WriteObject(n, kind, active) ==
    LET object == [n |-> n, kind |-> kind, key |-> IF active THEN n ELSE 0] IN
    /\ written' = [written EXCEPT ![n] = object]
    /\ IF Packable(kind)
       THEN /\ buffered_objects' = [buffered_objects EXCEPT ![n] = object]
            /\ UNCHANGED <<bodies, xref_positions>>
       ELSE /\ bodies' = Append(bodies, object)
            /\ xref_positions' = PositionsWith(n, Len(bodies) + 1)
            /\ UNCHANGED buffered_objects
    /\ UNCHANGED compressed_object_map

\* write_document reserves the fixed objects and then the encryption dictionary.
BeginDocument ==
    /\ phase = "start" /\ ~Incremental
    /\ catalog_id' = 1 /\ pages_id' = 2 /\ info_id' = 3
    /\ encrypt_obj_id' = IF encryption THEN 4 ELSE None
    /\ next_object_id' = IF encryption THEN 5 ELSE 4
    /\ owed' = {2} /\ phase' = "body"
    /\ UNCHANGED <<request, output, trailer>>

\* A mutant: /Size is believed to bound the numbers.
FirstNumberOfSize(b) == Max({next_object_id, b.size})

\* initialize_incremental_info: numbers above all the base refers to and not
\* below its /Size.
FirstNumber(b) == Max({next_object_id, b.size, MaxOf(b.objects) + 1})
Refused == base.encrypted \/ config.use_object_streams \/ config.use_xref_streams

BeginRevision ==
    /\ phase = "start" /\ Incremental /\ ~Refused
    /\ LET first == IF info_policy = "replace" THEN FirstNumber(base) + 1 ELSE FirstNumber(base) IN
       /\ info_id' = IF info_policy = "replace" THEN FirstNumber(base) ELSE None
       /\ catalog_id' = first /\ pages_id' = first + 1 /\ next_object_id' = first + 2
       /\ owed' = {first + 1} \cup base.pages
    /\ phase' = "body"
    /\ UNCHANGED <<request, encrypt_obj_id, output, trailer>>

RefuseRevision ==
    /\ phase = "start" /\ Incremental /\ Refused
    /\ phase' = "refused"
    /\ UNCHANGED <<request, ids, owed, output, trailer>>

\* Fonts, pages, forms, outlines and so on.
AllocateObjectId ==
    /\ phase = "body" /\ next_object_id <= MaxAllocated
    /\ owed' = owed \cup {next_object_id} /\ next_object_id' = next_object_id + 1
    /\ UNCHANGED <<request, phase, catalog_id, pages_id, info_id, encrypt_obj_id, output, trailer>>

WriteAllocated(n, kind) ==
    /\ phase = "body" /\ n \in owed
    /\ (n = pages_id => kind = IF Incremental THEN "draft" ELSE "plain")
    /\ (n # pages_id => kind # "draft")
    /\ WriteObject(n, kind, encryption) /\ owed' = owed \ {n}
    /\ UNCHANGED <<request, phase, ids, trailer>>

\* write_incremental_document writes the page tree once more, with the pages
\* of both files.
WritePageTree ==
    /\ phase = "body" /\ owed = {} /\ Incremental
    /\ WriteObject(pages_id, "plain", encryption) /\ phase' = "catalog"
    /\ UNCHANGED <<request, ids, owed, trailer>>

WriteCatalog ==
    /\ owed = {} /\ phase = IF Incremental THEN "catalog" ELSE "body"
    /\ WriteObject(catalog_id, "plain", encryption) /\ phase' = "info"
    /\ UNCHANGED <<request, ids, owed, trailer>>

WriteInfo ==
    /\ phase = "info" /\ phase' = "encrypt"
    /\ IF Incremental /\ info_policy = "preserve" THEN UNCHANGED output
       ELSE WriteObject(info_id, "plain", encryption)
    /\ UNCHANGED <<request, ids, owed, trailer>>

\* A mutant: the encryption dictionary is encrypted.
WriteEncryptionDictEncrypted ==
    /\ phase = "encrypt" /\ phase' = "flush"
    /\ IF encrypt_obj_id = None THEN UNCHANGED output
       ELSE WriteObject(encrypt_obj_id, "plain", encryption)
    /\ UNCHANGED <<request, ids, owed, trailer>>

\* write_encryption_dict suspends the encryption.
WriteEncryptionDict ==
    /\ phase = "encrypt" /\ phase' = "flush"
    /\ IF encrypt_obj_id = None THEN UNCHANGED output
       ELSE WriteObject(encrypt_obj_id, "plain", FALSE)
    /\ UNCHANGED <<request, ids, owed, trailer>>

(***************************************************************************)
(* Object streams: buffered objects in the order of their numbers.         *)
(***************************************************************************)
Buffered == {n \in Numbers : buffered_objects[n] # None}
StreamOf(n) == StreamBase + Cardinality({m \in Buffered : m < n}) \div MaxPerStream
Streams == {StreamOf(n) : n \in Buffered}

StreamPosition(n) == Len(bodies) + n - StreamBase + 1

FlushObjectStreams ==
    /\ phase = "flush" /\ phase' = "xref"
    /\ compressed_object_map' =
           [n \in Numbers |-> IF n \in Buffered THEN StreamOf(n) ELSE compressed_object_map[n]]
    /\ bodies' = bodies \o [i \in 1..Cardinality(Streams) |->
                               [n |-> StreamBase + i - 1, kind |-> "pack", key |-> 0]]
    /\ xref_positions' =
           [n \in Numbers |-> IF n \in Streams THEN StreamPosition(n) ELSE xref_positions[n]]
    /\ UNCHANGED <<request, ids, owed, buffered_objects, written, trailer>>

(***************************************************************************)
(* The end of the file.                                                    *)
(***************************************************************************)
Positioned == {n \in Numbers : xref_positions[n] # 0}
SizeFor(S) == MaxOf(S) + 1

\* write_xref and write_trailer
WriteXRef ==
    /\ phase = "xref" /\ ~config.use_xref_streams
    /\ trailer' = [form |-> "table", size |-> SizeFor(Positioned), encrypt |-> encrypt_obj_id]
    /\ phase' = "done"
    /\ UNCHANGED <<request, ids, owed, output>>

\* write_xref_stream
WriteXRefStream ==
    /\ phase = "xref" /\ config.use_xref_streams
    /\ LET id == next_object_id IN
       /\ bodies' = Append(bodies, [n |-> id, kind |-> "xref", key |-> 0])
       /\ xref_positions' = PositionsWith(id, Len(bodies) + 1)
       /\ trailer' = [form |-> "stream", size |-> SizeFor(Positioned \cup {id}), encrypt |-> None]
       /\ next_object_id' = id + 1
    /\ phase' = "done"
    /\ UNCHANGED <<request, catalog_id, pages_id, info_id, encrypt_obj_id, owed,
                   buffered_objects, compressed_object_map, written>>

Next ==
    \/ BeginDocument \/ BeginRevision \/ RefuseRevision \/ AllocateObjectId
    \/ \E n \in owed, kind \in {"stream", "plain", "draft"} : WriteAllocated(n, kind)
    \/ WritePageTree \/ WriteCatalog \/ WriteInfo \/ WriteEncryptionDict
    \/ FlushObjectStreams \/ WriteXRef \/ WriteXRefStream

Spec == Init /\ [][Next]_vars

(***************************************************************************)
(* What a reader finds in the finished file.                               *)
(***************************************************************************)
Done == phase = "done"
Written == {n \in Numbers : written[n] # None}

\* The entry of the cross-reference stream itself goes before that of an object
\* of the same number.
Packed(n) ==
    /\ trailer.form = "stream" /\ compressed_object_map[n] # None
    /\ n # bodies[Len(bodies)].n
BodyOf(n) == IF xref_positions[n] = 0 THEN None ELSE bodies[xref_positions[n]]
Found(n) ==
    IF n >= trailer.size THEN None
    ELSE IF ~Packed(n) THEN BodyOf(n)
    ELSE IF BodyOf(compressed_object_map[n]) \in [n : Numbers, kind : {"pack"}, key : {0}]
         THEN buffered_objects[n] ELSE None

\* A file is opened as encrypted if the trailer names an encryption dictionary;
\* then every object is decrypted by its own key, a packed one with its stream.
InClear(n) ==
    IF trailer.encrypt = None \/ n = trailer.encrypt THEN Found(n).key = 0
    ELSE ~Packed(n) /\ Found(n).key = n

\* No allocated number reaches those of the object streams.
BelowStreams == next_object_id <= StreamBase

\* Types of the variables.
TypeOK ==
    /\ config \in [use_object_streams : BOOLEAN, use_xref_streams : BOOLEAN]
    /\ encryption \in BOOLEAN /\ base \in Bases \cup {None} /\ info_policy \in {"preserve", "replace"}
    /\ phase \in {"start", "refused", "body", "catalog", "info", "encrypt", "flush", "xref", "done"}
    /\ next_object_id \in Numbers
    /\ {catalog_id, pages_id, info_id, encrypt_obj_id} \subseteq Numbers \cup {None}
    /\ owed \subseteq Numbers /\ bodies \in Seq(Object)
    /\ xref_positions \in [Numbers -> 0..Len(bodies)]
    /\ buffered_objects \in [Numbers -> Object \cup {None}]
    /\ compressed_object_map \in [Numbers -> Numbers \cup {None}]
    /\ trailer \in [form : {"table", "stream"}, size : Nat, encrypt : Numbers \cup {None}] \cup {None}
    /\ written \in [Numbers -> Object \cup {None}]

\* A reader of the finished file finds under every number what was last written
\* under it, in the body or in an object stream, the page tree of an incremental
\* write in its second version.  Object streams need cross-reference streams to
\* be found, and numbers that stay below their own.
EveryObjectFound ==
    Done /\ (config.use_object_streams => config.use_xref_streams /\ BelowStreams)
        => \A n \in Written : Found(n) = written[n]

\* A reader of the finished file gets its objects in clear: nothing is encrypted
\* twice or by the wrong key, and the encryption dictionary is not encrypted.
ReadableInClear ==
    Done /\ (encryption => ~config.use_xref_streams /\ ~config.use_object_streams)
        => \A n \in Written : Found(n) # None => InClear(n)

\* No number is defined twice in a revision, by the writer's counter, by the
\* reserved numbers or by the object streams' own counter; the exception is the
\* page tree that an incremental write drafts first.
DefinedOnce ==
    Done /\ BelowStreams =>
        /\ \A i, j \in DOMAIN bodies : i < j /\ bodies[i].n = bodies[j].n => bodies[i].kind = "draft"
        /\ \A i \in DOMAIN bodies : bodies[i].n \notin Buffered

\* /Size exceeds every number the file defines, those the base had included.
SizeCovers ==
    Done => /\ \A n \in Positioned : n < trailer.size
            /\ BelowStreams => \A n \in Written : n < trailer.size
            /\ Incremental => base.size <= trailer.size /\ \A n \in base.objects : n < trailer.size

\* A revision rewrites the base's pages and otherwise uses numbers the base does
\* not know, whatever its /Size says: catalog, metadata and contents of the base
\* stay as they are.
RewritesOnlyPages ==
    Incremental => Written \cap base.objects \subseteq base.pages

\* Numbers mean one object each, in the base, in what is added and for later
\* updates; the variables keep their types.
NumberingSound == TypeOK /\ DefinedOnce /\ SizeCovers /\ RewritesOnlyPages

\* The trailer is written to name the encryption dictionary and the file
\* identifier "for encrypted documents", and encryption is documented as a
\* feature of writing: an encrypted document can be read back.
EncryptedReadsBack ==
    Done /\ encryption /\ ~config.use_object_streams => \A n \in Written : InClear(n)
=============================================================================
