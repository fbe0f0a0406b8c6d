--------------------------- MODULE StreamingWriter ---------------------------
(***************************************************************************)
(* StreamingPdfWriter of performance/streaming_writer.rs: pages are        *)
(* written as they come, and only their numbers and offsets are kept for   *)
(* the end.  Any write may fail, in the middle of an object.               *)
(*                                                                         *)
(* Each object, and each part of the end of a file, is one item and counts *)
(* as one byte.  What a buffered writer has accepted is content, of which  *)
(* some first items are on disk.                                           *)
(***************************************************************************)
EXTENDS Absence, Integers, Sequences, FiniteSets, SequencesExt

CONSTANTS
    MaxNumber,    \* u32::MAX
    MaxOffset,    \* the largest offset of a classic table, ten digits
    BufferSize,   \* buffer_size, in items
    MaxStreams,   \* bound on the content streams of a page
    MaxRequests   \* bound on the calls made

\* There is a number for an object besides catalog and page tree.
ASSUME WriterAssumption ==
    /\ MaxNumber \in Nat /\ MaxNumber > 3
    /\ MaxOffset \in Nat /\ MaxStreams \in Nat /\ MaxRequests \in Nat
    /\ None \notin Nat

VARIABLES
    options,
    content,
    disk,                 \* how much of content is on disk
    object_positions,
    current_object_id,
    page_ids,
    last_flush_position,
    failed, finalized,
    reported,             \* the last call and its answer
    acknowledged,         \* history: the pages whose call succeeded
    requests

writerVars == <<options, content, disk, object_positions, current_object_id, page_ids,
                last_flush_position, failed, finalized, reported, acknowledged, requests>>

Options == [direct : BOOLEAN, auto_flush : BOOLEAN, xref_streaming : BOOLEAN]

Header == [kind |-> "header", id |-> None]
Stream(id) == [kind |-> "stream", id |-> id]
Page(id, contents) == [kind |-> "page", id |-> id, contents |-> contents]
PageTree(kids) == [kind |-> "page tree", id |-> 2, kids |-> kids]
Catalog == [kind |-> "catalog", id |-> 1]
XRef(id, offsets) == [kind |-> "xref", id |-> id, offsets |-> offsets]
StartXRef(offset) == [kind |-> "startxref", id |-> None, offset |-> offset]
Torn == [kind |-> "torn", id |-> None]

\* What a file may have of a content: all of it if it is written directly.
OnDisk(text) == IF options.direct THEN {Len(text)} ELSE disk..Len(text)

\* create has written the header; catalog and page tree have numbers 1 and 2.
WriterInit ==
    /\ options \in Options
    /\ content = <<Header>>
    /\ disk \in (IF options.direct THEN {1} ELSE {0, 1})
    /\ object_positions = <<>>
    /\ current_object_id = 3
    /\ page_ids = <<>>
    /\ last_flush_position = 0
    /\ failed = FALSE /\ finalized = FALSE
    /\ reported = [op |-> "create", answer |-> "ok"]
    /\ acknowledged = <<>>
    /\ requests = 0

Report(op, answer) ==
    /\ requests < MaxRequests
    /\ requests' = requests + 1
    /\ reported' = [op |-> op, answer |-> answer]

\* The call is refused and changes nothing.
Refuse(op, answer) ==
    /\ Report(op, answer)
    /\ UNCHANGED <<options, content, disk, object_positions, current_object_id, page_ids,
                   last_flush_position, failed, finalized, acknowledged>>

Numbered(items) == {i \in DOMAIN items : items[i].id # None}

\* The offset of each object is recorded before it is written.
Positions(items) ==
    [id \in DOMAIN object_positions \cup {items[i].id : i \in Numbered(items)} |->
        IF \E i \in Numbered(items) : items[i].id = id
        THEN Len(content) + (CHOOSE i \in Numbered(items) : items[i].id = id) - 1
        ELSE object_positions[id]]

\* The numbers that start_object has given, of those from the current one on.
NextNumber(items) ==
    current_object_id + Cardinality({i \in Numbered(items) : items[i].id >= current_object_id})

\* All items are accepted.
Write(items) ==
    /\ content' = content \o items
    /\ object_positions' = Positions(items)
    /\ current_object_id' = NextNumber(items)

\* A faulty variant of BreakOff: the writer can be used on.
BreakOffQuietly(op, items) ==
    /\ Report(op, "io")
    /\ \E i \in DOMAIN items :
          /\ content' = content \o SubSeq(items, 1, i - 1) \o <<Torn>>
          /\ object_positions' = Positions(SubSeq(items, 1, i))
          /\ current_object_id' = NextNumber(SubSeq(items, 1, i))
    /\ disk' \in OnDisk(content')
    /\ UNCHANGED <<options, page_ids, last_flush_position, failed, finalized, acknowledged>>

\* The write of one of them fails, and what it has of that item is of no use.
BreakOff(op, items) ==
    /\ Report(op, "io")
    /\ failed' = TRUE
    /\ \E i \in DOMAIN items :
          /\ content' = content \o SubSeq(items, 1, i - 1) \o <<Torn>>
          /\ object_positions' = Positions(SubSeq(items, 1, i))
          /\ current_object_id' = NextNumber(SubSeq(items, 1, i))
    /\ disk' \in OnDisk(content')
    /\ UNCHANGED <<options, page_ids, last_flush_position, finalized, acknowledged>>

Closed == failed \/ finalized

-----------------------------------------------------------------------------
(* write_page_streaming *)

PageItems(streams) ==
    LET ids == [i \in 1..streams |-> current_object_id + i - 1]
    IN  [i \in 1..streams |-> Stream(ids[i])] \o <<Page(current_object_id + streams, ids)>>

\* A page and its streams leave a number for a cross-reference stream.
NumbersLeft(streams) == current_object_id + streams + 1 < MaxNumber

\* Dimensions that are no size, or resources, are not supported.
RefusePage ==
    \/ Closed /\ Refuse("page", "closed")
    \/ ~Closed /\ Refuse("page", "unsupported")
    \/ ~Closed /\ \E streams \in 0..MaxStreams : ~NumbersLeft(streams) /\ Refuse("page", "limit")

\* A full buffer is flushed with the page that filled it; if that fails, so does
\* the call, though the page is in the list.
WritePage ==
    /\ ~Closed
    /\ \E streams \in 0..MaxStreams :
          /\ NumbersLeft(streams)
          /\ \/ BreakOff("page", PageItems(streams))
             \/ /\ Write(PageItems(streams))
                /\ page_ids' = Append(page_ids, current_object_id + streams)
                /\ IF options.auto_flush /\ Len(content') - last_flush_position >= BufferSize
                   THEN \/ /\ Report("page", "ok")
                           /\ disk' = Len(content')
                           /\ last_flush_position' = Len(content')
                           /\ acknowledged' = Append(acknowledged, current_object_id + streams)
                           /\ UNCHANGED failed
                        \/ /\ ~options.direct
                           /\ Report("page", "io")
                           /\ disk' \in disk..(Len(content') - 1)
                           /\ failed' = TRUE
                           /\ UNCHANGED <<last_flush_position, acknowledged>>
                   ELSE /\ Report("page", "ok")
                        /\ disk' \in OnDisk(content')
                        /\ acknowledged' = Append(acknowledged, current_object_id + streams)
                        /\ UNCHANGED <<last_flush_position, failed>>
                /\ UNCHANGED <<options, finalized>>

-----------------------------------------------------------------------------
(* flush and finalize *)

\* A finalized writer may be flushed again: its buffer is empty.
Flush ==
    \/ failed /\ Refuse("flush", "closed")
    \/ /\ ~failed
       /\ \/ /\ Report("flush", "ok")
             /\ disk' = Len(content)
             /\ last_flush_position' = Len(content)
             /\ UNCHANGED failed
          \/ /\ disk < Len(content)
             /\ Report("flush", "io")
             /\ disk' \in disk..(Len(content) - 1)
             /\ failed' = TRUE
             /\ UNCHANGED last_flush_position
       /\ UNCHANGED <<options, content, object_positions, current_object_id, page_ids,
                      finalized, acknowledged>>

\* The page tree, the catalog, and what refers to them.  A cross-reference
\* stream takes the next number and lists itself.
Ending ==
    LET tree   == <<PageTree(page_ids), Catalog>>
        offset == Len(content) + 2
        Offsets(items) == [id \in 1..(NextNumber(items) - 1) |-> Positions(items)[id]]
        Stub   == Append(tree, XRef(current_object_id, <<>>))
    IN  tree \o <<IF options.xref_streaming THEN XRef(current_object_id, Offsets(Stub)) ELSE XRef(None, Offsets(tree)),
                  StartXRef(offset)>>

\* Every number has an offset, each short enough for a classic table, or there is
\* a number for a stream.
EndingFits ==
    /\ \A id \in 3..(current_object_id - 1) : id \in DOMAIN object_positions
    /\ IF options.xref_streaming THEN current_object_id < MaxNumber
       ELSE Len(content) + 1 <= MaxOffset

\* A table is left off at the first offset that does not fit.
Finalize ==
    \/ Closed /\ Refuse("finalize", "closed")
    \/ /\ ~Closed /\ ~EndingFits
       /\ Report("finalize", "limit")
       /\ content' = content \o <<PageTree(page_ids), Catalog, Torn>>
       /\ object_positions' = Positions(<<PageTree(page_ids), Catalog>>)
       /\ disk' \in OnDisk(content')
       /\ failed' = TRUE
       /\ UNCHANGED <<options, current_object_id, page_ids, last_flush_position, finalized, acknowledged>>
    \/ ~Closed /\ BreakOff("finalize", IF EndingFits THEN Ending ELSE <<PageTree(page_ids), Catalog>>)
    \/ /\ ~Closed /\ EndingFits
       /\ Write(Ending)
       /\ \/ /\ Report("finalize", "ok")
             /\ disk' = Len(content')
             /\ last_flush_position' = Len(content')
             /\ finalized' = TRUE /\ UNCHANGED failed
          \/ /\ ~options.direct
             /\ Report("finalize", "io")
             /\ disk' \in disk..(Len(content') - 1)
             /\ failed' = TRUE /\ UNCHANGED <<finalized, last_flush_position>>
       /\ UNCHANGED <<options, page_ids, acknowledged>>

-----------------------------------------------------------------------------
WriterNext == RefusePage \/ WritePage \/ Flush \/ Finalize

WriterSpec == WriterInit /\ [][WriterNext]_writerVars

-----------------------------------------------------------------------------
(* Properties *)

\* Types of the variables.
WriterTypeOK ==
    /\ options \in Options
    /\ disk \in 0..Len(content) /\ last_flush_position \in 0..Len(content)
    /\ DOMAIN object_positions \subseteq 1..MaxNumber
    /\ current_object_id \in 3..MaxNumber
    /\ page_ids \in Seq(3..MaxNumber) /\ acknowledged \in Seq(3..MaxNumber)
    /\ failed \in BOOLEAN /\ finalized \in BOOLEAN
    /\ reported.answer \in {"ok", "closed", "unsupported", "limit", "io"}
    /\ requests \in 0..MaxRequests

\* The item at an offset of the file, and what a reader finds by the end.
At(offset) == content[offset + 1]
Table == At(content[Len(content)].offset)
Referenced(id) == At(Table.offsets[id])

\* A file that finalize reports as written is all on disk and stays as it is:
\* its end leads to a table with every object under its own number, and its page
\* tree has exactly the pages whose calls succeeded, in that order, each with the
\* streams written for it.  After a failure nothing succeeds, so no file with a
\* torn object or a missing page is ever reported as written; and finalize
\* never lacks a number that a page could have left.
StreamedFileSound ==
    /\ finalized /\ ~failed =>
          /\ disk = Len(content)
          /\ Torn \notin ToSet(content)
          /\ Table.kind = "xref"
          /\ {item.id : item \in ToSet(content)} \ {None} = DOMAIN Table.offsets
          /\ \A id \in DOMAIN Table.offsets : Referenced(id).id = id
          /\ Referenced(1) = Catalog /\ Referenced(2) = PageTree(acknowledged)
          /\ \A i \in DOMAIN acknowledged :
                /\ Referenced(acknowledged[i]).kind = "page"
                /\ \A id \in ToSet(Referenced(acknowledged[i]).contents) : Referenced(id).kind = "stream"
    /\ finalized => ~failed
    /\ failed => reported.answer # "ok"
    /\ reported.op = "finalize" /\ reported.answer = "limit" =>
          ~options.xref_streaming /\ \E id \in DOMAIN object_positions : object_positions[id] > MaxOffset
=============================================================================
