-------------------------- MODULE IncrementalParser --------------------------
(***************************************************************************)
(* IncrementalParser of streaming/incremental_parser.rs, which finds the   *)
(* records of a file in whatever pieces it is fed, and                     *)
(* process_incrementally, which reads a file and hands the events of each  *)
(* piece to a callback.                                                    *)
(*                                                                         *)
(* The file is a sequence of symbols: white space "n" and "r", delimiters, *)
(* and the letters of words.  Words of several letters have two here, so   *)
(* that they can be cut: "e","j" is endobj, "s","m" stream, "x","f" xref,  *)
(* and a comment "%","E" is %%EOF.  A record is its symbols; what a strict *)
(* parse of a complete record says is abstracted to whether it has a "!".  *)
(***************************************************************************)
EXTENDS Integers, Sequences, FiniteSets, SequencesExt

CONSTANTS
    Documents,    \* the files considered
    MaxRead,      \* how much a read returns at most
    Piece,        \* how much of it the parser appends at a time
    MaxBuffer,    \* MAX_BUFFER, the length of a pending record at most
    MaxDepth,     \* MAX_DEPTH, of nested objects and literals
    MaxHeader     \* how long a header may be that has not ended

White == {"n", "r"}
Eol == {"n", "r"}
Delimiters == White \cup {"(", ")", "<", ">", "[", "]", "%"}

-----------------------------------------------------------------------------
(* The parser, as a value.  pos symbols of its buffer have been scanned. *)

Normal == [mode |-> "normal", n |-> 0, escaped |-> FALSE]
Mode(mode, n) == [mode |-> mode, n |-> n, escaped |-> FALSE]

NewParser ==
    [buffer |-> <<>>, pos |-> 0, scan |-> Normal, depth |-> 0, header |-> FALSE, tail |-> FALSE,
     complete |-> FALSE, failed |-> FALSE, events |-> <<>>]

Fail(p) == [p EXCEPT !.failed = TRUE]
Skip(p, n) == [p EXCEPT !.pos = @ + n]
Scan(p, mode, n) == [p EXCEPT !.scan = Mode(mode, n)]

Event(kind, record) == [kind |-> kind, record |-> record]
Emit(p, events) == [p EXCEPT !.events = @ \o events]

\* The symbols of the buffer from the start of a word or comment to pos.
Since(p, start) == SubSeq(p.buffer, start + 1, p.pos)

WellFormed(record) == "!" \notin ToSet(record)

\* A faulty variant of Open: arrays and dictionaries may be nested as deep as the buffer is long.
OpenAlways(p) == [p EXCEPT !.depth = @ + 1]

Open(p) == IF p.depth >= MaxDepth THEN Fail(p) ELSE [p EXCEPT !.depth = @ + 1]
Close(p) == IF p.depth = 0 THEN Fail(p) ELSE [p EXCEPT !.depth = @ - 1]

\* The direct length in the dictionary before the word stream, which starts at n:
\* a digit.  A stream that would not fit in the buffer is an error.
Lengths(p, n) == {i \in 1..n : p.buffer[i] \in {"1", "2"}}

OpenStream(p, n) ==
    IF p.depth # 0 \/ p.tail \/ ~WellFormed(SubSeq(p.buffer, 1, n)) \/ Lengths(p, n) = {} THEN Fail(p)
    ELSE LET first  == CHOOSE i \in Lengths(p, n) : \A j \in Lengths(p, n) : i <= j
             length == IF p.buffer[first] = "1" THEN 1 ELSE 2
         IN  IF n + length > MaxBuffer THEN Fail(p) ELSE Scan(p, "stream eol", length)

\* The record up to endobj leaves the buffer.
EmitObject(p) ==
    LET record == SubSeq(p.buffer, 1, p.pos)
        data   == IF \E i \in 1..(Len(record) - 1) : record[i] = "s" /\ record[i + 1] = "m"
                  THEN <<Event("stream data", record)>> ELSE <<>>
    IN  IF ~WellFormed(record) THEN Fail(p)
        ELSE [Emit(p, <<Event("object start", record)>> \o data \o <<Event("object end", record)>>)
                EXCEPT !.buffer = SubSeq(@, p.pos + 1, Len(@)), !.pos = 0]

\* What is left before %%EOF has to begin with xref.
EmitTail(p, start) ==
    LET raw   == SubSeq(p.buffer, 1, start)
        words == SelectSeq(raw, LAMBDA symbol : symbol \notin White)
    IN  IF Len(words) < 2 \/ SubSeq(words, 1, 2) # <<"x", "f">> \/ ~WellFormed(raw) THEN Fail(p)
        ELSE [Emit(p, <<Event("xref", raw), Event("trailer", raw), Event("end of file", <<>>)>>)
                EXCEPT !.complete = TRUE, !.scan = Normal]

EndWord(p) ==
    LET word   == Since(p, p.scan.n)
        normal == [p EXCEPT !.scan = Normal]
    IN  IF word = <<"x", "f">> /\ p.depth = 0 THEN [normal EXCEPT !.tail = TRUE]
        ELSE IF word = <<"s", "m">> THEN OpenStream(normal, p.scan.n)
        ELSE IF word = <<"e", "j">> /\ p.depth = 0 /\ ~p.tail THEN EmitObject(normal)
        ELSE normal

-----------------------------------------------------------------------------
(* advance *)

\* A header that has not ended leaves the parser as it is.
ReadHeader(p) ==
    LET ends == {i \in DOMAIN p.buffer : p.buffer[i] \in Eol} IN
    IF ends = {} THEN IF Len(p.buffer) > MaxHeader THEN Fail(p) ELSE p
    ELSE LET end == CHOOSE i \in ends : \A j \in ends : i <= j IN
         IF SubSeq(p.buffer, 1, end - 1) # <<"%", "V">> THEN Fail(p)
         ELSE [Emit(p, <<Event("header", <<>>)>>)
                 EXCEPT !.buffer = SubSeq(@, end + 1, Len(@)), !.header = TRUE]

AtEnd(p) == p.pos + 1 = Len(p.buffer)
This(p) == p.buffer[p.pos + 1]
Following(p) == p.buffer[p.pos + 2]

ScanNormal(p) ==
    CASE This(p) = "%" -> Skip(Scan(p, "comment", p.pos), 1)
      [] This(p) = "(" -> Skip(Scan(p, "literal", 1), 1)
      [] This(p) = "<" -> IF AtEnd(p) THEN p
                          ELSE IF Following(p) = "<" THEN Skip(Open(p), 2)
                          ELSE Skip(Scan(p, "hex", 0), 1)
      [] This(p) = ">" -> IF AtEnd(p) THEN p
                          ELSE IF Following(p) # ">" THEN Fail(p)
                          ELSE Skip(Close(p), 2)
      [] This(p) = "[" -> Skip(Open(p), 1)
      [] This(p) = "]" -> Skip(Close(p), 1)
      [] This(p) = ")" -> Fail(p)
      [] This(p) \in White -> Skip(p, 1)
      [] OTHER -> Skip(Scan(p, "word", p.pos), 1)

ScanLiteral(p) ==
    LET next == Skip([p EXCEPT !.scan.escaped = FALSE], 1) IN
    IF p.scan.escaped THEN next
    ELSE CASE This(p) = "\\" -> [next EXCEPT !.scan.escaped = TRUE]
           [] This(p) = "(" -> IF p.scan.n >= MaxDepth THEN Fail(next) ELSE [next EXCEPT !.scan.n = @ + 1]
           [] This(p) = ")" -> IF p.scan.n = 1 THEN [next EXCEPT !.scan = Normal] ELSE [next EXCEPT !.scan.n = @ - 1]
           [] OTHER -> next

ScanComment(p) ==
    LET next == Skip(p, 1) IN
    IF This(p) \in Eol THEN [p EXCEPT !.scan = Normal]
    ELSE IF p.tail /\ p.depth = 0 /\ Since(next, p.scan.n) = <<"%", "E">> THEN EmitTail(next, p.scan.n)
    ELSE next

ScanStreamEol(p) ==
    IF This(p) \notin Eol THEN Fail(p)
    ELSE IF This(p) = "r" /\ AtEnd(p) THEN p
    ELSE Scan(Skip(p, IF This(p) = "r" /\ Following(p) = "n" THEN 2 ELSE 1), "stream bytes", p.scan.n)

ScanStreamBytes(p) ==
    LET rest == Len(p.buffer) - p.pos IN
    IF p.scan.n <= rest THEN [Skip(p, p.scan.n) EXCEPT !.scan = Normal]
    ELSE Scan(Skip(p, rest), "stream bytes", p.scan.n - rest)

\* A faulty variant of ScanSymbol: no look behind a symbol at the end of a piece.
ScanHastily(p) ==
    IF p.complete THEN IF This(p) \in White THEN Skip(p, 1) ELSE Fail(p)
    ELSE CASE p.scan.mode = "normal" /\ This(p) = "<" /\ AtEnd(p) -> Skip(Scan(p, "hex", 0), 1)
           [] p.scan.mode = "normal" /\ ~(This(p) = "<" /\ AtEnd(p)) -> ScanNormal(p)
           [] p.scan.mode = "word"         -> IF This(p) \in Delimiters THEN EndWord(p) ELSE Skip(p, 1)
           [] p.scan.mode = "literal"      -> ScanLiteral(p)
           [] p.scan.mode = "hex"          -> IF This(p) = ">" THEN Skip([p EXCEPT !.scan = Normal], 1) ELSE Skip(p, 1)
           [] p.scan.mode = "comment"      -> ScanComment(p)
           [] p.scan.mode = "stream eol"   -> ScanStreamEol(p)
           [] p.scan.mode = "stream bytes" -> ScanStreamBytes(p)

\* One round of the loop.  A symbol that cannot be judged without the next one
\* is left for the next piece, and the parser stays as it is.
ScanSymbol(p) ==
    IF p.complete THEN IF This(p) \in White THEN Skip(p, 1) ELSE Fail(p)
    ELSE CASE p.scan.mode = "normal"       -> ScanNormal(p)
           [] p.scan.mode = "word"         -> IF This(p) \in Delimiters THEN EndWord(p) ELSE Skip(p, 1)
           [] p.scan.mode = "literal"      -> ScanLiteral(p)
           [] p.scan.mode = "hex"          -> IF This(p) = ">" THEN Skip([p EXCEPT !.scan = Normal], 1) ELSE Skip(p, 1)
           [] p.scan.mode = "comment"      -> ScanComment(p)
           [] p.scan.mode = "stream eol"   -> ScanStreamEol(p)
           [] p.scan.mode = "stream bytes" -> ScanStreamBytes(p)

\* What Use makes of the value p.
With(p, Use(_)) == CHOOSE used \in {Use(q) : q \in {p}} : TRUE

\* The loop, which ends at an error, at the end of the buffer or when it waits.
RECURSIVE ScanBuffer(_)
ScanBuffer(p) ==
    IF p.failed \/ ~p.header \/ p.pos >= Len(p.buffer) THEN p
    ELSE With(ScanSymbol(p), LAMBDA next : IF next = p THEN p ELSE ScanBuffer(next))

\* White space after the end of the file is not kept.
Release(p) == IF p.complete /\ ~p.failed THEN [p EXCEPT !.buffer = <<>>, !.pos = 0] ELSE p

Advance(p) == With(IF p.header THEN p ELSE ReadHeader(p), LAMBDA headed : With(ScanBuffer(headed), Release))

-----------------------------------------------------------------------------
(* feed, finish and process_incrementally *)

RECURSIVE Feed(_, _)
Feed(p, data) ==
    IF p.failed \/ data = <<>> THEN p
    ELSE LET available == MaxBuffer - Len(p.buffer)
             count == CHOOSE n \in {Len(data), Piece, available} :
                          n <= Len(data) /\ n <= Piece /\ n <= available
         IN  IF available = 0 THEN Fail(p)
             ELSE With(Advance([p EXCEPT !.buffer = @ \o SubSeq(data, 1, count)]),
                       LAMBDA advanced : Feed(advanced, SubSeq(data, count + 1, Len(data))))

Finish(p) == IF p.complete THEN p ELSE Fail(p)

VARIABLES
    document,
    offset,       \* how much of it was read
    parser,
    delivered,    \* the events that the callback was given
    result        \* "running", or how process_incrementally ended

vars == <<document, offset, parser, delivered, result>>

Init ==
    /\ document \in Documents
    /\ offset = 0
    /\ parser = NewParser
    /\ delivered = <<>>
    /\ result = "running"

\* take_events, and the callback for each of them: it may refuse the k-th.
Deliver(p, finished) ==
    \/ /\ parser' = [p EXCEPT !.events = <<>>]
       /\ delivered' = delivered \o p.events
       /\ result' = IF finished THEN "ok" ELSE "running"
    \/ \E k \in DOMAIN p.events :
          /\ parser' = [p EXCEPT !.events = <<>>]
          /\ delivered' = delivered \o SubSeq(p.events, 1, k)
          /\ result' = "callback failed"

\* A read of n symbols.  The events before an error in the same read stay behind.
Read(n) ==
    /\ result = "running" /\ offset + n <= Len(document)
    /\ offset' = offset + n
    /\ \E p \in {Feed(parser, SubSeq(document, offset + 1, offset + n))} :
          IF p.failed
          THEN /\ parser' = p
               /\ result' = "invalid"
               /\ UNCHANGED delivered
          ELSE Deliver(p, FALSE)
    /\ UNCHANGED document

ReadFails ==
    /\ result = "running"
    /\ result' = "read failed"
    /\ UNCHANGED <<document, offset, parser, delivered>>

EndOfInput ==
    /\ result = "running" /\ offset = Len(document)
    /\ \E p \in {Finish(parser)} :
          IF p.failed
          THEN /\ parser' = p
               /\ result' = "invalid"
               /\ UNCHANGED delivered
          ELSE Deliver(p, TRUE)
    /\ UNCHANGED <<document, offset>>

Step == (\E n \in 1..MaxRead : Read(n)) \/ EndOfInput

Next == Step \/ ReadFails

Spec == Init /\ [][Next]_vars

FairSpec == Spec /\ WF_vars(Step)

-----------------------------------------------------------------------------
(* Properties *)

Kinds == {"header", "object start", "stream data", "object end", "xref", "trailer", "end of file"}

\* Types of the variables.
TypeOK ==
    /\ offset \in 0..Len(document)
    /\ Len(parser.buffer) <= MaxBuffer /\ parser.pos \in 0..Len(parser.buffer)
    /\ parser.depth \in 0..MaxDepth
    /\ \A i \in DOMAIN delivered : delivered[i].kind \in Kinds
    /\ result \in {"running", "ok", "invalid", "read failed", "callback failed"}

\* Reading ends.
Busy == result = "running"

\* The first n symbols of the document, fed one at a time.
SymbolBySymbol(n) ==
    FoldLeft(LAMBDA p, symbol : Feed(p, <<symbol>>), NewParser, SubSeq(document, 1, n))

\* However the document was cut into reads, words and two-symbol delimiters
\* included, the parser is where it would be had it been fed symbol by symbol: it
\* has rejected the document or not, with the same events, and it has as much in
\* its buffer.  What the callback was given are the first of these events, and
\* all of them if the call succeeds, which only a complete document does.
CutsDoNotMatter ==
    \E whole \in {SymbolBySymbol(offset)} :
       /\ result = "running" =>
             [parser EXCEPT !.events = delivered] = whole
       /\ IsPrefix(delivered, whole.events)
       /\ result = "ok" => whole.complete /\ ~whole.failed /\ delivered = whole.events
       /\ result = "invalid" => whole.failed \/ (offset = Len(document) /\ ~whole.complete)
=============================================================================
