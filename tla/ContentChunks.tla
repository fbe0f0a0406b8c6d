---------------------------- MODULE ContentChunks ----------------------------
(***************************************************************************)
(* process_in_chunks of streaming/chunk_processor.rs, which reads a        *)
(* content stream, finds its operations and hands them on in chunks of a   *)
(* bounded size, each of one kind.                                         *)
(*                                                                         *)
(* A byte is a symbol: "n" for white space, the delimiters, and letters.   *)
(* "d" is a digit, "q" a graphics operator, any other word an unknown one, *)
(* except <<"B", "T">>, <<"E", "T">> and <<"B", "I">>, which begin and end *)
(* text and begin an inline image.                                         *)
(***************************************************************************)
EXTENDS Integers, Sequences, FiniteSets, SequencesExt

CONSTANTS
    Contents,       \* the contents considered
    OptionSets,     \* the options considered
    MaxRead,        \* buffer_size, how much a read returns at most
    PrefixLength,   \* 8, how much is looked at to know an image
    MaxRecord,      \* MAX_PENDING_RECORD, the length of an operation at most
    MaxNesting,     \* 128, of arrays and dictionaries, and of literals
    None

\* What JPEG and PNG files begin with.
ImagePrefixes == {<<"J", "P">>, <<"N", "n", "G">>}

White == {"n"}
Delimiters == White \cup {"(", ")", "<", ">", "[", "]", "/", "%"}
Kinds == {"text", "graphics", "unknown", "image"}

-----------------------------------------------------------------------------
(* ChunkDecoder, as a value.  chunks are those it has pushed out. *)

Normal == [mode |-> "normal", n |-> 0, escaped |-> FALSE]
Mode(mode, n) == [mode |-> mode, n |-> n, escaped |-> FALSE]

NewDecoder(o) ==
    [position |-> 0, prefix |-> <<>>, started |-> FALSE,
     opaque |-> IF o.kinds = {} THEN "unknown" ELSE None,
     record |-> <<>>, record_start |-> 0, state |-> Normal, nesting |-> 0, in_text |-> FALSE,
     last_type |-> "unknown", output |-> None, chunks |-> <<>>, failed |-> FALSE]

Fail(d) == [d EXCEPT !.failed = TRUE]

\* What Use makes of the value d, unless that is an error.
Then(d, Use(_)) == CHOOSE used \in {IF e.failed THEN e ELSE Use(e) : e \in {d}} : TRUE

\* The chunk being filled is pushed out.
Push(d) ==
    IF d.output = None THEN d
    ELSE [d EXCEPT !.chunks = Append(@, d.output), !.output = None]

\* The data may go on in the chunk.
Fits(o, chunk, data, kind, position) ==
    /\ chunk.kind = kind
    /\ chunk.position + Len(chunk.data) = position
    /\ o.split \/ Len(chunk.data) + Len(data) <= o.max

\* The loop of append, one piece after another.
RECURSIVE Fill(_, _, _, _, _)
Fill(o, d, data, kind, position) ==
    IF data = <<>> THEN d
    ELSE IF d.output # None /\ ~Fits(o, d.output, data, kind, position)
    THEN Fill(o, Push(d), data, kind, position)
    ELSE LET chunk == IF d.output = None THEN [kind |-> kind, position |-> position, data |-> <<>>]
                      ELSE d.output
             room  == o.max - Len(chunk.data)
             n     == IF room < Len(data) THEN room ELSE Len(data)
             next  == [d EXCEPT !.output = [chunk EXCEPT !.data = @ \o SubSeq(data, 1, n)]]
         IN  Fill(o, IF n = room THEN Push(next) ELSE next, SubSeq(data, n + 1, Len(data)), kind, position + n)

\* append
AppendData(o, d, data, kind, position) ==
    IF data = <<>> THEN d
    ELSE IF kind \notin o.kinds THEN Push(d)
    ELSE IF ~o.split /\ Len(data) > o.max THEN Fail(d)
    ELSE Fill(o, d, data, kind, position)

\* The pending operation ends here.
Emit(o, d, kind) ==
    Then(AppendData(o, [d EXCEPT !.record = <<>>], d.record, kind, d.record_start),
         LAMBDA e : [e EXCEPT !.record_start = d.position, !.last_type = kind])

-----------------------------------------------------------------------------
(* Operations *)

BeginText == <<"B", "T">>
EndText == <<"E", "T">>
BeginImage == <<"B", "I">>

KindOf(token) ==
    IF token \in {BeginText, EndText} THEN "text"
    ELSE IF token \in {<<"q">>, <<"B">>} THEN "graphics"
    ELSE "unknown"

\* A word inside an array or dictionary, or a number, is an operand.  After an
\* inline image begins, nothing is told apart any more.
Operator(o, d, token) ==
    IF d.nesting # 0 \/ ToSet(token) \subseteq {"d"} THEN d
    ELSE IF token = BeginImage
    THEN IF "unknown" \notin o.kinds THEN Fail(d)
         ELSE Emit(o, [d EXCEPT !.opaque = "unknown"], "unknown")
    ELSE Emit(o, [d EXCEPT !.in_text = token = BeginText \/ (@ /\ token # EndText)],
              IF d.in_text THEN "text" ELSE KindOf(token))

\* The word that is under way ends before the next symbol.
EndWord(o, d) ==
    Operator(o, [d EXCEPT !.state = Normal], SubSeq(d.record, d.state.n + 1, Len(d.record)))

-----------------------------------------------------------------------------
(* byte *)

In(d, state) == [d EXCEPT !.state = state]
Nest(d) == IF d.nesting = MaxNesting THEN Fail(d) ELSE [d EXCEPT !.nesting = @ + 1]
Unnest(d) == [d EXCEPT !.nesting = IF @ = 0 THEN 0 ELSE @ - 1]

\* The symbol is the last of the record.
FromNormal(d, symbol) ==
    CASE symbol = "%" -> In(d, Mode("comment", 0))
      [] symbol = "/" -> In(d, Mode("name", 0))
      [] symbol = "(" -> In(d, Mode("literal", 1))
      [] symbol = "<" -> In(d, Mode("angle", 0))
      [] symbol = ">" -> In(Unnest(d), Mode("close angle", 0))
      [] symbol = "[" -> In(Nest(d), Normal)
      [] symbol = "]" -> In(Unnest(d), Normal)
      [] symbol \in White \cup {")"} -> In(d, Normal)
      [] OTHER -> In(d, Mode("word", Len(d.record) - 1))

InLiteral(d, symbol) ==
    IF d.state.escaped THEN [d EXCEPT !.state.escaped = FALSE]
    ELSE CASE symbol = "\\" -> [d EXCEPT !.state.escaped = TRUE]
           [] symbol = "(" -> IF d.state.n = MaxNesting THEN Fail(d) ELSE [d EXCEPT !.state.n = @ + 1]
           [] symbol = ")" -> IF d.state.n = 1 THEN In(d, Normal) ELSE [d EXCEPT !.state.n = @ - 1]
           [] OTHER -> d

Lex(d, symbol) ==
    CASE d.state.mode = "normal"      -> FromNormal(d, symbol)
      [] d.state.mode = "word"        -> d
      [] d.state.mode = "comment"     -> IF symbol = "n" THEN In(d, Normal) ELSE d
      [] d.state.mode = "name"        -> IF symbol \in Delimiters THEN FromNormal(d, symbol) ELSE d
      [] d.state.mode = "literal"     -> InLiteral(d, symbol)
      [] d.state.mode = "angle"       -> IF symbol = "<" THEN In(Nest(d), Normal)
                                         ELSE In(d, IF symbol = ">" THEN Normal ELSE Mode("hex", 0))
      [] d.state.mode = "hex"         -> IF symbol = ">" THEN In(d, Normal) ELSE d
      [] d.state.mode = "close angle" -> IF symbol = ">" THEN In(d, Normal) ELSE FromNormal(d, symbol)

\* Opaque data is passed on as it comes where it may be split or is not wanted.
OpaqueByte(o, d, symbol) ==
    Then(IF o.split \/ d.opaque \notin o.kinds THEN AppendData(o, d, <<symbol>>, d.opaque, d.position)
         ELSE IF Len(d.record) = o.max THEN Fail(d)
         ELSE [d EXCEPT !.record = Append(@, symbol)],
         LAMBDA e : [e EXCEPT !.position = @ + 1])

LexedByte(d, symbol) ==
    IF Len(d.record) = MaxRecord THEN Fail(d)
    ELSE Lex([d EXCEPT !.record = Append(@, symbol), !.position = @ + 1], symbol)

Byte(o, d, symbol) ==
    Then(IF d.opaque = None /\ d.state.mode = "word" /\ symbol \in Delimiters THEN EndWord(o, d) ELSE d,
         LAMBDA e : IF e.opaque # None THEN OpaqueByte(o, e, symbol) ELSE LexedByte(e, symbol))

Bytes(o, d, symbols) == FoldLeft(LAMBDA e, symbol : Then(e, LAMBDA f : Byte(o, f, symbol)), d, symbols)

-----------------------------------------------------------------------------
(* feed and finish *)

\* The prefix is known: is it an image?
Start(o, d) ==
    LET image == \E prefix \in ImagePrefixes : IsPrefix(prefix, d.prefix)
    IN  Bytes(o, [d EXCEPT !.started = TRUE, !.prefix = <<>>, !.opaque = IF image THEN "image" ELSE @], d.prefix)

FeedSymbol(o, d, symbol) ==
    IF d.started THEN Byte(o, d, symbol)
    ELSE LET longer == [d EXCEPT !.prefix = Append(@, symbol)]
         IN  IF Len(longer.prefix) < PrefixLength THEN longer ELSE Start(o, longer)

Feed(o, d, symbols) == FoldLeft(LAMBDA e, symbol : Then(e, LAMBDA f : FeedSymbol(o, f, symbol)), d, symbols)

\* What is left without an operator is unknown, unless it is within text or
\* white space behind the last operation.
LastKind(d) ==
    IF d.opaque # None THEN d.opaque
    ELSE IF d.in_text THEN "text"
    ELSE IF ToSet(d.record) \subseteq White THEN d.last_type
    ELSE "unknown"

Finish(o, d) ==
    Then(Then(IF d.started THEN d ELSE Start(o, d),
              LAMBDA e : IF e.opaque = None /\ e.state.mode = "word" THEN EndWord(o, e) ELSE e),
         LAMBDA e : Then(Emit(o, e, LastKind(e)), Push))

-----------------------------------------------------------------------------
(* process_in_chunks *)

VARIABLES
    content, options,
    offset,       \* how much was read
    decoder,
    delivered,    \* the chunks the callback was given
    result        \* "running", or how the call ended

vars == <<content, options, offset, decoder, delivered, result>>

Init ==
    /\ content \in Contents
    /\ options \in OptionSets
    /\ offset = 0
    /\ decoder = NewDecoder(options)
    /\ delivered = <<>>
    /\ result = "running"

\* The chunks of a piece go to the callback, which may refuse the k-th; those
\* before an error in the same piece stay behind.
Deliver(d, finished) ==
    \/ /\ d.failed
       /\ decoder' = d
       /\ result' = "invalid"
       /\ UNCHANGED delivered
    \/ /\ ~d.failed
       /\ decoder' = [d EXCEPT !.chunks = <<>>]
       /\ delivered' = delivered \o d.chunks
       /\ result' = IF finished THEN "ok" ELSE "running"
    \/ /\ ~d.failed
       /\ decoder' = [d EXCEPT !.chunks = <<>>]
       /\ \E k \in DOMAIN d.chunks : delivered' = delivered \o SubSeq(d.chunks, 1, k)
       /\ result' = "callback failed"

Read(n) ==
    /\ result = "running" /\ offset + n <= Len(content)
    /\ offset' = offset + n
    /\ \E d \in {Feed(options, decoder, SubSeq(content, offset + 1, offset + n))} : Deliver(d, FALSE)
    /\ UNCHANGED <<content, options>>

ReadFails ==
    /\ result = "running"
    /\ result' = "read failed"
    /\ UNCHANGED <<content, options, offset, decoder, delivered>>

EndOfInput ==
    /\ result = "running" /\ offset = Len(content)
    /\ \E d \in {Finish(options, decoder)} : Deliver(d, TRUE)
    /\ UNCHANGED <<content, options, offset>>

Next == (\E n \in 1..MaxRead : Read(n)) \/ EndOfInput \/ ReadFails

Spec == Init /\ [][Next]_vars

-----------------------------------------------------------------------------
(* Properties *)

\* Types of the variables.
TypeOK ==
    /\ offset \in 0..Len(content)
    /\ Len(decoder.record) <= MaxRecord
    /\ decoder.nesting \in 0..MaxNesting
    /\ \A i \in DOMAIN delivered : delivered[i].kind \in Kinds
    /\ result \in {"running", "ok", "invalid", "read failed", "callback failed"}

\* The content decoded without selection or limit, as far as it can be; and where
\* its operations begin.
Everything == [kinds |-> Kinds, split |-> TRUE, max |-> Len(content) + 1]
Whole == Feed(Everything, NewDecoder(Everything), content)
Classified ==
    LET d == IF Whole.failed THEN Whole ELSE Finish(Everything, Whole)
    IN  IF d.output = None THEN d.chunks ELSE Append(d.chunks, d.output)
Decoded(n) ==
    LET d == Feed(Everything, NewDecoder(Everything), SubSeq(content, 1, n))
    IN  IF d.started THEN d ELSE Start(Everything, d)
Bounds ==
    {Len(content)} \cup
    {Decoded(n).record_start : n \in 0..Len(content)}

End(chunk) == chunk.position + Len(chunk.data)
Within(chunk, whole) == chunk.kind = whole.kind /\ whole.position <= chunk.position /\ End(chunk) <= End(whole)
Places(chunks) == UNION {(chunk.position + 1)..End(chunk) : chunk \in ToSet(chunks)}

\* What the callback is given, however the reads cut the content: pieces of it, in
\* order and none twice, no longer than allowed and never empty, each of one
\* selected kind and of the kind that its operations have in the whole content;
\* unless splitting is allowed, no operation is cut.  A call that reports success
\* has delivered every symbol of the selected kinds.
ChunksPreserve ==
    result # "running" =>
    \E classified \in {Classified} :
    /\ \A i \in DOMAIN delivered :
          LET chunk == delivered[i] IN
          /\ Len(chunk.data) \in 1..options.max
          /\ chunk.data = SubSeq(content, chunk.position + 1, End(chunk))
          /\ chunk.kind \in options.kinds
          /\ \E whole \in ToSet(classified) : Within(chunk, whole)
          /\ i > 1 => chunk.position >= End(delivered[i - 1])
          /\ options.split \/ {chunk.position, End(chunk)} \subseteq Bounds
    /\ result = "ok" =>
          Places(delivered) = Places(SelectSeq(classified, LAMBDA whole : whole.kind \in options.kinds))
    /\ result = "ok" /\ options.kinds # {} => Places(classified) = DOMAIN content
=============================================================================
