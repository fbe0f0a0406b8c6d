--------------------------- MODULE PdfWriterProofs ---------------------------
(***************************************************************************)
(* Proofs about PdfWriter for every number of objects, any size of object  *)
(* streams, any base file and any order of allocations and writes.         *)
(*                                                                         *)
(* The inductive invariant IInv says where the writer has come to: which   *)
(* numbers are taken and which are still owed, that an object is either    *)
(* buffered or in the body at the position recorded for it, and what the   *)
(* bodies are.  The step that needs most is FlushObjectStreams: the object *)
(* streams are numbered without a gap from StreamBase, so that their       *)
(* positions are those of the bodies appended for them.                    *)
(***************************************************************************)
EXTENDS PdfWriter, FiniteSetTheorems, SequenceTheorems, WellFoundedInduction, TLAPS

(**************************** The invariant ********************************)

Begun == phase \notin {"start", "refused"}
Flushed == phase \in {"xref", "done"}

\* Nothing is written before the writer has begun.
Blank ==
    ~Begun =>
      /\ next_object_id = 1 /\ owed = {} /\ bodies = <<>>
      /\ catalog_id = None /\ pages_id = None /\ info_id = None /\ encrypt_obj_id = None
      /\ \A n \in Numbers : written[n] = None /\ xref_positions[n] = 0
                            /\ buffered_objects[n] = None

\* The reserved numbers.  Those of a revision are above all the base refers to.
Reserved ==
    /\ Incremental => ~encryption /\ encrypt_obj_id = None
    /\ Incremental /\ Begun => ~config.use_object_streams /\ ~config.use_xref_streams
    /\ ~encryption => encrypt_obj_id = None
    /\ encryption /\ Begun => encrypt_obj_id # None
    /\ Begun =>
         /\ catalog_id \in Numbers /\ pages_id \in Numbers /\ catalog_id # pages_id
         /\ (Incremental /\ info_policy = "preserve") \/ info_id \in Numbers
         /\ {catalog_id, pages_id} \cap {info_id, encrypt_obj_id} = {}
         /\ info_id \in Numbers => info_id # encrypt_obj_id
         /\ \A n \in {catalog_id, pages_id, info_id, encrypt_obj_id} \ {None} : n < next_object_id
         /\ Incremental => \A n \in {catalog_id, pages_id, info_id} \ {None} :
                               base.size <= n /\ \A m \in base.objects : m < n
         /\ phase # "done" => next_object_id <= MaxAllocated + 1

\* A number is written once, except the page tree of a revision; what is still
\* to be written has not been.
Last == IF phase = "done" /\ config.use_xref_streams THEN next_object_id - 1 ELSE next_object_id
Fresh ==
    /\ \A n \in Written \cup owed : n < Last
    /\ owed \cap Written = {}
    /\ owed \cap {catalog_id, info_id, encrypt_obj_id} = {}
    /\ phase # "body" => owed = {}
    /\ phase \in {"body", "catalog"} => catalog_id \notin Written
    /\ phase \in {"body", "catalog", "info"} => info_id \notin Written
    /\ phase \in {"body", "catalog", "info", "encrypt"} => encrypt_obj_id \notin Written
    /\ phase \in {"info", "encrypt", "flush", "xref", "done"} => catalog_id \in Written
    /\ phase = "catalog" => Incremental
    /\ Incremental => \A n \in Written \cup owed : n \in base.pages \/ \A m \in base.objects : m < n

\* What is last written under a number.
Content ==
    \A n \in Written :
        /\ written[n].n = n
        /\ written[n].key = IF encryption /\ n # encrypt_obj_id THEN n ELSE 0
        /\ written[n].kind = "draft" => n = pages_id /\ Incremental /\ phase = "body"
        /\ n = pages_id /\ Incremental /\ phase = "body" => written[n].kind = "draft"

\* Where it is: in the buffer, or in the body at the position recorded.
Whereabouts ==
    /\ Buffered \subseteq Written
    /\ Buffered # {} => config.use_object_streams
    /\ \A n \in Buffered : buffered_objects[n] = written[n]
    /\ \A n \in Written \ Buffered :
         ~Flushed \/ n \notin Streams =>
             xref_positions[n] # 0 /\ bodies[xref_positions[n]] = written[n]

\* The bodies: written objects, object streams, the cross-reference stream.
Bodies ==
    /\ \A i \in DOMAIN bodies :
         \/ bodies[i].n \in Written \ Buffered /\ (bodies[i].kind = "draft" => bodies[i].n = pages_id /\ Incremental)
         \/ Flushed /\ bodies[i].kind = "pack" /\ bodies[i].n >= StreamBase
         \/ bodies[i].kind = "xref" /\ bodies[i].n = Last /\ phase = "done" /\ config.use_xref_streams
    /\ BelowStreams =>
         \A i, j \in DOMAIN bodies : i < j /\ bodies[i].n = bodies[j].n => bodies[i].kind = "draft"
    /\ Incremental /\ phase = "body" =>
         \A i \in DOMAIN bodies : bodies[i].n = pages_id => bodies[i].kind = "draft"
    /\ ~encryption => \A i \in DOMAIN bodies : bodies[i].key = 0

\* The object streams, once they are flushed.
Packs ==
    /\ ~Flushed => \A n \in Numbers : compressed_object_map[n] = None
    /\ Flushed =>
         /\ \A n \in Numbers : compressed_object_map[n] = IF n \in Buffered THEN StreamOf(n) ELSE None
         /\ \A s \in Streams :
              (phase = "done" /\ config.use_xref_streams => s # Last)
              => xref_positions[s] # 0 /\ bodies[xref_positions[s]] = [n |-> s, kind |-> "pack", key |-> 0]

\* The trailer of a finished file.
Trailer ==
    /\ phase # "done" => trailer = None
    /\ phase = "done" =>
         /\ trailer.form = IF config.use_xref_streams THEN "stream" ELSE "table"
         /\ trailer.encrypt = IF config.use_xref_streams THEN None ELSE encrypt_obj_id
         /\ trailer.size \in Nat /\ \A n \in Positioned : n < trailer.size
         /\ config.use_xref_streams => Len(bodies) > 0 /\ bodies[Len(bodies)].n = Last

IInv ==
    /\ TypeOK
    /\ Blank /\ Reserved /\ Fresh /\ Content /\ Whereabouts /\ Bodies /\ Packs /\ Trailer

(************************* Numbers and maxima ******************************)

\* A set of bounded numbers that is not empty has a greatest element, and Max
\* is that.
LEMMA MaxIsGreatest ==
  ASSUME NEW N \in Nat, NEW S \in SUBSET (0..N), S # {}
  PROVE  Max(S) \in S /\ \A x \in S : x <= Max(S)
<1>. DEFINE D == {N - x : x \in S}
<1>1. D \subseteq Nat /\ D # {}
  OBVIOUS
<1>2. PICK d \in D : \A e \in D : <<e, d>> \notin OpToRel(<, Nat)
  BY <1>1, NatLessThanWellFounded, WFMin
<1>3. \A e \in D : ~(e < d)
  BY <1>1, <1>2 DEF OpToRel
<1>4. PICK m \in S : d = N - m
  OBVIOUS
<1>5. \A x \in S : m >= x
  <2>. SUFFICES ASSUME NEW x \in S PROVE m >= x
    OBVIOUS
  <2>1. x \in Nat /\ m \in Nat /\ N - x \in D
    OBVIOUS
  <2>2. ~(N - x < N - m)
    BY <1>3, <1>4, <2>1
  <2>. HIDE DEF D
  <2>. QED
    BY <2>1, <2>2
<1>6. Max(S) \in S /\ \A y \in S : Max(S) >= y
  BY <1>5 DEF Max
<1>7. \A x, y \in 0..N : x >= y => y <= x
  OBVIOUS
<1>. QED
  BY <1>6, <1>7

\* MaxOf, which the writer uses on sets that may be empty.
LEMMA MaxOfBounds ==
  ASSUME NEW N \in Nat, NEW S \in SUBSET (0..N)
  PROVE  MaxOf(S) \in 0..N /\ \A x \in S : x <= MaxOf(S)
<1>1. CASE S = {}
  BY <1>1 DEF MaxOf
<1>2. CASE S # {}
  BY <1>2, MaxIsGreatest DEF MaxOf
<1>. QED
  BY <1>1, <1>2

\* SizeFor exceeds every number, and is a number.
LEMMA SizeExceeds ==
  ASSUME NEW S \in SUBSET Numbers
  PROVE  SizeFor(S) \in Nat /\ \A n \in S : n < SizeFor(S)
<1>1. MaxNumber \in Nat /\ S \in SUBSET (0..MaxNumber)
  BY BoundsAssumption DEF Numbers
<1>2. MaxOf(S) \in 0..MaxNumber /\ \A x \in S : x <= MaxOf(S)
  BY <1>1, MaxOfBounds
<1>3. \A x, y \in 0..MaxNumber : x <= y => x < y + 1
  OBVIOUS
<1>. QED
  BY <1>1, <1>2, <1>3 DEF SizeFor

\* initialize_incremental_info begins above every number of the base, not
\* below its /Size, and leaves room.
LEMMA FirstNumberBounds ==
  ASSUME NEW b \in Bases, next_object_id = 1
  PROVE  /\ FirstNumber(b) \in Nat /\ FirstNumber(b) >= 1 /\ FirstNumber(b) >= b.size
         /\ \A n \in b.objects : n < FirstNumber(b)
         /\ FirstNumber(b) + 2 <= MaxAllocated
<1>1. /\ b.size \in Nat /\ b.objects \in SUBSET Numbers /\ b.size + 2 <= MaxAllocated
      /\ \A n \in b.objects : n + 3 <= MaxAllocated
      /\ MaxAllocated \in Nat /\ MaxNumber \in Nat /\ MaxAllocated >= 4 /\ MaxAllocated <= MaxNumber
  BY BasesAssumption, BoundsAssumption DEF Base
<1>. DEFINE m == MaxOf(b.objects)
            F == {1, b.size, m + 1}
<1>2. m \in Nat /\ (\A n \in b.objects : n <= m) /\ m + 3 <= MaxAllocated
  <2>1. b.objects \in SUBSET (0..MaxAllocated)
    BY <1>1 DEF Numbers
  <2>2. m \in 0..MaxAllocated /\ \A n \in b.objects : n <= m
    BY <2>1, <1>1, MaxOfBounds
  <2>3. CASE b.objects = {}
    BY <2>3, <1>1 DEF MaxOf
  <2>4. CASE b.objects # {}
    <3>1. m \in b.objects
      BY <2>4, <2>1, <1>1, MaxIsGreatest DEF MaxOf
    <3>. QED
      BY <3>1, <1>1, <2>2
  <2>. QED
    BY <2>2, <2>3, <2>4
<1>3. FirstNumber(b) = Max(F)
  BY DEF FirstNumber
<1>. HIDE DEF m
<1>4. F \in SUBSET (0..MaxAllocated) /\ F # {}
  BY <1>1, <1>2
<1>5. Max(F) \in F /\ \A x \in F : x <= Max(F)
  <2>. HIDE DEF F
  <2>. QED
    BY <1>1, <1>4, MaxIsGreatest
<1>6. /\ Max(F) \in Nat /\ 1 <= Max(F) /\ b.size <= Max(F) /\ m + 1 <= Max(F)
      /\ Max(F) + 2 <= MaxAllocated
  <2>1. Max(F) = 1 \/ Max(F) = b.size \/ Max(F) = m + 1
    BY <1>5
  <2>2. 1 <= Max(F) /\ b.size <= Max(F) /\ m + 1 <= Max(F)
    BY <1>5
  <2>. HIDE DEF F
  <2>. QED
    BY <2>1, <2>2, <1>1, <1>2
<1>7. \A n \in b.objects : n < Max(F)
  <2>. HIDE DEF F
  <2>1. \A n \in b.objects : n \in Nat /\ n <= m
    BY <1>1, <1>2 DEF Numbers
  <2>. QED
    BY <2>1, <1>2, <1>6
<1>. QED
  BY <1>3, <1>6, <1>7

(************************** Object streams *********************************)

\* The rank of a number among the buffered ones, and so its object stream.
Below(n) == {m \in Buffered : m < n}
Rank(n) == Cardinality(Below(n))

\* Quotients by max_objects_per_stream.
LEMMA Quotient ==
  ASSUME NEW a \in Nat
  PROVE  /\ a \div MaxPerStream \in Nat /\ a \div MaxPerStream <= a
         /\ (a + 1) \div MaxPerStream \in {a \div MaxPerStream, a \div MaxPerStream + 1}
         /\ 0 \div MaxPerStream = 0
<1>. DEFINE P == MaxPerStream
            q == a \div P
            r == (a + 1) \div P
<1>1. P \in Nat /\ P >= 1
  BY BoundsAssumption
<1>. HIDE DEF P
<1>2. q \in Nat /\ r \in Nat /\ 0 \div P = 0
  BY <1>1
<1>3. P * q <= a /\ a < P * q + P
  BY <1>1
<1>4. P * r <= a + 1 /\ a + 1 < P * r + P
  BY <1>1
<1>. HIDE DEF q, r
<1>5. q <= a
  <2>1. \A x, y \in Nat : x >= 1 => y <= x * y
    <3>1. SUFFICES ASSUME NEW x \in Nat, NEW y \in Nat, x >= 1 PROVE y <= x * y
      OBVIOUS
    <3>2. x * y = (x - 1) * y + y /\ (x - 1) * y >= 0
      BY <3>1
    <3>. QED
      BY <3>2
  <2>2. q <= P * q /\ P * q \in Nat
    BY <1>1, <1>2, <2>1
  <2>. QED
    BY <1>2, <1>3, <2>2
<1>6. \A x, y \in Nat : x + 1 <= y => P * x + P <= P * y
  <2>1. SUFFICES ASSUME NEW x \in Nat, NEW y \in Nat, x + 1 <= y PROVE P * x + P <= P * y
    OBVIOUS
  <2>2. P * y = P * (x + 1) + P * (y - x - 1) /\ P * (x + 1) = P * x + P /\ P * (y - x - 1) >= 0
    BY <1>1, <2>1
  <2>. QED
    BY <1>1, <2>1, <2>2
<1>7. q <= r
  <2>1. CASE r + 1 <= q
    <3>1. P * r + P <= P * q
      BY <1>2, <1>6, <2>1
    <3>. QED
      BY <1>1, <1>2, <1>3, <1>4, <3>1
  <2>. QED
    BY <1>2, <2>1
<1>8. r <= q + 1
  <2>1. CASE q + 1 + 1 <= r
    <3>1. P * (q + 1) + P <= P * r /\ P * (q + 1) = P * q + P
      BY <1>1, <1>2, <1>6, <2>1
    <3>. QED
      BY <1>1, <1>2, <1>3, <1>4, <3>1
  <2>. QED
    BY <1>2, <2>1
<1>9. r = q \/ r = q + 1
  BY <1>2, <1>7, <1>8
<1>. QED
  BY <1>2, <1>5, <1>9 DEF P, q, r

\* Buffered numbers are few and positive.
LEMMA BufferedFinite ==
  /\ IsFiniteSet(Numbers) /\ Cardinality(Numbers) = MaxNumber
  /\ \A S \in SUBSET Numbers : IsFiniteSet(S) /\ Cardinality(S) \in Nat
  /\ Buffered \subseteq Numbers
  /\ \A n \in Numbers : Below(n) \subseteq Numbers /\ Rank(n) \in Nat
<1>1. IsFiniteSet(Numbers) /\ Cardinality(Numbers) = MaxNumber
  BY FS_Interval, BoundsAssumption DEF Numbers
<1>2. \A S \in SUBSET Numbers : IsFiniteSet(S) /\ Cardinality(S) \in Nat
  BY <1>1, FS_Subset, FS_CardinalityType
<1>. QED
  BY <1>1, <1>2 DEF Buffered, Below, Rank

\* StreamOf by rank.
LEMMA StreamByRank ==
  ASSUME NEW n \in Numbers
  PROVE  /\ StreamOf(n) = StreamBase + Rank(n) \div MaxPerStream
         /\ StreamOf(n) \in Nat /\ StreamBase <= StreamOf(n) /\ StreamOf(n) <= StreamBase + Rank(n)
<1>1. Rank(n) \in Nat /\ StreamBase \in Nat
  BY BufferedFinite, BoundsAssumption
<1>2. StreamOf(n) = StreamBase + Rank(n) \div MaxPerStream
  BY DEF StreamOf, Rank, Below
<1>3. Rank(n) \div MaxPerStream \in Nat /\ Rank(n) \div MaxPerStream <= Rank(n)
  BY <1>1, Quotient
<1>. QED
  BY <1>1, <1>2, <1>3

\* The number before a buffered number, among the buffered ones, has the rank
\* before.
LEMMA RankBefore ==
  ASSUME NEW n \in Buffered, Below(n) # {}
  PROVE  \E p \in Buffered : p < n /\ Rank(n) = Rank(p) + 1
<1>. DEFINE p == Max(Below(n))
<1>1. MaxNumber \in Nat /\ Below(n) \in SUBSET (0..MaxNumber) /\ n \in Numbers
  BY BoundsAssumption DEF Below, Buffered, Numbers
<1>2. p \in Below(n) /\ \A x \in Below(n) : x <= p
  BY <1>1, MaxIsGreatest
<1>3. p \in Buffered /\ p < n /\ p \in Numbers
  BY <1>2 DEF Below, Buffered
<1>. HIDE DEF p
<1>4. \A x \in Numbers : x <= p <=> x < p \/ x = p
  BY <1>3 DEF Numbers
<1>5. \A x \in Numbers : x < p => x < n
  BY <1>1, <1>3 DEF Numbers
<1>6. ~(p < p)
  BY <1>3 DEF Numbers
<1>7. Below(n) = Below(p) \cup {p} /\ p \notin Below(p)
  BY <1>2, <1>3, <1>4, <1>5, <1>6 DEF Below, Buffered
<1>8. Rank(n) = Rank(p) + 1
  BY <1>3, <1>7, BufferedFinite, FS_AddElement DEF Rank
<1>. QED
  BY <1>3, <1>8

\* Object streams are numbered without a gap.
LEMMA StreamBefore ==
  ASSUME NEW s \in Streams, s > StreamBase
  PROVE  s - 1 \in Streams
<1>. DEFINE T == {n \in Buffered : StreamOf(n) = s}
<1>1. T \subseteq Nat /\ T # {} /\ T \subseteq Numbers
  BY DEF Streams, Buffered, Numbers
<1>2. PICK n \in T : \A m \in T : <<m, n>> \notin OpToRel(<, Nat)
  BY <1>1, NatLessThanWellFounded, WFMin
<1>3. \A m \in T : ~(m < n)
  BY <1>1, <1>2 DEF OpToRel
<1>4. n \in Buffered /\ n \in Numbers /\ StreamOf(n) = s
  BY <1>1
<1>5. Below(n) # {}
  <2>1. CASE Below(n) = {}
    <3>1. Rank(n) = 0
      BY <2>1, FS_EmptySet DEF Rank
    <3>2. StreamOf(n) <= StreamBase + 0
      BY <1>4, <3>1, StreamByRank
    <3>. QED
      BY <1>4, <3>2, StreamByRank, BoundsAssumption
  <2>. QED
    BY <2>1
<1>6. PICK p \in Buffered : p < n /\ Rank(n) = Rank(p) + 1
  BY <1>4, <1>5, RankBefore
<1>7. p \in Numbers /\ Rank(p) \in Nat
  BY BufferedFinite
<1>8. StreamOf(p) # s
  BY <1>3, <1>6
<1>9. /\ StreamOf(n) = StreamBase + (Rank(p) + 1) \div MaxPerStream
      /\ StreamOf(p) = StreamBase + Rank(p) \div MaxPerStream
  BY <1>4, <1>6, <1>7, StreamByRank
<1>10. /\ Rank(p) \div MaxPerStream \in Nat
       /\ (Rank(p) + 1) \div MaxPerStream \in {Rank(p) \div MaxPerStream, Rank(p) \div MaxPerStream + 1}
  BY <1>7, Quotient
<1>11. s = StreamOf(p) + 1 /\ StreamOf(p) \in Nat
  <2>1. StreamBase \in Nat
    BY BoundsAssumption
  <2>. QED
    BY <1>4, <1>8, <1>9, <1>10, <2>1
<1>12. s - 1 = StreamOf(p)
  BY <1>11
<1>. QED
  BY <1>12 DEF Streams

\* All numbers from StreamBase to that of a stream are streams, so that its
\* place among them is within their number.
LEMMA StreamsFromBase ==
  ASSUME NEW s \in Streams
  PROVE  /\ s \in Nat /\ s >= StreamBase
         /\ \A k \in StreamBase..s : k \in Streams
<1>1. s \in Nat /\ s >= StreamBase /\ StreamBase \in Nat
  BY StreamByRank, BufferedFinite, BoundsAssumption DEF Streams
<1>. DEFINE G == {k \in StreamBase..s : k \notin Streams}
<1>2. CASE G # {}
  <2>1. G \in SUBSET (0..s)
    BY <1>1
  <2>. DEFINE g == Max(G)
  <2>2. g \in G /\ \A x \in G : x <= g
    <3>. HIDE DEF G
    <3>. QED
      BY <1>1, <1>2, <2>1, MaxIsGreatest
  <2>3. g \in Nat /\ g \in StreamBase..s /\ g \notin Streams
    BY <1>1, <2>2
  <2>4. ~(g + 1 <= g)
    BY <2>3
  <2>5. g # s
    BY <2>3
  <2>. HIDE DEF g
  <2>. DEFINE h == g + 1
  <2>6. h \in StreamBase..s /\ h > StreamBase /\ h - 1 = g /\ ~(h <= g)
    BY <1>1, <2>3, <2>4, <2>5
  <2>. HIDE DEF h
  <2>7. h \in Streams
    BY <2>2, <2>6
  <2>8. h - 1 \in Streams
    <3>. HIDE DEF G
    <3>. QED
      BY <2>6, <2>7, StreamBefore
  <2>. QED
    BY <2>3, <2>6, <2>8
<1>3. CASE G = {}
  BY <1>1, <1>3
<1>. QED
  BY <1>2, <1>3

\* Their number bounds them, and is bounded by what is buffered.
LEMMA StreamsCounted ==
  ASSUME NEW A \in Nat, \A n \in Buffered : n <= A
  PROVE  /\ IsFiniteSet(Streams) /\ Cardinality(Streams) \in 0..A
         /\ \A s \in Streams : s - StreamBase + 1 \in 1..Cardinality(Streams)
<1>1. StreamBase \in Nat
  BY BoundsAssumption
<1>2. \A n \in Buffered : Rank(n) + 1 <= A
  <2>1. SUFFICES ASSUME NEW n \in Buffered PROVE Rank(n) + 1 <= A
    OBVIOUS
  <2>2. n \in Numbers /\ n - 1 \in Nat /\ n <= A /\ n \in Nat
    BY DEF Buffered, Numbers
  <2>3. Below(n) \subseteq 1..(n - 1)
    BY <2>2 DEF Below, Buffered, Numbers
  <2>4. IsFiniteSet(1..(n - 1)) /\ Cardinality(1..(n - 1)) = n - 1
    BY <2>2, FS_Interval
  <2>5. Rank(n) <= n - 1
    BY <2>3, <2>4, FS_Subset DEF Rank
  <2>6. Rank(n) \in Nat
    BY <2>2, BufferedFinite
  <2>. QED
    BY <2>2, <2>5, <2>6
<1>3. Streams \subseteq StreamBase..(StreamBase + A - 1)
  <2>1. SUFFICES ASSUME NEW n \in Buffered PROVE StreamOf(n) \in StreamBase..(StreamBase + A - 1)
    BY DEF Streams
  <2>2. n \in Numbers /\ Rank(n) \in Nat
    BY BufferedFinite
  <2>3. StreamOf(n) \in Nat /\ StreamBase <= StreamOf(n) /\ StreamOf(n) <= StreamBase + Rank(n)
    BY <2>2, StreamByRank
  <2>. QED
    BY <1>1, <1>2, <2>2, <2>3
<1>4. /\ IsFiniteSet(StreamBase..(StreamBase + A - 1))
      /\ Cardinality(StreamBase..(StreamBase + A - 1)) = A
  <2>1. StreamBase \in Int /\ StreamBase + A - 1 \in Int
    BY <1>1
  <2>2. /\ IsFiniteSet(StreamBase..(StreamBase + A - 1))
        /\ Cardinality(StreamBase..(StreamBase + A - 1))
             = IF StreamBase > StreamBase + A - 1 THEN 0 ELSE (StreamBase + A - 1) - StreamBase + 1
    BY <2>1, FS_Interval
  <2>. QED
    BY <1>1, <2>2
<1>5. IsFiniteSet(Streams) /\ Cardinality(Streams) \in Nat /\ Cardinality(Streams) <= A
  BY <1>3, <1>4, FS_Subset, FS_CardinalityType
<1>6. ASSUME NEW s \in Streams PROVE s - StreamBase + 1 \in 1..Cardinality(Streams)
  <2>1. s \in Nat /\ s >= StreamBase /\ StreamBase..s \subseteq Streams
    BY StreamsFromBase
  <2>2. Cardinality(StreamBase..s) = s - StreamBase + 1 /\ IsFiniteSet(StreamBase..s)
    <3>1. StreamBase \in Int /\ s \in Int
      BY <1>1, <2>1
    <3>2. /\ IsFiniteSet(StreamBase..s)
          /\ Cardinality(StreamBase..s) = IF StreamBase > s THEN 0 ELSE s - StreamBase + 1
      BY <3>1, FS_Interval
    <3>. QED
      BY <1>1, <2>1, <3>2
  <2>3. Cardinality(StreamBase..s) <= Cardinality(Streams)
    BY <1>5, <2>1, FS_Subset
  <2>. QED
    BY <1>1, <1>5, <2>1, <2>2, <2>3
<1>. QED
  BY <1>5, <1>6

(************************** Writing one object *****************************)

\* A step that writes one object, before the object streams are flushed: a
\* number that is allocated and, the page tree of a revision aside, not written
\* yet, under the key that belongs to it.
Unflushed == {"body", "catalog", "info", "encrypt"}
Writes(n, kind, active) ==
    /\ WriteObject(n, kind, active) /\ UNCHANGED <<request, ids, trailer>>
    /\ phase \in Unflushed /\ phase' \in Unflushed \cup {"flush"}
    /\ phase' = "body" => phase = "body"
    /\ n < next_object_id
    /\ active <=> encryption /\ n # encrypt_obj_id
    /\ n \in Written => n = pages_id /\ Incremental /\ phase = "body"
    /\ kind = "draft" => n = pages_id /\ Incremental /\ phase' = "body"
    /\ n = pages_id /\ Incremental /\ phase' = "body" => kind = "draft"
    /\ Incremental /\ phase = "body" /\ phase' # "body" => n = pages_id

Key(n, active) == IF active THEN n ELSE 0
Made(n, kind, active) == [n |-> n, kind |-> kind, key |-> Key(n, active)]

\* What is made is an object, and not None.
LEMMA MadeIsObject ==
  ASSUME NEW n \in Numbers, NEW kind \in {"stream", "plain", "draft"}, NEW active \in BOOLEAN
  PROVE  /\ Made(n, kind, active) \in Object /\ Made(n, kind, active) # None
         /\ Made(n, kind, active).n = n /\ Made(n, kind, active).kind = kind
         /\ Made(n, kind, active).key = Key(n, active)
<1>1. Key(n, active) \in {0} \cup Numbers
  BY DEF Key
<1>2. Made(n, kind, active) \in Object
  BY <1>1 DEF Made, Object
<1>3. Made(n, kind, active) # None
  BY <1>2, NoneAssumption
<1>. QED
  BY <1>2, <1>3 DEF Made

\* The two cases of write_object.
LEMMA WriteCases ==
  ASSUME NEW n \in Numbers, NEW kind, NEW active, TypeOK, WriteObject(n, kind, active)
  PROVE  /\ written' = [written EXCEPT ![n] = Made(n, kind, active)]
         /\ compressed_object_map' = compressed_object_map
         /\ \/ /\ config.use_object_streams /\ bodies' = bodies /\ xref_positions' = xref_positions
               /\ buffered_objects' = [buffered_objects EXCEPT ![n] = Made(n, kind, active)]
            \/ /\ ~Packable(kind) /\ buffered_objects' = buffered_objects
               /\ bodies' = Append(bodies, Made(n, kind, active))
               /\ xref_positions' = [xref_positions EXCEPT ![n] = Len(bodies) + 1]
<1>1. CASE Packable(kind)
  BY <1>1 DEF WriteObject, Made, Key, Packable
<1>2. CASE ~Packable(kind)
  BY <1>2 DEF WriteObject, Made, Key, PositionsWith
<1>. QED
  BY <1>1, <1>2

\* The numbers written then include that one.
LEMMA WrittenGrows ==
  ASSUME NEW n \in Numbers, NEW kind \in {"stream", "plain", "draft"}, NEW active \in BOOLEAN,
         TypeOK, WriteObject(n, kind, active)
  PROVE  /\ Written' = Written \cup {n} /\ written'[n] = Made(n, kind, active)
         /\ \A m \in Numbers : m # n => written'[m] = written[m]
<1>1. written' = [written EXCEPT ![n] = Made(n, kind, active)]
  BY WriteCases
<1>2. written \in [Numbers -> Object \cup {None}]
  BY DEF TypeOK
<1>3. written'[n] = Made(n, kind, active) /\ \A m \in Numbers : m # n => written'[m] = written[m]
  BY <1>1, <1>2
<1>4. Made(n, kind, active) # None
  BY MadeIsObject
<1>5. Written' = Written \cup {n}
  BY <1>3, <1>4 DEF Written
<1>. QED
  BY <1>3, <1>5

\* The types are kept.
LEMMA WriteTypes ==
  ASSUME NEW n \in Numbers, NEW kind \in {"stream", "plain", "draft"}, NEW active \in BOOLEAN,
         TypeOK, Writes(n, kind, active), owed' \subseteq owed
  PROVE  TypeOK'
<1>1. UNCHANGED <<config, encryption, base, info_policy>> /\ UNCHANGED ids /\ trailer' = trailer
  BY DEF Writes, request
<1>2. phase' \in {"start", "refused", "body", "catalog", "info", "encrypt", "flush", "xref", "done"}
  BY DEF Writes, Unflushed
<1>3. Made(n, kind, active) \in Object
  BY MadeIsObject
<1>4. WriteObject(n, kind, active)
  BY DEF Writes
<1>5. /\ written' \in [Numbers -> Object \cup {None}]
      /\ compressed_object_map' \in [Numbers -> Numbers \cup {None}]
  <2>1. /\ written' = [written EXCEPT ![n] = Made(n, kind, active)]
        /\ compressed_object_map' = compressed_object_map
    BY <1>4, WriteCases
  <2>2. written \in [Numbers -> Object \cup {None}] /\ compressed_object_map \in [Numbers -> Numbers \cup {None}]
    BY DEF TypeOK
  <2>. QED
    BY <1>3, <2>1, <2>2
<1>6. /\ bodies' \in Seq(Object) /\ xref_positions' \in [Numbers -> 0..Len(bodies')]
      /\ buffered_objects' \in [Numbers -> Object \cup {None}]
  <2>1. /\ bodies \in Seq(Object) /\ xref_positions \in [Numbers -> 0..Len(bodies)]
        /\ buffered_objects \in [Numbers -> Object \cup {None}] /\ Len(bodies) \in Nat
    BY DEF TypeOK
  <2>2. CASE /\ bodies' = bodies /\ xref_positions' = xref_positions
             /\ buffered_objects' = [buffered_objects EXCEPT ![n] = Made(n, kind, active)]
    BY <1>3, <2>1, <2>2
  <2>3. CASE /\ buffered_objects' = buffered_objects
             /\ bodies' = Append(bodies, Made(n, kind, active))
             /\ xref_positions' = [xref_positions EXCEPT ![n] = Len(bodies) + 1]
    <3>1. bodies' \in Seq(Object) /\ Len(bodies') = Len(bodies) + 1
      BY <1>3, <2>1, <2>3
    <3>2. 0..Len(bodies) \subseteq 0..Len(bodies') /\ Len(bodies) + 1 \in 0..Len(bodies')
      BY <2>1, <3>1
    <3>3. xref_positions' \in [Numbers -> 0..Len(bodies')]
      BY <2>1, <2>3, <3>2
    <3>. QED
      BY <2>1, <2>3, <3>1, <3>3
  <2>. QED
    BY <1>4, <2>2, <2>3, WriteCases
<1>7. owed' \subseteq Numbers
  BY DEF TypeOK
<1>8. next_object_id' \in Numbers /\ {catalog_id, pages_id, info_id, encrypt_obj_id}' \subseteq Numbers \cup {None}
  BY <1>1 DEF TypeOK, ids
<1>. QED
  BY <1>1, <1>2, <1>5, <1>6, <1>7, <1>8 DEF TypeOK

\* What is written last.
LEMMA WriteContent ==
  ASSUME NEW n \in Numbers, NEW kind \in {"stream", "plain", "draft"}, NEW active \in BOOLEAN,
         IInv, Writes(n, kind, active)
  PROVE  Content'
<1>1. UNCHANGED <<config, encryption, base, info_policy>> /\ UNCHANGED ids
  BY DEF Writes, request
<1>2. encryption' = encryption /\ encrypt_obj_id' = encrypt_obj_id /\ pages_id' = pages_id
  BY <1>1 DEF ids
<1>3. Incremental' <=> Incremental
  BY <1>1 DEF Incremental
<1>4. /\ Written' = Written \cup {n} /\ written'[n] = Made(n, kind, active)
      /\ \A m \in Numbers : m # n => written'[m] = written[m]
  BY WrittenGrows DEF Writes, IInv
<1>5. Written \subseteq Numbers
  BY DEF Written
<1>6. SUFFICES ASSUME NEW m \in Written'
               PROVE  /\ written'[m].n = m
                      /\ written'[m].key = IF encryption /\ m # encrypt_obj_id THEN m ELSE 0
                      /\ written'[m].kind = "draft" => m = pages_id /\ Incremental /\ phase' = "body"
                      /\ m = pages_id /\ Incremental /\ phase' = "body" => written'[m].kind = "draft"
  BY <1>2, <1>3 DEF Content
<1>7. CASE m = n
  <2>1. written'[m].n = n /\ written'[m].kind = kind /\ written'[m].key = Key(n, active)
    BY <1>4, <1>7, MadeIsObject
  <2>2. Key(n, active) = IF encryption /\ n # encrypt_obj_id THEN n ELSE 0
    BY DEF Writes, Key
  <2>. QED
    BY <1>7, <2>1, <2>2 DEF Writes
<1>8. CASE m # n
  <2>1. m \in Written /\ written'[m] = written[m]
    BY <1>4, <1>5, <1>8
  <2>2. /\ written[m].n = m
        /\ written[m].key = IF encryption /\ m # encrypt_obj_id THEN m ELSE 0
        /\ written[m].kind = "draft" => m = pages_id /\ Incremental /\ phase = "body"
        /\ m = pages_id /\ Incremental /\ phase = "body" => written[m].kind = "draft"
    BY <2>1 DEF IInv, Content
  <2>3. m = pages_id /\ Incremental /\ phase = "body" => phase' = "body"
    BY <1>8 DEF Writes
  <2>. QED
    BY <2>1, <2>2, <2>3 DEF Writes
<1>. QED
  BY <1>7, <1>8

\* Where it is written.
LEMMA WriteWhereabouts ==
  ASSUME NEW n \in Numbers, NEW kind \in {"stream", "plain", "draft"}, NEW active \in BOOLEAN,
         IInv, Writes(n, kind, active)
  PROVE  /\ Whereabouts'
         /\ Buffered' = Buffered \/ (config.use_object_streams /\ Buffered' = Buffered \cup {n})
<1>. DEFINE made == Made(n, kind, active)
<1>1. config' = config /\ ~Flushed /\ ~Flushed'
  BY DEF Writes, request, Flushed, Unflushed
<1>2. /\ Written' = Written \cup {n} /\ written'[n] = made
      /\ \A m \in Numbers : m # n => written'[m] = written[m]
  BY WrittenGrows DEF Writes, IInv
<1>3. Written \subseteq Numbers /\ Buffered \subseteq Numbers
  BY DEF Written, Buffered
<1>4. /\ Buffered \subseteq Written /\ (Buffered # {} => config.use_object_streams)
      /\ \A m \in Buffered : buffered_objects[m] = written[m]
      /\ \A m \in Written \ Buffered : xref_positions[m] # 0 /\ bodies[xref_positions[m]] = written[m]
  BY <1>1 DEF IInv, Whereabouts
<1>5. made # None
  BY MadeIsObject
<1>6. /\ bodies \in Seq(Object) /\ xref_positions \in [Numbers -> 0..Len(bodies)]
      /\ buffered_objects \in [Numbers -> Object \cup {None}] /\ Len(bodies) \in Nat
  BY DEF IInv, TypeOK
<1>. HIDE DEF made
<1>7. CASE /\ config.use_object_streams /\ bodies' = bodies /\ xref_positions' = xref_positions
           /\ buffered_objects' = [buffered_objects EXCEPT ![n] = made]
  <2>1. buffered_objects'[n] = made /\ \A m \in Numbers : m # n => buffered_objects'[m] = buffered_objects[m]
    BY <1>6, <1>7
  <2>2. Buffered' = Buffered \cup {n}
    BY <1>5, <2>1 DEF Buffered
  <2>3. \A m \in Buffered' : buffered_objects'[m] = written'[m]
    BY <1>2, <1>3, <1>4, <2>1, <2>2
  <2>4. \A m \in Written' \ Buffered' : m # n /\ m \in Written \ Buffered
    BY <1>2, <2>2
  <2>5. \A m \in Written' \ Buffered' : xref_positions'[m] # 0 /\ bodies'[xref_positions'[m]] = written'[m]
    BY <1>2, <1>3, <1>4, <1>7, <2>4
  <2>6. Buffered' \subseteq Written'
    BY <1>2, <1>4, <2>2
  <2>. QED
    BY <1>1, <1>7, <2>2, <2>3, <2>5, <2>6 DEF Whereabouts
<1>8. CASE /\ ~Packable(kind) /\ buffered_objects' = buffered_objects
           /\ bodies' = Append(bodies, made)
           /\ xref_positions' = [xref_positions EXCEPT ![n] = Len(bodies) + 1]
  <2>1. Buffered' = Buffered
    BY <1>8 DEF Buffered
  <2>2. n \notin Buffered
    <3>1. CASE n \in Written
      <4>1. Incremental /\ Begun
        BY <3>1 DEF Writes, Begun, Unflushed
      <4>2. ~config.use_object_streams
        BY <4>1 DEF IInv, Reserved
      <4>. QED
        BY <1>4, <4>2
    <3>2. CASE n \notin Written
      BY <1>4, <3>2
    <3>. QED
      BY <3>1, <3>2
  <2>3. \A m \in Buffered' : buffered_objects'[m] = written'[m]
    BY <1>2, <1>3, <1>4, <1>8, <2>1, <2>2
  <2>4. /\ xref_positions'[n] = Len(bodies) + 1
        /\ \A m \in Numbers : m # n => xref_positions'[m] = xref_positions[m]
    BY <1>6, <1>8
  <2>5. made \in Object
    BY MadeIsObject DEF made
  <2>6. /\ bodies'[Len(bodies) + 1] = made
        /\ \A i \in 1..Len(bodies) : bodies'[i] = bodies[i]
    BY <1>6, <1>8, <2>5
  <2>7. ASSUME NEW m \in Written' \ Buffered'
        PROVE  xref_positions'[m] # 0 /\ bodies'[xref_positions'[m]] = written'[m]
    <3>1. CASE m = n
      <4>1. Len(bodies) + 1 # 0
        BY <1>6
      <4>. QED
        BY <1>2, <2>4, <2>6, <3>1, <4>1
    <3>2. CASE m # n
      <4>1. m \in Written \ Buffered /\ m \in Numbers
        BY <1>2, <1>3, <2>1, <3>2
      <4>2. xref_positions[m] \in 0..Len(bodies) /\ xref_positions[m] # 0
        BY <1>4, <1>6, <4>1
      <4>3. xref_positions[m] \in 1..Len(bodies)
        BY <1>6, <4>2
      <4>. QED
        BY <1>2, <1>4, <2>4, <2>6, <3>2, <4>1, <4>3
    <3>. QED
      BY <3>1, <3>2
  <2>8. Buffered' \subseteq Written'
    BY <1>2, <1>4, <2>1
  <2>. QED
    <3>1. Buffered' # {} => config'.use_object_streams
      BY <1>1, <1>4, <2>1
    <3>2. \A m \in Written' \ Buffered' : xref_positions'[m] # 0 /\ bodies'[xref_positions'[m]] = written'[m]
      BY <2>7
    <3>3. Whereabouts'
      BY <2>3, <2>8, <3>1, <3>2 DEF Whereabouts
    <3>. QED
      BY <2>1, <3>3
<1>9. WriteObject(n, kind, active) /\ TypeOK
  BY DEF Writes, IInv
<1>. QED
  <2>1. \/ /\ config.use_object_streams /\ bodies' = bodies /\ xref_positions' = xref_positions
           /\ buffered_objects' = [buffered_objects EXCEPT ![n] = made]
        \/ /\ ~Packable(kind) /\ buffered_objects' = buffered_objects
           /\ bodies' = Append(bodies, made)
           /\ xref_positions' = [xref_positions EXCEPT ![n] = Len(bodies) + 1]
    BY <1>9, WriteCases DEF made
  <2>. QED
    BY <2>1, <1>7, <1>8

\* What is in the file before the object streams are flushed: objects that are
\* written and not buffered.
LEMMA BodiesUnflushed ==
  ASSUME IInv, ~Flushed
  PROVE  \A i \in DOMAIN bodies :
            /\ bodies[i].n \in Written \ Buffered
            /\ bodies[i].kind = "draft" => bodies[i].n = pages_id /\ Incremental
BY DEF IInv, Bodies, Flushed

\* The bodies are still as they should be.
LEMMA WriteBodies ==
  ASSUME NEW n \in Numbers, NEW kind \in {"stream", "plain", "draft"}, NEW active \in BOOLEAN,
         IInv, Writes(n, kind, active)
  PROVE  Bodies'
<1>. DEFINE made == Made(n, kind, active)
<1>1. /\ config' = config /\ encryption' = encryption /\ pages_id' = pages_id
      /\ next_object_id' = next_object_id /\ ~Flushed /\ ~Flushed'
  BY DEF Writes, request, ids, Flushed, Unflushed
<1>2. (Incremental' <=> Incremental) /\ (BelowStreams' <=> BelowStreams)
  BY <1>1 DEF Writes, request, Incremental, BelowStreams
<1>3. Written' = Written \cup {n}
  BY WrittenGrows DEF Writes, IInv
<1>4. Buffered' = Buffered \/ (config.use_object_streams /\ Buffered' = Buffered \cup {n})
  BY WriteWhereabouts
<1>5. \A i \in DOMAIN bodies :
            /\ bodies[i].n \in Written \ Buffered
            /\ bodies[i].kind = "draft" => bodies[i].n = pages_id /\ Incremental
  BY <1>1, BodiesUnflushed
<1>6. bodies \in Seq(Object) /\ Len(bodies) \in Nat /\ DOMAIN bodies = 1..Len(bodies)
  BY DEF IInv, TypeOK
<1>7. /\ BelowStreams => \A i, j \in DOMAIN bodies :
                             i < j /\ bodies[i].n = bodies[j].n => bodies[i].kind = "draft"
      /\ Incremental /\ phase = "body" =>
            \A i \in DOMAIN bodies : bodies[i].n = pages_id => bodies[i].kind = "draft"
      /\ ~encryption => \A i \in DOMAIN bodies : bodies[i].key = 0
  BY DEF IInv, Bodies
<1>8. n \in Written => n = pages_id /\ Incremental /\ phase = "body"
  BY DEF Writes
<1>9. Incremental /\ phase' = "body" => phase = "body" /\ (n = pages_id => kind = "draft")
  BY DEF Writes
<1>10. kind = "draft" => n = pages_id /\ Incremental
  BY DEF Writes
<1>11. /\ made \in Object /\ made.n = n /\ made.kind = kind /\ (~encryption => made.key = 0)
  <2>1. ~encryption => Key(n, active) = 0
    BY DEF Writes, Key
  <2>. QED
    BY <2>1, MadeIsObject
<1>. HIDE DEF made
<1>12. CASE config.use_object_streams /\ bodies' = bodies
  <2>1. ~Incremental
    BY <1>12 DEF IInv, Reserved, Begun, Writes, Unflushed
  <2>2. n \notin Written
    BY <1>8, <2>1
  <2>3. \A i \in DOMAIN bodies' : bodies'[i].n \in Written' \ Buffered' /\ bodies'[i].kind # "draft"
    BY <1>3, <1>4, <1>5, <1>12, <2>1, <2>2
  <2>. QED
    BY <1>1, <1>2, <1>7, <1>12, <2>1, <2>3 DEF Bodies
<1>13. CASE ~Packable(kind) /\ buffered_objects' = buffered_objects /\ bodies' = Append(bodies, made)
  <2>1. Buffered' = Buffered
    BY <1>13 DEF Buffered
  <2>2. n \notin Buffered
    <3>1. CASE n \in Written
      BY <1>8, <3>1 DEF Writes, IInv, Whereabouts, Reserved, Begun, Unflushed
    <3>2. CASE n \notin Written
      BY <3>2 DEF IInv, Whereabouts
    <3>. QED
      BY <3>1, <3>2
  <2>. DEFINE L == Len(bodies)
  <2>3. /\ Len(bodies') = L + 1 /\ DOMAIN bodies' = 1..(L + 1)
        /\ bodies'[L + 1] = made /\ \A i \in 1..L : bodies'[i] = bodies[i]
    BY <1>6, <1>11, <1>13
  <2>4. L \in Nat /\ DOMAIN bodies = 1..L
    BY <1>6
  <2>. HIDE DEF L
  <2>5. \A i \in 1..(L + 1) : i \in 1..L \/ i = L + 1
    BY <2>4
  <2>6. \A i \in DOMAIN bodies' :
           /\ bodies'[i].n \in Written' \ Buffered'
           /\ bodies'[i].kind = "draft" => bodies'[i].n = pages_id /\ Incremental
    <3>1. SUFFICES ASSUME NEW i \in DOMAIN bodies'
                   PROVE  /\ bodies'[i].n \in Written' \ Buffered'
                          /\ bodies'[i].kind = "draft" => bodies'[i].n = pages_id /\ Incremental
      OBVIOUS
    <3>2. CASE i \in 1..L
      BY <1>3, <1>5, <2>1, <2>3, <2>4, <3>2
    <3>3. CASE i = L + 1
      BY <1>3, <1>10, <1>11, <2>1, <2>2, <2>3, <3>3
    <3>. QED
      BY <2>3, <2>5, <3>2, <3>3
  <2>7. ASSUME BelowStreams, NEW i \in DOMAIN bodies', NEW j \in DOMAIN bodies', i < j,
               bodies'[i].n = bodies'[j].n
        PROVE  bodies'[i].kind = "draft"
    <3>1. i \in 1..L
      BY <2>3, <2>4, <2>7
    <3>2. CASE j \in 1..L
      BY <1>7, <2>3, <2>4, <2>7, <3>1, <3>2
    <3>3. CASE j = L + 1
      <4>1. bodies[i].n = n
        BY <1>11, <2>3, <2>7, <3>1, <3>3
      <4>2. n \in Written
        BY <1>5, <2>4, <3>1, <4>1
      <4>. QED
        BY <1>7, <1>8, <2>3, <2>4, <3>1, <4>1, <4>2
    <3>. QED
      BY <2>3, <2>5, <3>2, <3>3
  <2>8. ASSUME Incremental, phase' = "body", NEW i \in DOMAIN bodies', bodies'[i].n = pages_id
        PROVE  bodies'[i].kind = "draft"
    <3>1. CASE i \in 1..L
      BY <1>7, <1>9, <2>3, <2>4, <2>8, <3>1
    <3>2. CASE i = L + 1
      BY <1>9, <1>11, <2>3, <2>8, <3>2
    <3>. QED
      BY <2>3, <2>5, <3>1, <3>2
  <2>9. ASSUME ~encryption, NEW i \in DOMAIN bodies' PROVE bodies'[i].key = 0
    <3>1. CASE i \in 1..L
      BY <1>7, <2>3, <2>4, <2>9, <3>1
    <3>2. CASE i = L + 1
      BY <1>11, <2>3, <2>9, <3>2
    <3>. QED
      BY <2>3, <2>5, <3>1, <3>2
  <2>. QED
    BY <1>1, <1>2, <2>6, <2>7, <2>8, <2>9 DEF Bodies
<1>14. WriteObject(n, kind, active) /\ TypeOK
  BY DEF Writes, IInv
<1>. QED
  <2>1. \/ config.use_object_streams /\ bodies' = bodies
        \/ ~Packable(kind) /\ buffered_objects' = buffered_objects /\ bodies' = Append(bodies, made)
    BY <1>14, WriteCases DEF made
  <2>. QED
    BY <2>1, <1>12, <1>13

\* The reserved numbers, the object streams, the trailer.
LEMMA WriteRest ==
  ASSUME NEW n \in Numbers, NEW kind \in {"stream", "plain", "draft"}, NEW active \in BOOLEAN,
         IInv, Writes(n, kind, active)
  PROVE  Blank' /\ Reserved' /\ Packs' /\ Trailer'
<1>1. /\ config' = config /\ encryption' = encryption /\ base' = base /\ info_policy' = info_policy
      /\ next_object_id' = next_object_id /\ catalog_id' = catalog_id /\ pages_id' = pages_id
      /\ info_id' = info_id /\ encrypt_obj_id' = encrypt_obj_id /\ trailer' = trailer
  BY DEF Writes, request, ids
<1>2. /\ ~Flushed /\ ~Flushed' /\ Begun /\ Begun' /\ phase # "done" /\ phase' # "done"
  BY DEF Writes, Flushed, Begun, Unflushed
<1>3. compressed_object_map' = compressed_object_map
  BY WriteCases DEF Writes, IInv
<1>4. Incremental' <=> Incremental
  BY <1>1 DEF Incremental
<1>5. Blank'
  BY <1>2 DEF Blank
<1>6. Reserved'
  BY <1>1, <1>2, <1>4 DEF Reserved, IInv
<1>7. Packs'
  BY <1>2, <1>3 DEF Packs, IInv
<1>8. Trailer'
  BY <1>1, <1>2 DEF Trailer, IInv
<1>. QED
  BY <1>5, <1>6, <1>7, <1>8

(************************** The writer's steps *****************************)

\* The initial states.
LEMMA InitEstablishes == Init => IInv
<1>. SUFFICES ASSUME Init PROVE IInv
  OBVIOUS
<1>1. 1 \in Numbers /\ None \notin Numbers
  BY BoundsAssumption, NoneAssumption DEF Numbers
<1>2. Written = {} /\ Buffered = {} /\ ~Begun /\ ~Flushed /\ phase = "start" /\ bodies = <<>>
  BY DEF Init, Written, Buffered, Begun, Flushed
<1>3. TypeOK
  <2>1. bodies \in Seq(Object) /\ 0 \in 0..Len(bodies)
    BY <1>2
  <2>. QED
    BY <1>1, <2>1 DEF Init, TypeOK
<1>4. Blank
  BY DEF Init, Blank
<1>5. Reserved
  BY <1>2 DEF Init, Reserved, Incremental
<1>6. Fresh
  BY <1>1, <1>2 DEF Init, Fresh
<1>7. Content /\ Whereabouts
  BY <1>2 DEF Content, Whereabouts
<1>8. Bodies
  <2>1. DOMAIN bodies = {}
    BY <1>2
  <2>. QED
    BY <2>1 DEF Bodies
<1>9. Packs /\ Trailer
  BY <1>2 DEF Packs, Trailer, Init
<1>. QED
  BY <1>3, <1>4, <1>5, <1>6, <1>7, <1>8, <1>9 DEF IInv

\* As long as nothing is written, there is nothing to find.
LEMMA NothingWritten ==
  ASSUME IInv, ~Begun, UNCHANGED <<request, output, trailer>>, phase' \in {"refused", "body"}
  PROVE  /\ Content' /\ Whereabouts' /\ Bodies' /\ Packs' /\ Trailer'
         /\ Written' = {}
<1>1. /\ bodies' = bodies /\ written' = written
      /\ buffered_objects' = buffered_objects /\ compressed_object_map' = compressed_object_map
      /\ trailer' = trailer
  BY DEF output
<1>2. bodies' = <<>> /\ Written' = {} /\ Buffered' = {}
  <2>1. Blank
    BY DEF IInv
  <2>2. bodies = <<>> /\ \A n \in Numbers : written[n] = None /\ buffered_objects[n] = None
    BY <2>1 DEF Blank
  <2>. QED
    BY <1>1, <2>2 DEF Written, Buffered
<1>3. ~Flushed' /\ phase' # "done" /\ ~Flushed /\ phase # "done"
  BY DEF Flushed, Begun
<1>4. Content' /\ Whereabouts'
  BY <1>2 DEF Content, Whereabouts
<1>5. Bodies'
  <2>1. DOMAIN bodies' = {}
    BY <1>2
  <2>. QED
    BY <2>1 DEF Bodies
<1>6. Packs' /\ Trailer'
  BY <1>1, <1>3 DEF IInv, Packs, Trailer
<1>. QED
  BY <1>2, <1>4, <1>5, <1>6

\* A step that writes nothing, before the object streams are flushed.
Passes ==
    /\ UNCHANGED <<request, output, trailer, pages_id, encrypt_obj_id>>
    /\ phase \in Unflushed /\ phase' \in Unflushed \cup {"flush"}
    /\ phase = "body" <=> phase' = "body"
    /\ next_object_id' \in Nat /\ next_object_id <= next_object_id'

\* It leaves what is written as it should be.
LEMMA PassKeeps ==
  ASSUME IInv, Passes
  PROVE  /\ Content' /\ Whereabouts' /\ Bodies' /\ Packs' /\ Trailer'
         /\ Written' = Written
<1>1. /\ config' = config /\ encryption' = encryption /\ base' = base
      /\ bodies' = bodies /\ xref_positions' = xref_positions /\ written' = written
      /\ buffered_objects' = buffered_objects /\ compressed_object_map' = compressed_object_map
      /\ trailer' = trailer /\ pages_id' = pages_id /\ encrypt_obj_id' = encrypt_obj_id
  BY DEF Passes, request, output
<1>2. Written' = Written /\ Buffered' = Buffered /\ (Incremental' <=> Incremental)
  BY <1>1 DEF Written, Buffered, Incremental
<1>3. ~Flushed /\ ~Flushed' /\ phase' # "done" /\ phase # "done" /\ (phase = "body" <=> phase' = "body")
  BY DEF Flushed, Passes, Unflushed
<1>4. BelowStreams' => BelowStreams
  <2>1. next_object_id \in Nat /\ StreamBase \in Nat
    BY BoundsAssumption DEF IInv, TypeOK, Numbers
  <2>. QED
    BY <2>1 DEF BelowStreams, Passes
<1>5. Content'
  BY <1>1, <1>2, <1>3 DEF IInv, Content
<1>6. Whereabouts'
  BY <1>1, <1>2, <1>3 DEF IInv, Whereabouts
<1>7. Bodies'
  BY <1>1, <1>2, <1>3, <1>4 DEF IInv, Bodies
<1>8. Packs' /\ Trailer'
  BY <1>1, <1>3 DEF IInv, Packs, Trailer
<1>. QED
  BY <1>2, <1>5, <1>6, <1>7, <1>8

\* The types a step keeps that writes nothing.
LEMMA UnwrittenTypes ==
  ASSUME TypeOK, UNCHANGED <<request, output, trailer>>,
         phase' \in {"start", "refused", "body", "catalog", "info", "encrypt", "flush", "xref", "done"},
         next_object_id' \in Numbers, owed' \subseteq Numbers,
         {catalog_id', pages_id', info_id', encrypt_obj_id'} \subseteq Numbers \cup {None}
  PROVE  TypeOK'
BY DEF TypeOK, request, output

\* write_document reserves the numbers of a file of its own.
LEMMA BeginDocumentKeeps == IInv /\ BeginDocument => IInv'
<1>. SUFFICES ASSUME IInv, BeginDocument PROVE IInv'
  OBVIOUS
<1>1. /\ phase = "start" /\ phase' = "body" /\ ~Incremental
      /\ catalog_id' = 1 /\ pages_id' = 2 /\ info_id' = 3
      /\ encrypt_obj_id' = (IF encryption THEN 4 ELSE None)
      /\ next_object_id' = (IF encryption THEN 5 ELSE 4) /\ owed' = {2}
      /\ UNCHANGED <<request, output, trailer>>
  BY DEF BeginDocument
<1>2. encryption' = encryption /\ config' = config /\ ~Incremental'
  BY <1>1 DEF request, Incremental
<1>3. ~Begun /\ Begun'
  BY <1>1 DEF Begun
<1>4. Content' /\ Whereabouts' /\ Bodies' /\ Packs' /\ Trailer' /\ Written' = {}
  BY <1>1, <1>3, NothingWritten
<1>5. {1, 2, 3, 4, 5} \subseteq Numbers /\ None \notin Nat /\ MaxAllocated \in Nat /\ 4 <= MaxAllocated
  BY BoundsAssumption, NoneAssumption DEF Numbers
<1>6. TypeOK'
  <2>1. next_object_id' \in Numbers /\ owed' \subseteq Numbers
        /\ {catalog_id', pages_id', info_id', encrypt_obj_id'} \subseteq Numbers \cup {None}
    BY <1>1, <1>5
  <2>. QED
    BY <1>1, <2>1, UnwrittenTypes DEF IInv
<1>7. Blank'
  BY <1>3 DEF Blank
<1>8. Reserved'
  <2>1. encrypt_obj_id' \in {4, None}
    BY <1>1
  <2>2. {catalog_id', pages_id'} \cap {info_id', encrypt_obj_id'} = {} /\ catalog_id' # pages_id'
        /\ info_id' # encrypt_obj_id'
    BY <1>1, <1>5, <2>1
  <2>3. \A n \in {catalog_id', pages_id', info_id', encrypt_obj_id'} \ {None} : n < next_object_id'
    BY <1>1, <1>5
  <2>4. next_object_id' <= MaxAllocated + 1
    BY <1>1, <1>5
  <2>5. catalog_id' \in Numbers /\ pages_id' \in Numbers /\ info_id' \in Numbers
    BY <1>1, <1>5
  <2>6. (~encryption' => encrypt_obj_id' = None) /\ (encryption' => encrypt_obj_id' # None)
    BY <1>1, <1>2, <1>5
  <2>. QED
    BY <1>2, <2>2, <2>3, <2>4, <2>5, <2>6 DEF Reserved
<1>9. Fresh'
  <2>1. Last' = next_object_id'
    BY <1>1 DEF Last
  <2>2. 2 < next_object_id'
    BY <1>1
  <2>3. owed' \cap {catalog_id', info_id', encrypt_obj_id'} = {}
    BY <1>1, <1>5
  <2>. QED
    BY <1>1, <1>2, <1>4, <2>1, <2>2, <2>3 DEF Fresh
<1>. QED
  BY <1>4, <1>6, <1>7, <1>8, <1>9 DEF IInv

\* initialize_incremental_info reserves numbers that the base does not use.
LEMMA BeginRevisionKeeps == IInv /\ BeginRevision => IInv'
<1>. SUFFICES ASSUME IInv, BeginRevision PROVE IInv'
  OBVIOUS
<1>. DEFINE F == FirstNumber(base)
            first == IF info_policy = "replace" THEN F + 1 ELSE F
<1>1. /\ phase = "start" /\ phase' = "body" /\ Incremental /\ ~Refused
      /\ info_id' = (IF info_policy = "replace" THEN F ELSE None)
      /\ catalog_id' = first /\ pages_id' = first + 1 /\ next_object_id' = first + 2
      /\ owed' = {first + 1} \cup base.pages /\ encrypt_obj_id' = encrypt_obj_id
      /\ UNCHANGED <<request, output, trailer>>
  BY DEF BeginRevision
<1>2. /\ encryption' = encryption /\ config' = config /\ base' = base /\ info_policy' = info_policy
      /\ Incremental'
  BY <1>1 DEF request, Incremental
<1>3. ~Begun /\ Begun'
  BY <1>1 DEF Begun
<1>4. Content' /\ Whereabouts' /\ Bodies' /\ Packs' /\ Trailer' /\ Written' = {}
  BY <1>1, <1>3, NothingWritten
<1>5. /\ next_object_id = 1 /\ encrypt_obj_id = None /\ ~encryption
      /\ info_policy \in {"preserve", "replace"}
  BY <1>1, <1>3 DEF IInv, TypeOK, Blank, Reserved
<1>6. base \in Bases /\ base.objects \subseteq Numbers /\ base.pages \subseteq base.objects /\ base.size \in Nat
  <2>1. base \in Bases
    BY <1>1 DEF IInv, TypeOK, Incremental
  <2>. QED
    BY <2>1, BasesAssumption DEF Base
<1>7. /\ F \in Nat /\ F >= 1 /\ F >= base.size /\ F + 2 <= MaxAllocated
      /\ \A n \in base.objects : n < F
  BY <1>5, <1>6, FirstNumberBounds
<1>8. /\ MaxAllocated \in Nat /\ MaxNumber \in Nat /\ MaxAllocated + 2 <= MaxNumber
      /\ None \notin Nat /\ Numbers = 1..MaxNumber
  BY BoundsAssumption, NoneAssumption DEF Numbers
<1>. HIDE DEF F
<1>9. /\ first \in {F, F + 1} /\ first \in Nat
      /\ info_policy = "replace" => first = F + 1
      /\ first >= 1 /\ first + 1 <= MaxAllocated
  BY <1>7, <1>8
<1>. HIDE DEF first
<1>10. /\ first \in Numbers /\ first + 1 \in Numbers /\ first + 2 \in Numbers
       /\ first + 2 <= MaxAllocated + 1
       /\ info_policy = "replace" => F \in Numbers
  BY <1>7, <1>8, <1>9
<1>11. TypeOK'
  <2>1. next_object_id' \in Numbers /\ owed' \subseteq Numbers
        /\ {catalog_id', pages_id', info_id', encrypt_obj_id'} \subseteq Numbers \cup {None}
    BY <1>1, <1>5, <1>6, <1>10
  <2>. QED
    BY <1>1, <2>1, UnwrittenTypes DEF IInv
<1>12. Blank'
  BY <1>3 DEF Blank
<1>13. info_id' = None \/ (info_id' = F /\ first = F + 1)
  BY <1>1, <1>9
<1>14. Reserved'
  <2>1. {catalog_id', pages_id'} \cap {info_id', encrypt_obj_id'} = {} /\ catalog_id' # pages_id'
        /\ (info_id' \in Numbers => info_id' # encrypt_obj_id')
    BY <1>1, <1>5, <1>7, <1>8, <1>9, <1>13
  <2>2. \A n \in {catalog_id', pages_id', info_id', encrypt_obj_id'} \ {None} : n < next_object_id'
    BY <1>1, <1>5, <1>7, <1>9, <1>13
  <2>3. \A n \in {catalog_id', pages_id', info_id'} \ {None} :
             base.size <= n /\ \A m \in base.objects : m < n
    <3>1. \A n \in {catalog_id', pages_id', info_id'} \ {None} : n \in {F, F + 1, F + 2}
      BY <1>1, <1>7, <1>9, <1>13
    <3>2. \A m \in base.objects : m < F /\ m < F + 1 /\ m < F + 2
      BY <1>6, <1>7, <1>8
    <3>3. base.size <= F /\ base.size <= F + 1 /\ base.size <= F + 2
      BY <1>6, <1>7
    <3>. QED
      BY <3>1, <3>2, <3>3
  <2>4. (info_policy = "preserve") \/ info_id' \in Numbers
    BY <1>1, <1>5, <1>10
  <2>5. ~config.use_object_streams /\ ~config.use_xref_streams
    BY <1>1 DEF Refused
  <2>. QED
    BY <1>1, <1>2, <1>5, <1>10, <2>1, <2>2, <2>3, <2>4, <2>5 DEF Reserved
<1>15. Fresh'
  <2>1. Last' = next_object_id'
    BY <1>1 DEF Last
  <2>2. \A n \in owed' : n < next_object_id'
    <3>1. \A n \in base.pages : n < first + 2
      BY <1>6, <1>7, <1>8, <1>9
    <3>2. first + 1 < first + 2
      BY <1>9
    <3>. QED
      BY <1>1, <3>1, <3>2
  <2>3. owed' \cap {catalog_id', info_id', encrypt_obj_id'} = {}
    <3>1. \A n \in base.pages : n # first /\ n # F /\ n # None
      BY <1>6, <1>7, <1>8, <1>9
    <3>2. first + 1 # first /\ first + 1 # None /\ (info_id' = F => first + 1 # F)
      BY <1>7, <1>8, <1>9, <1>13
    <3>. QED
      BY <1>1, <1>5, <1>13, <3>1, <3>2
  <2>4. \A n \in owed' : n \in base.pages \/ \A m \in base.objects : m < n
    <3>1. \A m \in base.objects : m < first + 1
      BY <1>6, <1>7, <1>8, <1>9
    <3>. QED
      BY <1>1, <3>1
  <2>. QED
    BY <1>1, <1>2, <1>4, <2>1, <2>2, <2>3, <2>4 DEF Fresh
<1>. QED
  BY <1>4, <1>11, <1>12, <1>14, <1>15 DEF IInv

\* A revision that is refused leaves everything as it is.
LEMMA RefuseRevisionKeeps == IInv /\ RefuseRevision => IInv'
<1>. SUFFICES ASSUME IInv, RefuseRevision PROVE IInv'
  OBVIOUS
<1>1. /\ phase = "start" /\ phase' = "refused" /\ UNCHANGED <<request, ids, owed, output, trailer>>
  BY DEF RefuseRevision
<1>2. /\ config' = config /\ encryption' = encryption /\ base' = base
      /\ next_object_id' = next_object_id /\ catalog_id' = catalog_id /\ pages_id' = pages_id
      /\ info_id' = info_id /\ encrypt_obj_id' = encrypt_obj_id /\ owed' = owed
      /\ bodies' = bodies /\ xref_positions' = xref_positions /\ written' = written
      /\ buffered_objects' = buffered_objects
  BY <1>1 DEF request, ids, output
<1>3. ~Begun /\ ~Begun' /\ (Incremental' <=> Incremental)
  BY <1>1, <1>2 DEF Begun, Incremental
<1>4. Content' /\ Whereabouts' /\ Bodies' /\ Packs' /\ Trailer' /\ Written' = {}
  BY <1>1, <1>3, NothingWritten
<1>5. TypeOK'
  BY <1>1, <1>2, UnwrittenTypes DEF IInv, TypeOK
<1>6. Blank'
  BY <1>2, <1>3 DEF Blank, IInv
<1>7. Reserved'
  BY <1>2, <1>3 DEF Reserved, IInv
<1>8. Fresh'
  BY <1>1, <1>2, <1>3, <1>4 DEF Fresh, Blank, IInv
<1>. QED
  BY <1>4, <1>5, <1>6, <1>7, <1>8 DEF IInv

\* allocate_object_id hands out the next number.
LEMMA AllocateObjectIdKeeps == IInv /\ AllocateObjectId => IInv'
<1>. SUFFICES ASSUME IInv, AllocateObjectId PROVE IInv'
  OBVIOUS
<1>1. /\ phase = "body" /\ phase' = "body" /\ next_object_id <= MaxAllocated
      /\ owed' = owed \cup {next_object_id} /\ next_object_id' = next_object_id + 1
      /\ UNCHANGED <<request, catalog_id, pages_id, info_id, encrypt_obj_id, output, trailer>>
  BY DEF AllocateObjectId
<1>2. config' = config /\ encryption' = encryption /\ base' = base /\ info_policy' = info_policy
  BY <1>1 DEF request
<1>3. Begun /\ Begun' /\ (Incremental' <=> Incremental)
  BY <1>1, <1>2 DEF Begun, Incremental
<1>4. next_object_id \in Nat /\ next_object_id >= 1 /\ next_object_id + 1 \in Numbers
  BY <1>1, BoundsAssumption DEF IInv, TypeOK, Numbers
<1>5. Passes
  BY <1>1, <1>4 DEF Passes, Unflushed
<1>6. Content' /\ Whereabouts' /\ Bodies' /\ Packs' /\ Trailer' /\ Written' = Written
  BY <1>5, PassKeeps
<1>7. TypeOK'
  <2>1. {catalog_id, pages_id, info_id, encrypt_obj_id} \subseteq Numbers \cup {None}
        /\ owed \subseteq Numbers /\ next_object_id \in Numbers
    BY DEF IInv, TypeOK
  <2>2. next_object_id' \in Numbers /\ owed' \subseteq Numbers
        /\ {catalog_id', pages_id', info_id', encrypt_obj_id'} \subseteq Numbers \cup {None}
    BY <1>1, <1>4, <2>1
  <2>. QED
    BY <1>1, <2>2, UnwrittenTypes DEF IInv
<1>8. Blank'
  BY <1>3 DEF Blank
<1>9. /\ {catalog_id, pages_id, info_id, encrypt_obj_id} \subseteq Nat \cup {None}
      /\ Written \cup owed \subseteq Nat /\ (base # None => base.objects \subseteq Nat)
  <2>1. base # None => base \in Bases
    BY DEF IInv, TypeOK
  <2>2. base # None => base.objects \subseteq Numbers
    BY <2>1, BasesAssumption DEF Base
  <2>3. /\ {catalog_id, pages_id, info_id, encrypt_obj_id} \subseteq Numbers \cup {None}
        /\ owed \subseteq Numbers /\ Written \subseteq Numbers
    BY DEF IInv, TypeOK, Written
  <2>4. Numbers \subseteq Nat
    BY DEF Numbers
  <2>. QED
    BY <2>2, <2>3, <2>4
<1>10. Reserved'
  <2>1. Reserved
    BY DEF IInv
  <2>2. \A n \in {catalog_id, pages_id, info_id, encrypt_obj_id} \ {None} : n < next_object_id + 1
    <3>1. \A n \in {catalog_id, pages_id, info_id, encrypt_obj_id} \ {None} : n < next_object_id
      BY <1>3, <2>1 DEF Reserved
    <3>2. \A n \in {catalog_id, pages_id, info_id, encrypt_obj_id} \ {None} : n \in Nat
      BY <1>9
    <3>3. \A n \in Nat : n < next_object_id => n < next_object_id + 1
      BY <1>4
    <3>. QED
      BY <3>1, <3>2, <3>3
  <2>3. next_object_id + 1 <= MaxAllocated + 1
    BY <1>1, <1>4, BoundsAssumption
  <2>. QED
    BY <1>1, <1>2, <1>3, <2>1, <2>2, <2>3 DEF Reserved
<1>11. Fresh'
  <2>1. Last = next_object_id /\ Last' = next_object_id + 1
    BY <1>1 DEF Last
  <2>2. Fresh /\ Reserved
    BY DEF IInv
  <2>3. \A n \in Written \cup owed : n < next_object_id
    BY <2>1, <2>2 DEF Fresh
  <2>4. \A n \in Written' \cup owed' : n < next_object_id + 1
    <3>1. \A n \in Written \cup owed : n < next_object_id + 1
      BY <1>4, <1>9, <2>3
    <3>. QED
      BY <1>1, <1>4, <1>6, <3>1
  <2>5. next_object_id \notin Written
    BY <1>4, <2>3
  <2>6. next_object_id \notin {catalog_id, info_id, encrypt_obj_id}
    <3>1. \A n \in {catalog_id, info_id, encrypt_obj_id} \ {None} : n < next_object_id
      BY <1>3, <2>2 DEF Reserved
    <3>2. next_object_id # None /\ ~(next_object_id < next_object_id)
      BY <1>4, NoneAssumption
    <3>. QED
      BY <3>1, <3>2
  <2>7. Incremental => \A m \in base.objects : m < next_object_id
    <3>1. Incremental => catalog_id \in Nat /\ catalog_id < next_object_id
                         /\ \A m \in base.objects : m \in Nat /\ m < catalog_id
      BY <1>3, <1>9, <2>2, NoneAssumption DEF Reserved, Incremental, Numbers
    <3>. QED
      BY <1>4, <3>1
  <2>8. owed' \cap Written' = {} /\ owed' \cap {catalog_id', info_id', encrypt_obj_id'} = {}
    BY <1>1, <1>6, <2>2, <2>5, <2>6 DEF Fresh
  <2>9. Incremental => \A n \in Written' \cup owed' : n \in base.pages \/ \A m \in base.objects : m < n
    BY <1>1, <1>6, <2>2, <2>7 DEF Fresh
  <2>. QED
    BY <1>1, <1>2, <1>3, <1>6, <2>1, <2>2, <2>4, <2>8, <2>9 DEF Fresh
<1>. QED
  BY <1>6, <1>7, <1>8, <1>10, <1>11 DEF IInv

\* A write keeps all but what is said of the numbers that are still to come.
LEMMA WriteKeeps ==
  ASSUME NEW n \in Numbers, NEW kind \in {"stream", "plain", "draft"}, NEW active \in BOOLEAN,
         IInv, Writes(n, kind, active), owed' \subseteq owed, Fresh'
  PROVE  IInv'
<1>1. TypeOK'
  BY WriteTypes DEF IInv
<1>2. Content'
  BY WriteContent
<1>3. Whereabouts'
  BY WriteWhereabouts
<1>4. Bodies'
  BY WriteBodies
<1>5. Blank' /\ Reserved' /\ Packs' /\ Trailer'
  BY WriteRest
<1>. QED
  BY <1>1, <1>2, <1>3, <1>4, <1>5 DEF IInv

\* What the reserved numbers are once the writer has begun.
LEMMA ReservedNumbers ==
  ASSUME IInv, phase \in Unflushed
  PROVE  /\ catalog_id \in Numbers /\ pages_id \in Numbers /\ catalog_id # pages_id
         /\ catalog_id < next_object_id /\ pages_id < next_object_id
         /\ catalog_id # info_id /\ catalog_id # encrypt_obj_id
         /\ pages_id # info_id /\ pages_id # encrypt_obj_id
         /\ (Incremental /\ info_policy = "preserve") \/ (info_id \in Numbers /\ info_id < next_object_id)
         /\ info_id \in Numbers => info_id # encrypt_obj_id
         /\ encrypt_obj_id # None => encrypt_obj_id \in Numbers /\ encrypt_obj_id < next_object_id
         /\ encryption \in BOOLEAN /\ (~encryption => encrypt_obj_id = None)
         /\ None \notin Numbers /\ Begun /\ Last = next_object_id
         /\ Incremental => /\ \A m \in base.objects : m < catalog_id
                           /\ info_id \in Numbers => \A m \in base.objects : m < info_id
                           /\ encrypt_obj_id = None
<1>1. Begun /\ phase # "done"
  BY DEF Begun, Unflushed
<1>2. None \notin Numbers
  BY NoneAssumption DEF Numbers
<1>3. Last = next_object_id
  BY <1>1 DEF Last
<1>4. encryption \in BOOLEAN /\ encrypt_obj_id \in Numbers \cup {None}
  BY DEF IInv, TypeOK
<1>5. Reserved
  BY DEF IInv
<1>. QED
  BY <1>1, <1>2, <1>3, <1>4, <1>5 DEF Reserved

\* A page, a font, a form is written under the number allocated for it.
LEMMA WriteAllocatedKeeps ==
  ASSUME IInv, NEW n \in owed, NEW kind \in {"stream", "plain", "draft"}, WriteAllocated(n, kind)
  PROVE  IInv'
<1>1. /\ phase = "body" /\ phase' = "body" /\ owed' = owed \ {n}
      /\ (n = pages_id => kind = IF Incremental THEN "draft" ELSE "plain")
      /\ (n # pages_id => kind # "draft")
      /\ WriteObject(n, kind, encryption) /\ UNCHANGED <<request, ids, trailer>>
  BY DEF WriteAllocated
<1>2. n \in Numbers /\ encryption \in BOOLEAN /\ TypeOK /\ Fresh
  BY DEF IInv, TypeOK
<1>3. phase \in Unflushed
  BY <1>1 DEF Unflushed
<1>4. n < next_object_id /\ n \notin Written /\ n \notin {catalog_id, info_id, encrypt_obj_id}
  BY <1>2, <1>3, ReservedNumbers DEF Fresh
<1>5. Writes(n, kind, encryption)
  BY <1>1, <1>3, <1>4 DEF Writes
<1>6. Written' = Written \cup {n}
  BY <1>1, <1>2, WrittenGrows
<1>7. Fresh'
  <2>1. Last = next_object_id /\ Last' = next_object_id'
    BY <1>1 DEF Last
  <2>2. /\ config' = config /\ base' = base /\ next_object_id' = next_object_id
        /\ catalog_id' = catalog_id /\ info_id' = info_id /\ encrypt_obj_id' = encrypt_obj_id
        /\ (Incremental' <=> Incremental)
    BY <1>1 DEF request, ids, Incremental
  <2>3. Written' \cup owed' = Written \cup owed /\ owed' \cap Written' = {} /\ owed' \subseteq owed
    BY <1>1, <1>2, <1>6 DEF Fresh
  <2>. QED
    BY <1>1, <1>2, <1>4, <1>6, <2>1, <2>2, <2>3 DEF Fresh
<1>. QED
  BY <1>1, <1>2, <1>5, <1>7, WriteKeeps

\* The page tree of a revision is written once more.
LEMMA WritePageTreeKeeps == IInv /\ WritePageTree => IInv'
<1>. SUFFICES ASSUME IInv, WritePageTree PROVE IInv'
  OBVIOUS
<1>1. /\ phase = "body" /\ owed = {} /\ Incremental /\ phase' = "catalog" /\ owed' = owed
      /\ WriteObject(pages_id, "plain", encryption) /\ UNCHANGED <<request, ids, trailer>>
  BY DEF WritePageTree
<1>2. phase \in Unflushed /\ TypeOK /\ Fresh
  BY <1>1 DEF Unflushed, IInv
<1>3. /\ pages_id \in Numbers /\ pages_id < next_object_id /\ pages_id # encrypt_obj_id /\ pages_id # catalog_id
      /\ pages_id # info_id /\ encryption \in BOOLEAN /\ Last = next_object_id
  BY <1>2, ReservedNumbers
<1>4. Writes(pages_id, "plain", encryption)
  BY <1>1, <1>2, <1>3 DEF Writes, Unflushed
<1>5. Written' = Written \cup {pages_id}
  BY <1>1, <1>2, <1>3, WrittenGrows
<1>6. \A m \in base.objects : m < pages_id
  BY <1>1, <1>3, NoneAssumption DEF IInv, Reserved, Begun, Numbers
<1>7. Fresh'
  <2>1. Last' = next_object_id'
    BY <1>1 DEF Last
  <2>2. /\ config' = config /\ base' = base /\ next_object_id' = next_object_id
        /\ catalog_id' = catalog_id /\ info_id' = info_id /\ encrypt_obj_id' = encrypt_obj_id
        /\ (Incremental' <=> Incremental)
    BY <1>1 DEF request, ids, Incremental
  <2>. QED
    BY <1>1, <1>2, <1>3, <1>5, <1>6, <2>1, <2>2 DEF Fresh
<1>. QED
  BY <1>1, <1>3, <1>4, <1>7, WriteKeeps

\* The catalog is written under its reserved number.
LEMMA WriteCatalogKeeps == IInv /\ WriteCatalog => IInv'
<1>. SUFFICES ASSUME IInv, WriteCatalog PROVE IInv'
  OBVIOUS
<1>1. /\ owed = {} /\ phase' = "info" /\ owed' = owed
      /\ phase = (IF Incremental THEN "catalog" ELSE "body")
      /\ WriteObject(catalog_id, "plain", encryption) /\ UNCHANGED <<request, ids, trailer>>
  BY DEF WriteCatalog
<1>2. phase \in Unflushed /\ TypeOK /\ Fresh /\ phase \in {"body", "catalog"}
  BY <1>1 DEF Unflushed, IInv
<1>3. /\ catalog_id \in Numbers /\ catalog_id < next_object_id /\ catalog_id # encrypt_obj_id
      /\ catalog_id # info_id /\ encryption \in BOOLEAN /\ Last = next_object_id
      /\ (Incremental => \A m \in base.objects : m < catalog_id)
  BY <1>2, ReservedNumbers
<1>4. catalog_id \notin Written
  BY <1>2 DEF Fresh
<1>5. Writes(catalog_id, "plain", encryption)
  BY <1>1, <1>2, <1>3, <1>4 DEF Writes, Unflushed
<1>6. Written' = Written \cup {catalog_id}
  BY <1>1, <1>2, <1>3, WrittenGrows
<1>7. Fresh'
  <2>1. Last' = next_object_id'
    BY <1>1 DEF Last
  <2>2. /\ config' = config /\ base' = base /\ next_object_id' = next_object_id
        /\ catalog_id' = catalog_id /\ info_id' = info_id /\ encrypt_obj_id' = encrypt_obj_id
        /\ (Incremental' <=> Incremental)
    BY <1>1 DEF request, ids, Incremental
  <2>. QED
    BY <1>1, <1>2, <1>3, <1>6, <2>1, <2>2 DEF Fresh
<1>. QED
  BY <1>1, <1>3, <1>5, <1>7, WriteKeeps

\* A step that only goes on to the next phase.
LEMMA PhaseOnly ==
  ASSUME IInv, UNCHANGED <<request, ids, owed, output, trailer>>,
         phase \in {"info", "encrypt"}, phase' = (IF phase = "info" THEN "encrypt" ELSE "flush")
  PROVE  IInv'
<1>1. /\ config' = config /\ encryption' = encryption /\ base' = base /\ info_policy' = info_policy
      /\ next_object_id' = next_object_id /\ catalog_id' = catalog_id /\ pages_id' = pages_id
      /\ info_id' = info_id /\ encrypt_obj_id' = encrypt_obj_id /\ owed' = owed
  BY DEF request, ids
<1>2. next_object_id \in Nat
  BY DEF IInv, TypeOK, Numbers
<1>3. Passes
  BY <1>1, <1>2 DEF Passes, Unflushed
<1>4. Content' /\ Whereabouts' /\ Bodies' /\ Packs' /\ Trailer' /\ Written' = Written
  BY <1>3, PassKeeps
<1>5. Begun /\ Begun' /\ (Incremental' <=> Incremental) /\ phase # "done" /\ phase' # "done"
  BY <1>1 DEF Begun, Incremental
<1>6. TypeOK'
  BY <1>1, UnwrittenTypes DEF IInv, TypeOK
<1>7. Blank' /\ Reserved'
  BY <1>1, <1>5 DEF IInv, Blank, Reserved
<1>8. Fresh'
  BY <1>1, <1>4, <1>5 DEF IInv, Fresh, Last
<1>. QED
  BY <1>4, <1>6, <1>7, <1>8 DEF IInv

\* The document's information is written, or that of the base stays.
LEMMA WriteInfoKeeps == IInv /\ WriteInfo => IInv'
<1>. SUFFICES ASSUME IInv, WriteInfo PROVE IInv'
  OBVIOUS
<1>1. phase = "info" /\ phase' = "encrypt" /\ UNCHANGED <<request, ids, owed, trailer>>
  BY DEF WriteInfo
<1>2. CASE Incremental /\ info_policy = "preserve"
  BY <1>1, <1>2, PhaseOnly DEF WriteInfo
<1>3. CASE ~(Incremental /\ info_policy = "preserve")
  <2>1. WriteObject(info_id, "plain", encryption) /\ owed' = owed
    BY <1>3 DEF WriteInfo
  <2>2. phase \in Unflushed /\ TypeOK /\ Fresh
    BY <1>1 DEF Unflushed, IInv
  <2>3. /\ info_id \in Numbers /\ info_id < next_object_id /\ info_id # encrypt_obj_id
        /\ encryption \in BOOLEAN /\ Last = next_object_id
        /\ (Incremental => \A m \in base.objects : m < info_id)
    BY <1>3, <2>2, ReservedNumbers
  <2>4. info_id \notin Written
    BY <1>1, <2>2 DEF Fresh
  <2>5. Writes(info_id, "plain", encryption)
    BY <1>1, <2>1, <2>2, <2>3, <2>4 DEF Writes, Unflushed
  <2>6. Written' = Written \cup {info_id}
    BY <2>1, <2>2, <2>3, WrittenGrows
  <2>7. Fresh'
    <3>1. Last' = next_object_id'
      BY <1>1 DEF Last
    <3>2. /\ config' = config /\ base' = base /\ next_object_id' = next_object_id
          /\ catalog_id' = catalog_id /\ info_id' = info_id /\ encrypt_obj_id' = encrypt_obj_id
          /\ (Incremental' <=> Incremental)
      BY <1>1 DEF request, ids, Incremental
    <3>. QED
      BY <1>1, <2>1, <2>2, <2>3, <2>6, <3>1, <3>2 DEF Fresh
  <2>. QED
    BY <2>1, <2>3, <2>5, <2>7, WriteKeeps
<1>. QED
  BY <1>2, <1>3

\* The encryption dictionary is written in clear, if there is one.
LEMMA WriteEncryptionDictKeeps == IInv /\ WriteEncryptionDict => IInv'
<1>. SUFFICES ASSUME IInv, WriteEncryptionDict PROVE IInv'
  OBVIOUS
<1>1. phase = "encrypt" /\ phase' = "flush" /\ UNCHANGED <<request, ids, owed, trailer>>
  BY DEF WriteEncryptionDict
<1>2. CASE encrypt_obj_id = None
  BY <1>1, <1>2, PhaseOnly DEF WriteEncryptionDict
<1>3. CASE encrypt_obj_id # None
  <2>1. WriteObject(encrypt_obj_id, "plain", FALSE) /\ owed' = owed
    BY <1>1, <1>3 DEF WriteEncryptionDict
  <2>2. phase \in Unflushed /\ TypeOK /\ Fresh
    BY <1>1 DEF Unflushed, IInv
  <2>3. /\ encrypt_obj_id \in Numbers /\ encrypt_obj_id < next_object_id
        /\ Last = next_object_id /\ ~Incremental
    BY <1>3, <2>2, ReservedNumbers
  <2>4. encrypt_obj_id \notin Written
    BY <1>1, <2>2 DEF Fresh
  <2>5. Writes(encrypt_obj_id, "plain", FALSE)
    BY <1>1, <2>1, <2>2, <2>3, <2>4 DEF Writes, Unflushed
  <2>6. Written' = Written \cup {encrypt_obj_id}
    BY <2>1, <2>2, <2>3, WrittenGrows
  <2>7. Fresh'
    <3>1. Last' = next_object_id'
      BY <1>1 DEF Last
    <3>2. /\ config' = config /\ base' = base /\ next_object_id' = next_object_id
          /\ catalog_id' = catalog_id /\ info_id' = info_id /\ encrypt_obj_id' = encrypt_obj_id
          /\ (Incremental' <=> Incremental)
      BY <1>1 DEF request, ids, Incremental
    <3>. QED
      BY <1>1, <2>1, <2>2, <2>3, <2>6, <3>1, <3>2 DEF Fresh
  <2>. QED
    BY <2>1, <2>3, <2>5, <2>7, WriteKeeps
<1>. QED
  BY <1>2, <1>3

(************************** The object streams *****************************)

\* The bodies of the object streams.
PackOf(s) == [n |-> s, kind |-> "pack", key |-> 0]
PackBodies == [i \in 1..Cardinality(Streams) |->
                   [n |-> StreamBase + i - 1, kind |-> "pack", key |-> 0]]

\* Before the flush, what is buffered has an allocated number, so that there is
\* room for the object streams.
LEMMA RoomForStreams ==
  ASSUME IInv, phase = "flush"
  PROVE  /\ IsFiniteSet(Streams) /\ Cardinality(Streams) \in 0..MaxAllocated
         /\ \A s \in Streams : /\ s \in Nat /\ s >= StreamBase /\ s \in Numbers
                               /\ s - StreamBase + 1 \in 1..Cardinality(Streams)
<1>1. /\ MaxAllocated \in Nat /\ StreamBase \in Nat /\ StreamBase >= 1 /\ MaxNumber \in Nat
      /\ MaxAllocated + StreamBase <= MaxNumber
  BY BoundsAssumption
<1>2. next_object_id \in Nat /\ next_object_id <= MaxAllocated + 1 /\ Last = next_object_id
  <2>1. Begun /\ phase # "done" /\ Reserved /\ next_object_id \in Numbers
    BY DEF IInv, TypeOK, Begun
  <2>. QED
    BY <2>1 DEF Reserved, Last, Numbers
<1>3. \A n \in Buffered : n <= MaxAllocated
  <2>1. \A n \in Buffered : n \in Nat /\ n < next_object_id
    BY <1>2 DEF IInv, Whereabouts, Fresh, Written, Numbers
  <2>. QED
    BY <1>1, <1>2, <2>1
<1>4. /\ IsFiniteSet(Streams) /\ Cardinality(Streams) \in 0..MaxAllocated
      /\ \A s \in Streams : s - StreamBase + 1 \in 1..Cardinality(Streams)
  BY <1>1, <1>3, StreamsCounted
<1>5. \A s \in Streams : s \in Nat /\ s >= StreamBase
  BY StreamsFromBase
<1>6. \A s \in Streams : s \in Numbers
  <2>. DEFINE K == Cardinality(Streams)
  <2>. HIDE DEF K
  <2>1. K \in 0..MaxAllocated /\ \A s \in Streams : s - StreamBase + 1 \in 1..K
    BY <1>4 DEF K
  <2>. QED
    BY <1>1, <1>5, <2>1 DEF Numbers
<1>. QED
  BY <1>4, <1>5, <1>6

\* Where FlushObjectStreams puts them.
LEMMA FlushedBodies ==
  ASSUME IInv, FlushObjectStreams
  PROVE  /\ bodies' \in Seq(Object) /\ Len(bodies) \in Nat /\ Len(bodies') \in Nat
         /\ DOMAIN bodies = 1..Len(bodies) /\ DOMAIN bodies' = 1..Len(bodies')
         /\ Len(bodies) <= Len(bodies')
         /\ \A i \in 1..Len(bodies) : bodies'[i] = bodies[i]
         /\ \A i \in 1..Len(bodies') : i > Len(bodies) =>
                bodies'[i] = PackOf(StreamBase + (i - Len(bodies)) - 1)
         /\ xref_positions' \in [Numbers -> 0..Len(bodies')]
         /\ \A n \in Numbers \ Streams : xref_positions'[n] = xref_positions[n]
         /\ \A s \in Streams : /\ xref_positions'[s] # 0
                               /\ xref_positions'[s] \in 1..Len(bodies')
                               /\ bodies'[xref_positions'[s]] = PackOf(s)
<1>. DEFINE K == Cardinality(Streams)
            L == Len(bodies)
<1>1. /\ phase = "flush" /\ bodies' = bodies \o PackBodies
      /\ xref_positions' = [n \in Numbers |-> IF n \in Streams THEN StreamPosition(n) ELSE xref_positions[n]]
  BY DEF FlushObjectStreams, PackBodies
<1>2. /\ K \in 0..MaxAllocated
      /\ \A s \in Streams : s \in Nat /\ s >= StreamBase /\ s \in Numbers /\ s - StreamBase + 1 \in 1..K
  BY <1>1, RoomForStreams
<1>3. /\ bodies \in Seq(Object) /\ L \in Nat /\ xref_positions \in [Numbers -> 0..L]
      /\ DOMAIN bodies = 1..L
  BY DEF IInv, TypeOK
<1>4. /\ MaxAllocated \in Nat /\ StreamBase \in Nat /\ StreamBase >= 1 /\ MaxNumber \in Nat
      /\ MaxAllocated + StreamBase <= MaxNumber
  BY BoundsAssumption
<1>5. PackBodies = [i \in 1..K |-> PackOf(StreamBase + i - 1)]
  BY DEF PackBodies, PackOf
<1>. HIDE DEF K, L
<1>6. \A i \in 1..K : PackOf(StreamBase + i - 1) \in Object
  <2>1. \A i \in 1..K : StreamBase + i - 1 \in Numbers
    BY <1>2, <1>4 DEF Numbers
  <2>. QED
    BY <2>1 DEF PackOf, Object
<1>7. PackBodies \in Seq(Object) /\ Len(PackBodies) = K /\ \A i \in 1..K : PackBodies[i] = PackOf(StreamBase + i - 1)
  <2>1. PackBodies \in [1..K -> Object]
    BY <1>5, <1>6
  <2>2. K \in Nat
    BY <1>2, <1>4
  <2>3. PackBodies \in Seq(Object)
    BY <2>1, <2>2
  <2>4. DOMAIN PackBodies = 1..K
    BY <2>1
  <2>. QED
    BY <1>5, <2>2, <2>3, <2>4
<1>8. /\ bodies' \in Seq(Object) /\ Len(bodies') = L + K
      /\ \A i \in 1..L : bodies'[i] = bodies[i]
      /\ \A i \in (L + 1)..(L + K) : bodies'[i] = PackBodies[i - L]
  <2>1. L = Len(bodies)
    BY DEF L
  <2>2. /\ bodies \o PackBodies \in Seq(Object) /\ Len(bodies \o PackBodies) = Len(bodies) + Len(PackBodies)
        /\ \A i \in 1..(Len(bodies) + Len(PackBodies)) : (bodies \o PackBodies)[i] =
               IF i <= Len(bodies) THEN bodies[i] ELSE PackBodies[i - Len(bodies)]
    BY <1>3, <1>7, ConcatProperties
  <2>3. /\ bodies' \in Seq(Object) /\ Len(bodies') = L + K
        /\ \A i \in 1..(L + K) : bodies'[i] = IF i <= L THEN bodies[i] ELSE PackBodies[i - L]
    BY <1>1, <1>7, <2>1, <2>2
  <2>4. \A i \in 1..L : i \in 1..(L + K) /\ i <= L
    BY <1>2, <1>3, <1>4
  <2>5. \A i \in (L + 1)..(L + K) : i \in 1..(L + K) /\ ~(i <= L)
    BY <1>2, <1>3, <1>4
  <2>. QED
    BY <2>3, <2>4, <2>5
<1>9. \A i \in (L + 1)..(L + K) : bodies'[i] = PackOf(StreamBase + (i - L) - 1)
  <2>1. \A i \in (L + 1)..(L + K) : i - L \in 1..K
    BY <1>2, <1>3, <1>4
  <2>. QED
    BY <1>7, <1>8, <2>1
<1>10. DOMAIN bodies' = 1..(L + K)
  BY <1>8
<1>11. \A i \in 1..(L + K) : i > L => i \in (L + 1)..(L + K)
  BY <1>2, <1>3, <1>4
<1>12. L + K \in Nat /\ L <= L + K
  BY <1>2, <1>3, <1>4
<1>13. \A n \in Numbers : xref_positions'[n] = IF n \in Streams THEN L + n - StreamBase + 1 ELSE xref_positions[n]
  BY <1>1 DEF StreamPosition, L
<1>14. ASSUME NEW s \in Streams
       PROVE  /\ s \in Numbers /\ xref_positions'[s] # 0
              /\ xref_positions'[s] \in 1..(L + K)
              /\ bodies'[xref_positions'[s]] = PackOf(s)
  <2>1. xref_positions'[s] = L + s - StreamBase + 1 /\ s \in Numbers
    BY <1>2, <1>13
  <2>2. L + s - StreamBase + 1 \in (L + 1)..(L + K) /\ L + s - StreamBase + 1 # 0
        /\ L + s - StreamBase + 1 \in 1..(L + K)
    BY <1>2, <1>3, <1>4
  <2>3. StreamBase + ((L + s - StreamBase + 1) - L) - 1 = s
    BY <1>2, <1>3, <1>4
  <2>4. bodies'[L + s - StreamBase + 1] = PackOf(s)
    <3>. DEFINE x == L + s - StreamBase + 1
    <3>1. x \in (L + 1)..(L + K) /\ StreamBase + (x - L) - 1 = s
      BY <2>2, <2>3
    <3>. HIDE DEF x
    <3>2. bodies'[x] = PackOf(StreamBase + (x - L) - 1)
      BY <1>9, <3>1
    <3>3. bodies'[x] = PackOf(s)
      BY <3>1, <3>2
    <3>. QED
      BY <3>3 DEF x
  <2>. QED
    BY <2>1, <2>2, <2>4
<1>15. xref_positions' \in [Numbers -> 0..(L + K)]
  <2>1. \A n \in Numbers : xref_positions'[n] \in 0..(L + K)
    <3>1. SUFFICES ASSUME NEW n \in Numbers PROVE xref_positions'[n] \in 0..(L + K)
      OBVIOUS
    <3>2. 0..L \subseteq 0..(L + K) /\ 1..(L + K) \subseteq 0..(L + K)
      BY <1>12, <1>3
    <3>3. CASE n \in Streams
      BY <1>14, <3>2, <3>3
    <3>4. CASE n \notin Streams
      BY <1>3, <1>13, <3>2, <3>4
    <3>. QED
      BY <3>3, <3>4
  <2>. QED
    BY <1>1, <2>1
<1>. QED
  BY <1>3, <1>8, <1>9, <1>10, <1>11, <1>12, <1>13, <1>14, <1>15 DEF L

\* FlushObjectStreams keeps the invariant.
LEMMA FlushObjectStreamsKeeps == IInv /\ FlushObjectStreams => IInv'
<1>. SUFFICES ASSUME IInv, FlushObjectStreams PROVE IInv'
  OBVIOUS
<1>. DEFINE L == Len(bodies)
            M == Len(bodies')
<1>1. /\ phase = "flush" /\ phase' = "xref"
      /\ compressed_object_map' =
             [n \in Numbers |-> IF n \in Buffered THEN StreamOf(n) ELSE compressed_object_map[n]]
      /\ UNCHANGED <<request, ids, owed, buffered_objects, written, trailer>>
  BY DEF FlushObjectStreams
<1>2. /\ config' = config /\ encryption' = encryption /\ base' = base /\ info_policy' = info_policy
      /\ next_object_id' = next_object_id /\ catalog_id' = catalog_id /\ pages_id' = pages_id
      /\ info_id' = info_id /\ encrypt_obj_id' = encrypt_obj_id /\ owed' = owed
      /\ buffered_objects' = buffered_objects /\ written' = written /\ trailer' = trailer
  BY <1>1 DEF request, ids
<1>3. /\ Written' = Written /\ Buffered' = Buffered /\ (Incremental' <=> Incremental)
      /\ (BelowStreams' <=> BelowStreams) /\ Begun /\ Begun' /\ ~Flushed /\ Flushed'
      /\ Last = next_object_id /\ Last' = next_object_id
  BY <1>1, <1>2 DEF Written, Buffered, Incremental, BelowStreams, Begun, Flushed, Last
<1>4. Streams' = Streams /\ \A n \in Numbers : StreamOf(n)' = StreamOf(n)
  BY <1>3 DEF Streams, StreamOf
<1>5. /\ bodies' \in Seq(Object) /\ L \in Nat /\ M \in Nat /\ L <= M
      /\ DOMAIN bodies = 1..L /\ DOMAIN bodies' = 1..M
      /\ \A i \in 1..L : bodies'[i] = bodies[i]
      /\ \A i \in 1..M : i > L => bodies'[i] = PackOf(StreamBase + (i - L) - 1)
      /\ xref_positions' \in [Numbers -> 0..M]
      /\ \A n \in Numbers \ Streams : xref_positions'[n] = xref_positions[n]
      /\ \A s \in Streams : /\ xref_positions'[s] # 0 /\ xref_positions'[s] \in 1..M
                            /\ bodies'[xref_positions'[s]] = PackOf(s)
  BY FlushedBodies
<1>6. \A s \in Streams : s \in Nat /\ s >= StreamBase /\ s \in Numbers
  BY <1>1, RoomForStreams
<1>. HIDE DEF L, M
<1>7. TypeOK'
  <2>1. compressed_object_map' \in [Numbers -> Numbers \cup {None}]
    <3>1. compressed_object_map \in [Numbers -> Numbers \cup {None}]
      BY DEF IInv, TypeOK
    <3>2. \A n \in Buffered : StreamOf(n) \in Numbers
      BY <1>6 DEF Streams
    <3>. QED
      BY <1>1, <3>1, <3>2
  <2>2. bodies' \in Seq(Object) /\ xref_positions' \in [Numbers -> 0..Len(bodies')]
    BY <1>5 DEF M
  <2>3. TypeOK
    BY DEF IInv
  <2>. QED
    BY <1>1, <1>2, <2>1, <2>2, <2>3 DEF TypeOK
<1>8. Blank' /\ Reserved'
  BY <1>1, <1>2, <1>3 DEF IInv, Blank, Reserved
<1>9. Fresh'
  BY <1>1, <1>2, <1>3 DEF IInv, Fresh
<1>10. Content'
  BY <1>1, <1>2, <1>3 DEF IInv, Content
<1>11. Whereabouts'
  <2>1. Whereabouts /\ Written \subseteq Numbers /\ xref_positions \in [Numbers -> 0..L]
    BY DEF IInv, TypeOK, Written, L
  <2>2. ASSUME NEW n \in Written \ Buffered, n \notin Streams
        PROVE  xref_positions'[n] # 0 /\ bodies'[xref_positions'[n]] = written[n]
    <3>1. n \in Numbers \ Streams /\ xref_positions[n] # 0 /\ bodies[xref_positions[n]] = written[n]
      BY <1>3, <2>1, <2>2 DEF Whereabouts
    <3>2. xref_positions'[n] = xref_positions[n] /\ xref_positions[n] \in 1..L
      BY <1>5, <2>1, <3>1
    <3>. QED
      BY <1>5, <3>1, <3>2
  <2>. QED
    BY <1>2, <1>3, <1>4, <2>1, <2>2 DEF Whereabouts
<1>12. \A i \in 1..L : /\ bodies'[i] = bodies[i] /\ bodies[i].n \in Written \ Buffered
                       /\ bodies[i].kind = "draft" => bodies[i].n = pages_id /\ Incremental
  BY <1>3, <1>5, BodiesUnflushed
<1>13. \A i \in 1..M : i \in 1..L \/ (i > L /\ i - L \in Nat /\ i - L >= 1)
  BY <1>5
<1>14. \A i \in 1..M : i > L =>
          /\ bodies'[i].n = StreamBase + (i - L) - 1 /\ bodies'[i].n >= StreamBase
          /\ bodies'[i].n \in Nat /\ bodies'[i].kind = "pack" /\ bodies'[i].key = 0
  <2>1. SUFFICES ASSUME NEW i \in 1..M, i > L
                 PROVE  /\ bodies'[i].n = StreamBase + (i - L) - 1 /\ bodies'[i].n >= StreamBase
                        /\ bodies'[i].n \in Nat /\ bodies'[i].kind = "pack" /\ bodies'[i].key = 0
    OBVIOUS
  <2>2. bodies'[i] = PackOf(StreamBase + (i - L) - 1)
    BY <1>5, <2>1
  <2>3. StreamBase + (i - L) - 1 \in Nat /\ StreamBase + (i - L) - 1 >= StreamBase
    BY <1>5, <2>1, BoundsAssumption
  <2>. QED
    BY <2>2, <2>3 DEF PackOf
<1>15. Bodies'
  <2>1. \A i \in DOMAIN bodies' :
           \/ bodies'[i].n \in Written \ Buffered /\ (bodies'[i].kind = "draft" => bodies'[i].n = pages_id /\ Incremental)
           \/ bodies'[i].kind = "pack" /\ bodies'[i].n >= StreamBase
    BY <1>5, <1>12, <1>13, <1>14
  <2>2. ASSUME BelowStreams, NEW i \in 1..M, NEW j \in 1..M, i < j, bodies'[i].n = bodies'[j].n
        PROVE  bodies'[i].kind = "draft"
    <3>1. CASE j \in 1..L
      <4>1. i \in 1..L
        BY <1>5, <2>2, <3>1
      <4>. QED
        BY <1>5, <1>12, <2>2, <3>1, <4>1 DEF IInv, Bodies
    <3>2. CASE j > L /\ i \in 1..L
      <4>1. bodies'[i].n \in Written
        BY <1>12, <3>2
      <4>2. \A n \in Written : n \in Nat /\ n < next_object_id
        BY <1>3 DEF IInv, Fresh, Written, Numbers
      <4>3. next_object_id <= StreamBase /\ next_object_id \in Nat /\ StreamBase \in Nat
        BY <2>2, BoundsAssumption DEF BelowStreams, IInv, TypeOK, Numbers
      <4>4. bodies'[j].n >= StreamBase
        BY <1>14, <3>2
      <4>. QED
        BY <2>2, <4>1, <4>2, <4>3, <4>4
    <3>3. CASE j > L /\ i > L
      <4>1. bodies'[i].n = StreamBase + (i - L) - 1 /\ bodies'[j].n = StreamBase + (j - L) - 1
        BY <1>14, <3>3
      <4>2. StreamBase + (i - L) - 1 # StreamBase + (j - L) - 1
        BY <1>5, <2>2, BoundsAssumption
      <4>. QED
        BY <2>2, <4>1, <4>2
    <3>. QED
      BY <1>13, <3>1, <3>2, <3>3
  <2>3. ASSUME ~encryption, NEW i \in 1..M PROVE bodies'[i].key = 0
    <3>1. CASE i \in 1..L
      BY <1>5, <1>12, <2>3, <3>1 DEF IInv, Bodies
    <3>2. CASE i > L
      BY <1>14, <3>2
    <3>. QED
      BY <1>13, <3>1, <3>2
  <2>. QED
    BY <1>1, <1>2, <1>3, <1>5, <2>1, <2>2, <2>3 DEF Bodies
<1>16. Packs'
  <2>1. \A n \in Numbers : compressed_object_map'[n] = IF n \in Buffered THEN StreamOf(n) ELSE None
    BY <1>1, <1>3 DEF IInv, Packs
  <2>2. \A s \in Streams : xref_positions'[s] # 0 /\ bodies'[xref_positions'[s]] = [n |-> s, kind |-> "pack", key |-> 0]
    BY <1>5 DEF PackOf
  <2>. QED
    BY <1>1, <1>3, <1>4, <2>1, <2>2 DEF Packs
<1>17. Trailer'
  BY <1>1, <1>2 DEF IInv, Trailer
<1>. QED
  BY <1>7, <1>8, <1>9, <1>10, <1>11, <1>15, <1>16, <1>17 DEF IInv

(************************** The end of the file ****************************)

\* write_xref and write_trailer.
LEMMA WriteXRefKeeps == IInv /\ WriteXRef => IInv'
<1>. SUFFICES ASSUME IInv, WriteXRef PROVE IInv'
  OBVIOUS
<1>1. /\ phase = "xref" /\ phase' = "done" /\ ~config.use_xref_streams
      /\ trailer' = [form |-> "table", size |-> SizeFor(Positioned), encrypt |-> encrypt_obj_id]
      /\ UNCHANGED <<request, ids, owed, output>>
  BY DEF WriteXRef
<1>2. /\ config' = config /\ encryption' = encryption /\ base' = base /\ info_policy' = info_policy
      /\ next_object_id' = next_object_id /\ catalog_id' = catalog_id /\ pages_id' = pages_id
      /\ info_id' = info_id /\ encrypt_obj_id' = encrypt_obj_id /\ owed' = owed
      /\ bodies' = bodies /\ xref_positions' = xref_positions /\ written' = written
      /\ buffered_objects' = buffered_objects /\ compressed_object_map' = compressed_object_map
  BY <1>1 DEF request, ids, output
<1>3. /\ Written' = Written /\ Buffered' = Buffered /\ (Incremental' <=> Incremental)
      /\ (BelowStreams' <=> BelowStreams) /\ Begun /\ Begun' /\ Flushed /\ Flushed'
      /\ Last = next_object_id /\ Last' = next_object_id /\ Positioned' = Positioned
  BY <1>1, <1>2 DEF Written, Buffered, Incremental, BelowStreams, Begun, Flushed, Last, Positioned
<1>4. Streams' = Streams /\ \A n \in Numbers : StreamOf(n)' = StreamOf(n)
  BY <1>3 DEF Streams, StreamOf
<1>5. SizeFor(Positioned) \in Nat /\ \A n \in Positioned : n < SizeFor(Positioned)
  BY SizeExceeds DEF Positioned
<1>6. TypeOK'
  <2>1. TypeOK
    BY DEF IInv
  <2>2. encrypt_obj_id \in Numbers \cup {None}
    BY <2>1 DEF TypeOK
  <2>3. trailer' \in [form : {"table", "stream"}, size : Nat, encrypt : Numbers \cup {None}]
    BY <1>1, <1>5, <2>2
  <2>. QED
    BY <1>1, <1>2, <2>1, <2>3 DEF TypeOK
<1>7. Blank' /\ Reserved'
  BY <1>1, <1>2, <1>3 DEF IInv, Blank, Reserved
<1>8. Fresh'
  BY <1>1, <1>2, <1>3 DEF IInv, Fresh
<1>9. Content'
  BY <1>1, <1>2, <1>3 DEF IInv, Content
<1>10. Whereabouts'
  BY <1>2, <1>3, <1>4 DEF IInv, Whereabouts
<1>11. Bodies'
  BY <1>1, <1>2, <1>3 DEF IInv, Bodies
<1>12. Packs'
  BY <1>1, <1>2, <1>3, <1>4 DEF IInv, Packs
<1>13. Trailer'
  <2>1. trailer'.form = "table" /\ trailer'.encrypt = encrypt_obj_id /\ trailer'.size = SizeFor(Positioned)
    BY <1>1
  <2>. QED
    BY <1>1, <1>2, <1>3, <1>5, <2>1 DEF Trailer
<1>. QED
  BY <1>6, <1>7, <1>8, <1>9, <1>10, <1>11, <1>12, <1>13 DEF IInv

\* write_xref_stream appends one more body, the cross-reference stream, under
\* the next number.
LEMMA XRefStreamBodies ==
  ASSUME IInv, WriteXRefStream
  PROVE  /\ next_object_id \in Numbers /\ next_object_id + 1 \in Numbers
         /\ bodies' \in Seq(Object) /\ Len(bodies) \in Nat /\ Len(bodies') = Len(bodies) + 1
         /\ DOMAIN bodies = 1..Len(bodies) /\ DOMAIN bodies' = 1..(Len(bodies) + 1)
         /\ \A i \in 1..Len(bodies) : bodies'[i] = bodies[i]
         /\ bodies'[Len(bodies) + 1] = [n |-> next_object_id, kind |-> "xref", key |-> 0]
         /\ xref_positions' \in [Numbers -> 0..Len(bodies')]
         /\ xref_positions'[next_object_id] = Len(bodies) + 1
         /\ \A n \in Numbers : n # next_object_id => xref_positions'[n] = xref_positions[n]
<1>. DEFINE L == Len(bodies)
            object == [n |-> next_object_id, kind |-> "xref", key |-> 0]
<1>1. /\ phase = "xref" /\ bodies' = Append(bodies, object)
      /\ xref_positions' = [xref_positions EXCEPT ![next_object_id] = L + 1]
  BY DEF WriteXRefStream, PositionsWith
<1>2. /\ bodies \in Seq(Object) /\ L \in Nat /\ DOMAIN bodies = 1..L
      /\ xref_positions \in [Numbers -> 0..L] /\ next_object_id \in Numbers
  BY DEF IInv, TypeOK
<1>3. next_object_id + 1 \in Numbers
  <2>1. next_object_id <= MaxAllocated + 1
    BY <1>1 DEF IInv, Reserved, Begun
  <2>. QED
    BY <1>2, <2>1, BoundsAssumption DEF Numbers
<1>4. object \in Object
  BY <1>2 DEF Object
<1>. HIDE DEF object
<1>5. /\ bodies' \in Seq(Object) /\ Len(bodies') = L + 1 /\ DOMAIN bodies' = 1..(L + 1)
      /\ bodies'[L + 1] = object /\ \A i \in 1..L : bodies'[i] = bodies[i]
  BY <1>1, <1>2, <1>4
<1>. HIDE DEF L
<1>6. /\ xref_positions'[next_object_id] = L + 1
      /\ \A n \in Numbers : n # next_object_id => xref_positions'[n] = xref_positions[n]
  BY <1>1, <1>2
<1>7. xref_positions' \in [Numbers -> 0..Len(bodies')]
  <2>1. 0..L \subseteq 0..(L + 1) /\ L + 1 \in 0..(L + 1)
    BY <1>2
  <2>. QED
    BY <1>1, <1>2, <1>5, <2>1
<1>. QED
  BY <1>2, <1>3, <1>5, <1>6, <1>7 DEF L, object

\* It keeps the invariant.
LEMMA WriteXRefStreamKeeps == IInv /\ WriteXRefStream => IInv'
<1>. SUFFICES ASSUME IInv, WriteXRefStream PROVE IInv'
  OBVIOUS
<1>. DEFINE id == next_object_id
            L == Len(bodies)
<1>1. /\ phase = "xref" /\ phase' = "done" /\ config.use_xref_streams /\ next_object_id' = id + 1
      /\ trailer' = [form |-> "stream", size |-> SizeFor(Positioned \cup {id}), encrypt |-> None]
      /\ UNCHANGED <<request, catalog_id, pages_id, info_id, encrypt_obj_id, owed,
                     buffered_objects, compressed_object_map, written>>
  BY DEF WriteXRefStream
<1>2. config' = config /\ encryption' = encryption /\ base' = base /\ info_policy' = info_policy
  BY <1>1 DEF request
<1>3. /\ id \in Numbers /\ id + 1 \in Numbers
      /\ bodies' \in Seq(Object) /\ L \in Nat /\ Len(bodies') = L + 1
      /\ DOMAIN bodies = 1..L /\ DOMAIN bodies' = 1..(L + 1)
      /\ \A i \in 1..L : bodies'[i] = bodies[i]
      /\ bodies'[L + 1] = [n |-> id, kind |-> "xref", key |-> 0]
      /\ xref_positions' \in [Numbers -> 0..Len(bodies')]
      /\ xref_positions'[id] = L + 1
      /\ \A n \in Numbers : n # id => xref_positions'[n] = xref_positions[n]
  BY XRefStreamBodies
<1>. HIDE DEF L
<1>4. id \in Nat /\ id + 1 \in Nat /\ id < id + 1 /\ id + 1 - 1 = id
  BY <1>3 DEF Numbers
<1>5. /\ Written' = Written /\ Buffered' = Buffered /\ (Incremental' <=> Incremental)
      /\ Begun /\ Begun' /\ Flushed /\ Flushed' /\ Last = id /\ Last' = id
  BY <1>1, <1>2, <1>4 DEF Written, Buffered, Incremental, Begun, Flushed, Last
<1>6. Streams' = Streams /\ \A n \in Numbers : StreamOf(n)' = StreamOf(n)
  BY <1>5 DEF Streams, StreamOf
<1>7. Positioned' \subseteq Positioned \cup {id} /\ Positioned \cup {id} \subseteq Numbers
  BY <1>3 DEF Positioned
<1>8. /\ SizeFor(Positioned \cup {id}) \in Nat
      /\ \A n \in Positioned \cup {id} : n < SizeFor(Positioned \cup {id})
  BY <1>7, SizeExceeds
<1>9. \A n \in Written : n \in Numbers /\ n < id /\ n # id
  <2>1. \A n \in Written : n < id /\ n \in Numbers
    BY <1>5 DEF IInv, Fresh, Written
  <2>. QED
    BY <1>4, <2>1 DEF Numbers
<1>10. ~Incremental
  BY <1>1, <1>5 DEF IInv, Reserved
<1>11. TypeOK'
  <2>1. TypeOK
    BY DEF IInv
  <2>2. trailer' \in [form : {"table", "stream"}, size : Nat, encrypt : Numbers \cup {None}]
    BY <1>1, <1>8
  <2>. QED
    BY <1>1, <1>2, <1>3, <2>1, <2>2 DEF TypeOK
<1>12. Blank'
  BY <1>5 DEF Blank
<1>13. Reserved'
  <2>1. Reserved /\ {catalog_id, pages_id, info_id, encrypt_obj_id} \subseteq Numbers \cup {None}
    BY DEF IInv, TypeOK
  <2>2. \A n \in {catalog_id, pages_id, info_id, encrypt_obj_id} \ {None} : n < id + 1
    <3>1. \A n \in {catalog_id, pages_id, info_id, encrypt_obj_id} \ {None} : n < id /\ n \in Nat
      BY <1>5, <2>1 DEF Reserved, Numbers
    <3>. QED
      BY <1>4, <3>1
  <2>. QED
    BY <1>1, <1>2, <1>5, <1>10, <2>1, <2>2 DEF Reserved
<1>14. Fresh'
  BY <1>1, <1>2, <1>5, <1>10 DEF IInv, Fresh
<1>15. Content'
  BY <1>1, <1>2, <1>5 DEF IInv, Content
<1>16. \A n \in Numbers : xref_positions[n] \in 0..L
  BY DEF IInv, TypeOK, L
<1>17. \A n \in Numbers : n # id /\ xref_positions[n] # 0 =>
           /\ xref_positions'[n] = xref_positions[n]
           /\ bodies'[xref_positions'[n]] = bodies[xref_positions[n]]
  <2>1. \A x \in 0..L : x # 0 => x \in 1..L
    BY <1>3
  <2>. QED
    BY <1>3, <1>16, <2>1
<1>18. Whereabouts'
  <2>1. Whereabouts
    BY DEF IInv
  <2>2. ASSUME NEW n \in Written \ Buffered, n \notin Streams
        PROVE  xref_positions'[n] # 0 /\ bodies'[xref_positions'[n]] = written[n]
    BY <1>9, <1>17, <2>1, <2>2 DEF Whereabouts
  <2>. QED
    BY <1>1, <1>2, <1>5, <1>6, <2>1, <2>2 DEF Whereabouts
<1>19. Bodies'
  <2>1. Bodies
    BY DEF IInv
  <2>2. \A i \in 1..(L + 1) : i \in 1..L \/ i = L + 1
    BY <1>3
  <2>3. \A i \in 1..L : \/ bodies[i].n \in Written \ Buffered /\ (bodies[i].kind = "draft" => bodies[i].n = pages_id /\ Incremental)
                        \/ bodies[i].kind = "pack" /\ bodies[i].n >= StreamBase
    BY <1>1, <1>3, <2>1 DEF Bodies
  <2>4. \A i \in DOMAIN bodies' :
           \/ bodies'[i].n \in Written \ Buffered /\ (bodies'[i].kind = "draft" => bodies'[i].n = pages_id /\ Incremental)
           \/ bodies'[i].kind = "pack" /\ bodies'[i].n >= StreamBase
           \/ bodies'[i].kind = "xref" /\ bodies'[i].n = id
    BY <1>3, <2>2, <2>3
  <2>5. ASSUME id + 1 <= StreamBase, NEW i \in 1..(L + 1), NEW j \in 1..(L + 1), i < j,
               bodies'[i].n = bodies'[j].n
        PROVE  bodies'[i].kind = "draft"
    <3>1. i \in 1..L /\ bodies'[i] = bodies[i]
      BY <1>3, <2>5
    <3>2. CASE j \in 1..L
      <4>1. BelowStreams
        BY <1>4, <2>5, BoundsAssumption DEF BelowStreams
      <4>. QED
        BY <1>3, <2>1, <2>5, <3>1, <3>2, <4>1 DEF Bodies
    <3>3. CASE j = L + 1
      <4>1. bodies[i].n = id
        BY <1>3, <2>5, <3>1, <3>3
      <4>2. ~(id >= StreamBase)
        BY <1>4, <2>5, BoundsAssumption
      <4>. QED
        BY <1>9, <2>3, <3>1, <4>1, <4>2
    <3>. QED
      BY <2>2, <3>2, <3>3
  <2>6. ASSUME ~encryption, NEW i \in 1..(L + 1) PROVE bodies'[i].key = 0
    <3>1. CASE i \in 1..L
      BY <1>3, <2>1, <2>6, <3>1 DEF Bodies
    <3>2. CASE i = L + 1
      BY <1>3, <3>2
    <3>. QED
      BY <2>2, <3>1, <3>2
  <2>. QED
    BY <1>1, <1>2, <1>3, <1>5, <1>10, <2>4, <2>5, <2>6 DEF Bodies, BelowStreams
<1>20. Packs'
  <2>1. Packs
    BY DEF IInv
  <2>2. ASSUME NEW s \in Streams, s # id
        PROVE  xref_positions'[s] # 0 /\ bodies'[xref_positions'[s]] = [n |-> s, kind |-> "pack", key |-> 0]
    <3>1. xref_positions[s] # 0 /\ bodies[xref_positions[s]] = [n |-> s, kind |-> "pack", key |-> 0]
      BY <1>1, <1>5, <2>1 DEF Packs
    <3>2. s \in Numbers
      <4>1. PICK n \in Buffered : s = StreamOf(n)
        BY DEF Streams
      <4>2. n \in Numbers /\ compressed_object_map[n] = s
        BY <1>5, <2>1, <4>1 DEF Packs, Buffered
      <4>3. s \in Nat /\ None \notin Nat
        BY <4>1, <4>2, StreamByRank, NoneAssumption
      <4>. QED
        BY <4>2, <4>3 DEF IInv, TypeOK
    <3>. QED
      BY <1>17, <2>2, <3>1, <3>2
  <2>. QED
    BY <1>1, <1>2, <1>5, <1>6, <2>1, <2>2 DEF Packs
<1>21. Trailer'
  <2>1. /\ trailer'.form = "stream" /\ trailer'.encrypt = None
        /\ trailer'.size = SizeFor(Positioned \cup {id})
    BY <1>1
  <2>2. Len(bodies') > 0 /\ bodies'[Len(bodies')].n = id
    BY <1>3
  <2>. QED
    BY <1>1, <1>2, <1>5, <1>7, <1>8, <2>1, <2>2 DEF Trailer
<1>. QED
  BY <1>11, <1>12, <1>13, <1>14, <1>15, <1>18, <1>19, <1>20, <1>21 DEF IInv

(************************** The theorems ***********************************)

\* A stuttering step.
LEMMA StutterKeeps == IInv /\ UNCHANGED vars => IInv'
<1>. SUFFICES ASSUME IInv, UNCHANGED vars PROVE IInv'
  OBVIOUS
<1>1. UNCHANGED <<config, encryption, base, info_policy, phase, next_object_id, catalog_id, pages_id,
                  info_id, encrypt_obj_id, owed, bodies, xref_positions, buffered_objects,
                  compressed_object_map, trailer, written>>
  BY DEF vars, request, ids, output
<1>2. /\ Written' = Written /\ Buffered' = Buffered /\ (Incremental' <=> Incremental)
      /\ (BelowStreams' <=> BelowStreams) /\ (Begun' <=> Begun) /\ (Flushed' <=> Flushed)
      /\ Last' = Last /\ Positioned' = Positioned
  BY <1>1 DEF Written, Buffered, Incremental, BelowStreams, Begun, Flushed, Last, Positioned
<1>3. Streams' = Streams /\ \A n \in Numbers : StreamOf(n)' = StreamOf(n)
  BY <1>2 DEF Streams, StreamOf
<1>4. TypeOK'
  BY <1>1 DEF IInv, TypeOK
<1>5. Blank' /\ Reserved' /\ Fresh'
  BY <1>1, <1>2 DEF IInv, Blank, Reserved, Fresh
<1>6. Content' /\ Whereabouts'
  BY <1>1, <1>2, <1>3 DEF IInv, Content, Whereabouts
<1>7. Bodies'
  BY <1>1, <1>2 DEF IInv, Bodies
<1>8. Packs' /\ Trailer'
  BY <1>1, <1>2, <1>3 DEF IInv, Packs, Trailer
<1>. QED
  BY <1>4, <1>5, <1>6, <1>7, <1>8 DEF IInv

\* Every step of the writer keeps the invariant, and so it always holds.
THEOREM Invariance == Spec => []IInv
<1>1. Init => IInv
  BY InitEstablishes
<1>2. IInv /\ [Next]_vars => IInv'
  <2>. SUFFICES ASSUME IInv, [Next]_vars PROVE IInv'
    OBVIOUS
  <2>1. CASE BeginDocument
    BY <2>1, BeginDocumentKeeps
  <2>2. CASE BeginRevision
    BY <2>2, BeginRevisionKeeps
  <2>3. CASE RefuseRevision
    BY <2>3, RefuseRevisionKeeps
  <2>4. CASE AllocateObjectId
    BY <2>4, AllocateObjectIdKeeps
  <2>5. CASE \E n \in owed, kind \in {"stream", "plain", "draft"} : WriteAllocated(n, kind)
    BY <2>5, WriteAllocatedKeeps
  <2>6. CASE WritePageTree
    BY <2>6, WritePageTreeKeeps
  <2>7. CASE WriteCatalog
    BY <2>7, WriteCatalogKeeps
  <2>8. CASE WriteInfo
    BY <2>8, WriteInfoKeeps
  <2>9. CASE WriteEncryptionDict
    BY <2>9, WriteEncryptionDictKeeps
  <2>10. CASE FlushObjectStreams
    BY <2>10, FlushObjectStreamsKeeps
  <2>11. CASE WriteXRef
    BY <2>11, WriteXRefKeeps
  <2>12. CASE WriteXRefStream
    BY <2>12, WriteXRefStreamKeeps
  <2>13. CASE UNCHANGED vars
    BY <2>13, StutterKeeps
  <2>. QED
    BY <2>1, <2>2, <2>3, <2>4, <2>5, <2>6, <2>7, <2>8, <2>9, <2>10, <2>11, <2>12, <2>13 DEF Next
<1>. QED
  BY <1>1, <1>2, PTL DEF Spec

\* In a finished file, what the object streams' numbers and the counter mean.
LEMMA FinishedNumbers ==
  ASSUME IInv, Done
  PROVE  /\ Begun /\ Flushed /\ next_object_id \in Nat /\ StreamBase \in Nat
         /\ \A n \in Written : n \in Numbers /\ n \in Nat /\ n < Last
         /\ Last \in Nat /\ Last <= next_object_id
         /\ config.use_xref_streams => Last < next_object_id
         /\ Buffered \subseteq Written
         /\ \A n \in Buffered : /\ StreamOf(n) \in Streams /\ StreamOf(n) \in Numbers
                                /\ StreamOf(n) \in Nat /\ StreamOf(n) >= StreamBase
                                /\ compressed_object_map[n] = StreamOf(n)
         /\ trailer.size \in Nat /\ \A n \in Positioned : n < trailer.size
<1>1. Begun /\ Flushed /\ phase = "done"
  BY DEF Begun, Flushed, Done
<1>2. next_object_id \in Nat /\ next_object_id >= 1 /\ StreamBase \in Nat
  BY BoundsAssumption DEF IInv, TypeOK, Numbers
<1>3. /\ Last \in Nat /\ Last <= next_object_id /\ (config.use_xref_streams => Last < next_object_id)
  BY <1>1, <1>2 DEF Last
<1>4. \A n \in Written : n \in Numbers /\ n \in Nat /\ n < Last
  BY DEF IInv, Fresh, Written, Numbers
<1>5. Buffered \subseteq Written
  BY DEF IInv, Whereabouts
<1>6. ASSUME NEW n \in Buffered
      PROVE  /\ StreamOf(n) \in Streams /\ StreamOf(n) \in Numbers
             /\ StreamOf(n) \in Nat /\ StreamOf(n) >= StreamBase
             /\ compressed_object_map[n] = StreamOf(n)
  <2>1. n \in Numbers
    BY DEF Buffered
  <2>2. StreamOf(n) \in Streams /\ compressed_object_map[n] = StreamOf(n)
    BY <1>1, <2>1 DEF Streams, IInv, Packs
  <2>3. StreamOf(n) \in Nat /\ StreamOf(n) >= StreamBase
    BY <1>2, <2>1, StreamByRank
  <2>4. compressed_object_map[n] \in Numbers \cup {None}
    BY <2>1 DEF IInv, TypeOK
  <2>. QED
    BY <2>2, <2>3, <2>4, NoneAssumption
<1>7. trailer.size \in Nat /\ \A n \in Positioned : n < trailer.size
  BY <1>1 DEF IInv, Trailer
<1>. QED
  BY <1>1, <1>2, <1>3, <1>4, <1>5, <1>6, <1>7

\* Below the object streams' numbers, an object stream is where it was put.
LEMMA StreamsInPlace ==
  ASSUME IInv, Done, BelowStreams, NEW n \in Buffered
  PROVE  /\ StreamOf(n) \in Positioned /\ n < StreamOf(n)
         /\ bodies[xref_positions[StreamOf(n)]] = [n |-> StreamOf(n), kind |-> "pack", key |-> 0]
<1>1. /\ next_object_id \in Nat /\ StreamBase \in Nat /\ next_object_id <= StreamBase
      /\ n \in Nat /\ n < Last /\ Last \in Nat /\ Last <= next_object_id
      /\ (config.use_xref_streams => Last < next_object_id)
      /\ StreamOf(n) \in Streams /\ StreamOf(n) \in Numbers /\ StreamOf(n) \in Nat /\ StreamOf(n) >= StreamBase
      /\ Flushed
  BY FinishedNumbers DEF BelowStreams
<1>2. config.use_xref_streams => StreamOf(n) # Last
  BY <1>1
<1>3. /\ xref_positions[StreamOf(n)] # 0
      /\ bodies[xref_positions[StreamOf(n)]] = [n |-> StreamOf(n), kind |-> "pack", key |-> 0]
  BY <1>1, <1>2 DEF IInv, Packs
<1>4. n < StreamOf(n)
  BY <1>1
<1>. QED
  BY <1>1, <1>3, <1>4 DEF Positioned

\* No number is defined twice.
LEMMA DefinedOnceHolds == IInv => DefinedOnce
<1>. SUFFICES ASSUME IInv, Done, BelowStreams
              PROVE  /\ \A i, j \in DOMAIN bodies : i < j /\ bodies[i].n = bodies[j].n => bodies[i].kind = "draft"
                     /\ \A i \in DOMAIN bodies : bodies[i].n \notin Buffered
  BY DEF DefinedOnce
<1>1. \A i, j \in DOMAIN bodies : i < j /\ bodies[i].n = bodies[j].n => bodies[i].kind = "draft"
  BY DEF IInv, Bodies
<1>2. ASSUME NEW i \in DOMAIN bodies PROVE bodies[i].n \notin Buffered
  <2>1. \A n \in Buffered : n \in Nat /\ n < Last /\ n < StreamBase
    BY FinishedNumbers DEF BelowStreams
  <2>2. \/ bodies[i].n \notin Buffered
        \/ bodies[i].n >= StreamBase
        \/ bodies[i].n = Last
    BY DEF IInv, Bodies
  <2>. QED
    BY <2>1, <2>2, FinishedNumbers
<1>. QED
  BY <1>1, <1>2

\* /Size covers every number.
LEMMA SizeCoversHolds == IInv => SizeCovers
<1>. SUFFICES ASSUME IInv, Done PROVE SizeCovers
  BY DEF SizeCovers
<1>1. trailer.size \in Nat /\ (\A n \in Positioned : n < trailer.size) /\ Flushed /\ Begun
  BY FinishedNumbers
<1>2. ASSUME BelowStreams, NEW n \in Written PROVE n < trailer.size
  <2>1. n \in Numbers /\ n \in Nat /\ n < Last
    BY FinishedNumbers
  <2>2. CASE n \in Buffered
    <3>1. StreamOf(n) \in Positioned /\ n < StreamOf(n) /\ StreamOf(n) \in Nat
      BY <1>2, <2>2, StreamsInPlace, FinishedNumbers
    <3>. QED
      BY <1>1, <2>1, <3>1
  <2>3. CASE n \notin Buffered
    <3>1. n \notin Streams
      <4>1. \A s \in Streams : s \in Nat /\ s >= StreamBase
        BY StreamsFromBase
      <4>. QED
        BY <1>2, <2>1, <4>1, FinishedNumbers DEF BelowStreams
    <3>2. n \in Positioned
      BY <2>1, <2>3, <3>1 DEF IInv, Whereabouts, Positioned
    <3>. QED
      BY <1>1, <3>2
  <2>. QED
    BY <2>2, <2>3
<1>3. ASSUME Incremental
      PROVE  base.size <= trailer.size /\ \A n \in base.objects : n < trailer.size
  <2>1. /\ catalog_id \in Numbers /\ base.size <= catalog_id /\ \A m \in base.objects : m < catalog_id
        /\ ~config.use_object_streams /\ catalog_id \in Nat
    BY <1>1, <1>3, NoneAssumption DEF IInv, Reserved, Numbers
  <2>2. catalog_id \in Written /\ Buffered = {}
    BY <2>1 DEF IInv, Fresh, Whereabouts, Done
  <2>3. Streams = {}
    BY <2>2 DEF Streams
  <2>4. catalog_id \in Positioned
    BY <2>1, <2>2, <2>3 DEF IInv, Whereabouts, Positioned
  <2>5. base \in Bases
    BY <1>3 DEF IInv, TypeOK, Incremental
  <2>6. base.size \in Nat /\ \A n \in base.objects : n \in Nat
    BY <2>5, BasesAssumption DEF Base, Numbers
  <2>. QED
    BY <1>1, <2>1, <2>4, <2>6
<1>. QED
  BY <1>1, <1>2, <1>3 DEF SizeCovers

\* A revision rewrites the base's pages only.
LEMMA RewritesOnlyPagesHolds == IInv => RewritesOnlyPages
<1>. SUFFICES ASSUME IInv, Incremental, NEW n \in Written \cap base.objects PROVE n \in base.pages
  BY DEF RewritesOnlyPages
<1>1. n \in base.pages \/ \A m \in base.objects : m < n
  BY DEF IInv, Fresh
<1>2. ~(n < n)
  BY DEF Written, Numbers
<1>. QED
  BY <1>1, <1>2

\* What is written is found.
LEMMA EveryObjectFoundHolds == IInv => EveryObjectFound
<1>. SUFFICES ASSUME IInv, Done, config.use_object_streams => config.use_xref_streams /\ BelowStreams,
                     NEW n \in Written
              PROVE  Found(n) = written[n]
  BY DEF EveryObjectFound
<1>1. /\ n \in Numbers /\ n \in Nat /\ n < Last /\ Last \in Nat
      /\ trailer.size \in Nat /\ (\A m \in Positioned : m < trailer.size) /\ Flushed
  BY FinishedNumbers
<1>2. CASE n \in Buffered
  <2>1. config.use_object_streams /\ config.use_xref_streams /\ BelowStreams
    BY <1>2 DEF IInv, Whereabouts
  <2>2. /\ StreamOf(n) \in Positioned /\ n < StreamOf(n) /\ StreamOf(n) \in Nat /\ StreamOf(n) \in Numbers
        /\ bodies[xref_positions[StreamOf(n)]] = [n |-> StreamOf(n), kind |-> "pack", key |-> 0]
        /\ compressed_object_map[n] = StreamOf(n)
    BY <1>2, <2>1, StreamsInPlace, FinishedNumbers
  <2>3. ~(n >= trailer.size)
    BY <1>1, <2>2
  <2>4. Packed(n)
    <3>1. trailer.form = "stream" /\ bodies[Len(bodies)].n = Last
      BY <2>1 DEF IInv, Trailer, Done
    <3>2. compressed_object_map[n] # None
      BY <2>2, NoneAssumption
    <3>. QED
      BY <1>1, <3>1, <3>2 DEF Packed
  <2>5. BodyOf(compressed_object_map[n]) \in [n : Numbers, kind : {"pack"}, key : {0}]
    BY <2>2 DEF BodyOf, Positioned
  <2>6. buffered_objects[n] = written[n]
    BY <1>2 DEF IInv, Whereabouts
  <2>. QED
    BY <2>3, <2>4, <2>5, <2>6 DEF Found
<1>3. CASE n \notin Buffered
  <2>1. n \notin Streams
    <3>1. CASE config.use_object_streams
      <4>1. \A s \in Streams : s \in Nat /\ s >= StreamBase
        BY StreamsFromBase
      <4>. QED
        BY <1>1, <3>1, <4>1, FinishedNumbers DEF BelowStreams
    <3>2. CASE ~config.use_object_streams
      BY <3>2 DEF IInv, Whereabouts, Streams
    <3>. QED
      BY <3>1, <3>2
  <2>2. xref_positions[n] # 0 /\ bodies[xref_positions[n]] = written[n]
    BY <1>3, <2>1 DEF IInv, Whereabouts
  <2>3. ~(n >= trailer.size)
    BY <1>1, <2>2 DEF Positioned
  <2>4. ~Packed(n)
    BY <1>1, <1>3 DEF Packed, IInv, Packs
  <2>. QED
    BY <2>2, <2>3, <2>4 DEF Found, BodyOf
<1>. QED
  BY <1>2, <1>3

\* What is found is in clear.
LEMMA ReadableInClearHolds == IInv => ReadableInClear
<1>. SUFFICES ASSUME IInv, Done, encryption => ~config.use_xref_streams /\ ~config.use_object_streams,
                     NEW n \in Written, Found(n) # None
              PROVE  InClear(n)
  BY DEF ReadableInClear
<1>1. /\ n \in Numbers /\ Flushed /\ Begun
      /\ trailer.form = (IF config.use_xref_streams THEN "stream" ELSE "table")
      /\ trailer.encrypt = (IF config.use_xref_streams THEN None ELSE encrypt_obj_id)
  BY FinishedNumbers DEF IInv, Trailer, Done
<1>2. CASE encryption
  <2>1. ~config.use_xref_streams /\ ~config.use_object_streams
    BY <1>2
  <2>2. Found(n) = written[n]
    BY <2>1, EveryObjectFoundHolds DEF EveryObjectFound
  <2>3. trailer.encrypt = encrypt_obj_id /\ encrypt_obj_id # None
    BY <1>1, <1>2, <2>1 DEF IInv, Reserved
  <2>4. ~Packed(n)
    BY <1>1, <2>1 DEF Packed
  <2>5. written[n].key = IF n # encrypt_obj_id THEN n ELSE 0
    BY <1>2 DEF IInv, Content
  <2>. QED
    BY <2>2, <2>3, <2>4, <2>5 DEF InClear
<1>3. CASE ~encryption
  <2>1. trailer.encrypt = None
    BY <1>1, <1>3 DEF IInv, Reserved
  <2>2. CASE Packed(n)
    <3>1. Found(n) = buffered_objects[n]
      BY <2>2 DEF Found
    <3>2. n \in Buffered
      BY <1>1, <2>2 DEF Packed, IInv, Packs
    <3>3. buffered_objects[n] = written[n] /\ written[n].key = 0
      BY <1>3, <3>2 DEF IInv, Whereabouts, Content
    <3>. QED
      BY <2>1, <3>1, <3>3 DEF InClear
  <2>3. CASE ~Packed(n)
    <3>1. xref_positions[n] # 0 /\ Found(n) = bodies[xref_positions[n]]
      BY <2>3 DEF Found, BodyOf
    <3>2. xref_positions[n] \in DOMAIN bodies
      <4>1. xref_positions[n] \in 0..Len(bodies) /\ Len(bodies) \in Nat /\ DOMAIN bodies = 1..Len(bodies)
        BY <1>1 DEF IInv, TypeOK
      <4>. QED
        BY <3>1, <4>1
    <3>. QED
      BY <1>3, <2>1, <3>1, <3>2 DEF InClear, IInv, Bodies
  <2>. QED
    BY <2>2, <2>3
<1>. QED
  BY <1>2, <1>3

\* Object numbers mean one object each: none is defined twice by the writer's
\* counter, the reserved numbers and the object streams' own counter, /Size
\* exceeds them all, and a revision rewrites nothing of its base but the pages,
\* for every number of objects, size of object streams and base file.
THEOREM NumberingSoundAlways == Spec => []NumberingSound
<1>1. IInv => NumberingSound
  BY DefinedOnceHolds, SizeCoversHolds, RewritesOnlyPagesHolds DEF NumberingSound, IInv
<1>. QED
  BY <1>1, Invariance, PTL

\* A reader of a finished file finds what was last written under every number,
\* in the body or packed into an object stream.
THEOREM EveryObjectFoundAlways == Spec => []EveryObjectFound
BY EveryObjectFoundHolds, Invariance, PTL

\* A reader of a finished file gets every object in clear: nothing is encrypted
\* twice, by another object's key or against the trailer, and the encryption
\* dictionary itself is in clear.
THEOREM ReadableInClearAlways == Spec => []ReadableInClear
BY ReadableInClearHolds, Invariance, PTL

=============================================================================
