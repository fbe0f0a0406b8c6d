-------------------------- MODULE ObjectReaderProofs --------------------------
(***************************************************************************)
(* Proofs about ObjectReader for every file, any limits and any questions. *)
(*                                                                         *)
(* What a question may be answered with is a function of the file alone    *)
(* (Meaning below), and the inductive invariant IInv says that caches,     *)
(* retained object streams, the answer in flight and the answers told all  *)
(* agree with it.  It needs the shape of the stack: each frame waits for   *)
(* the container of its object, which a load of the same number is then    *)
(* bound to meet again.                                                    *)
(***************************************************************************)
EXTENDS ObjectReader, SequenceTheorems, FiniteSetTheorems, TLAPS

\* What is parsed at the place of an object that is not packed, in time.
Parsed(n, g) ==
    CASE file[n].xref = "free" -> NullObject
      [] file[n].xref = "zero" -> Failed
      [] file[n].xref = "none" -> IF Lenient /\ ~Found(n, g) THEN NullObject ELSE Recovered(n, g)
      [] file[n].xref = "used" /\ ~Parses(n, g) -> Failed
      [] OTHER -> IF file[n].body = "broken" THEN Recovered(n, g)
                  ELSE Decrypted(n, g, file[n].body, file[n].gen)

\* An object stream that can be read and indexed.
Sound(n) == ~Packed(n) /\ Indexable(Parsed(n, 0))

Extracted(n) == IF Sound(file[n].container) THEN Unpacked(n) ELSE Failed

\* What get_object may answer, and sparse_array.
Verdict(n, g) ==
    IF ~Packed(n) THEN {Parsed(n, g)}
    ELSE {Extracted(n)} \cup (IF g = 0 /\ OnCycle(n) THEN {NullObject} ELSE {})
Meaning(q) ==
    IF q[1] = "get" THEN Verdict(q[2][1], q[2][2])
    ELSE {ArrayIn(IF Packed(q[2][1]) THEN Extracted(q[2][1]) ELSE Parsed(q[2][1], q[2][2]))}

Loading == {i \in DOMAIN calls : calls[i].op = "get" /\ calls[i].at # "enter"}

\* One frame, and what it waits for.
FrameOK(i) ==
    /\ calls[i].op = "sparse" => i = 1 /\ calls[i].at \in {"enter", "open", "index", "extract", "take"}
    /\ calls[i].op = "get" => calls[i].at \in {"enter", "load", "open", "index", "extract"}
    /\ calls[i].at \in {"open", "index", "extract"} => Packed(calls[i].n)
    /\ calls[i].at \in {"load", "take"} => ~Packed(calls[i].n)
    /\ calls[i].at = "extract" => file[calls[i].n].container \in object_stream_cache
    /\ calls[i].at # "enter" => ~Locked
    /\ i < Len(calls) =>
         /\ calls[i].at \in {"index", "take"} /\ calls[i + 1].op = "get"
         /\ calls[i].at = "index" => calls[i + 1].n = file[calls[i].n].container /\ calls[i + 1].g = 0
         /\ calls[i].at = "take" => calls[i + 1].n = calls[i].n /\ calls[i + 1].g = calls[i].g

StackShape == \A i \in DOMAIN calls : FrameOK(i)

\* The guard's numbers are those of the loads under way, each once.
GuardMarks ==
    /\ being_loaded = {calls[i].n : i \in Loading}
    /\ \A i, j \in Loading : calls[i].n = calls[j].n => i = j
    /\ parse_context.depth > 0 => parse_context.expired

\* What a locked reader has not touched.
LockedIdle ==
    Locked => /\ \A r \in References : object_cache[r] = None
              /\ object_stream_cache = {} /\ \A q \in Questions : told[q] = None

\* The caches hold what the file says.
CachesAgree ==
    /\ \A n \in Numbers, g \in Gens : object_cache[<<n, g>>] # None => object_cache[<<n, g>>] \in Verdict(n, g)
    /\ \A n \in object_stream_cache : Sound(n)

\* An answer on its way to the frame that waits for it.
AnswerAgrees ==
    /\ At("get", "index") \/ At("sparse", "index") =>
         /\ answer # None
         /\ Indexable(answer) => Sound(Container)
         /\ Len(calls) = 1 /\ Sound(Container) => Indexable(answer) \/ parse_context.expired
    /\ At("sparse", "take") =>
         /\ answer # None
         /\ answer = Parsed(Top.n, Top.g) \/ (answer = Failed /\ parse_context.expired)
         /\ answer # Failed => object_cache[Ref] = answer

\* The answers told so far.
Asked == <<calls[1].op, <<calls[1].n, calls[1].g>>>>
ToldAgree ==
    /\ \A q \in Questions : told[q] # None => told[q] \in Meaning(q)
    /\ \A q \in Questions : q[1] = "get" /\ Packed(q[2][1]) /\ told[q] = NullObject
                              => object_cache[q[2]] = NullObject
    /\ ~Idle => Asked \in Questions
    /\ ~Idle /\ calls[1].op = "get" /\ calls[1].at # "enter" /\ Packed(calls[1].n) => told[Asked] # NullObject

FileOK == file \in Files

IInv ==
    /\ TypeOK /\ FileOK /\ StackShape /\ GuardMarks /\ LockedIdle
    /\ CachesAgree /\ AnswerAgrees /\ ToldAgree

-----------------------------------------------------------------------------
(* Values. *)

\* What the values of a load are told apart by.
LEMMA ValueFacts ==
    /\ None \notin Answers /\ None \notin Gens
    /\ NullObject \in Answers /\ Failed \in Answers /\ NullObject # Failed
    /\ NullObject \notin Value /\ Failed \notin Value
    /\ \A v \in Value : v \in Answers /\ v.body \in Bodies \ {"broken"} /\ v.own \in Gens /\ v.key \in Gens \cup {None}
    /\ NullObject.body = "null" /\ Failed.body = "error"
BY NoneAssumption DEF Answers, NullObject, Failed, Value, Bodies

\* The newest entry of a number in a file that is opened, field by field.
LEMMA FileFacts ==
    ASSUME FileOK, NEW n \in Numbers
    PROVE  /\ file \in [Numbers -> Entry]
           /\ file[n].xref \in {"none", "free", "zero", "used", "packed"} /\ file[n].gen \in Gens
           /\ file[n].body \in Bodies /\ file[n].container \in Numbers /\ file[n].size \in Nat
           /\ file[n].scan \in Scanned \cup {None}
           /\ Packed(n) => file[n].body # "pack"
BY FilesAssumption, PackedAssumption DEF FileOK, Entry, Packed

\* decrypt_object_if_needed yields a value.
LEMMA DecryptedType ==
    ASSUME NEW n \in Numbers, NEW g \in Gens, NEW body \in Bodies \ {"broken"}, NEW own \in Gens
    PROVE  Decrypted(n, g, body, own) \in Value
BY DEF Decrypted, Value

\* attempt_manual_object_reconstruction yields a value or fails.
LEMMA RecoveredType ==
    ASSUME FileOK, NEW n \in Numbers, NEW g \in Gens
    PROVE  Recovered(n, g) \in Value \cup {Failed}
<1>1. CASE Found(n, g) /\ file[n].scan.body \in {"pack"} \cup (IF Lenient THEN {"dict"} ELSE {})
  <2>1. file[n].scan.body \in Bodies \ {"broken"}
    BY <1>1 DEF Bodies
  <2>. QED
    BY <2>1, DecryptedType DEF Recovered
<1>2. CASE ~(Found(n, g) /\ file[n].scan.body \in {"pack"} \cup (IF Lenient THEN {"dict"} ELSE {}))
  BY <1>2 DEF Recovered
<1>. QED
  BY <1>1, <1>2

\* What is parsed in time is an answer, and has a key only if the file was encrypted and unlocked.
LEMMA ParsedType ==
    ASSUME FileOK, NEW n \in Numbers, NEW g \in Gens
    PROVE  /\ Parsed(n, g) \in Answers
           /\ Parsed(n, g) \in Value => Parsed(n, g).key = None <=> ~(encrypted /\ unlocked)
<1>1. file[n].gen \in Gens /\ (file[n].body # "broken" => file[n].body \in Bodies \ {"broken"})
  BY FileFacts DEF Bodies
<1>2. file[n].body # "broken" => Decrypted(n, g, file[n].body, file[n].gen) \in Value
  BY <1>1, DecryptedType
<1>3. Parsed(n, g) \in Answers
  BY <1>2, RecoveredType, ValueFacts DEF Parsed, Answers
<1>4. \A body, own : Decrypted(n, g, body, own).key = None <=> ~(encrypted /\ unlocked)
  BY ValueFacts DEF Decrypted
<1>5. Parsed(n, g) \in Value => Parsed(n, g).key = None <=> ~(encrypted /\ unlocked)
  BY <1>4, ValueFacts DEF Parsed, Recovered
<1>. QED
  BY <1>3, <1>5

\* Loading in time is parsing; without time it may fail.
LEMMA LoadedFacts ==
    ASSUME TypeOK, FileOK, GuardMarks, NEW n \in Numbers, NEW g \in Gens, ~Packed(n)
    PROVE  Loaded(n, g) = Parsed(n, g) \/ (Loaded(n, g) = Failed /\ parse_context.expired)
<1>1. ~Enters => parse_context.expired
  BY SizesAssumption DEF TypeOK, GuardMarks, Enters
<1>2. CASE file[n].xref = "used" /\ Parses(n, g) /\ ~Enters
  BY <1>1, <1>2 DEF Loaded
<1>3. CASE file[n].xref = "used" /\ Parses(n, g) /\ Enters
  BY <1>3 DEF Loaded, Parsed
<1>4. CASE file[n].xref = "used" /\ ~Parses(n, g)
  BY <1>4 DEF Loaded, Parsed
<1>5. CASE file[n].xref \in {"free", "zero", "none"}
  BY <1>5 DEF Loaded, Parsed
<1>. QED
  BY <1>2, <1>3, <1>4, <1>5, FileFacts DEF Packed

\* An object of an object stream is no object stream and has no key.
LEMMA UnpackedFacts ==
    ASSUME FileOK, NEW n \in Numbers, Packed(n)
    PROVE  /\ Unpacked(n) \in Value \cup {Failed} /\ Unpacked(n) \in Answers
           /\ Unpacked(n) \in Value => Unpacked(n).key = None
           /\ ~Indexable(Unpacked(n)) /\ Unpacked(n) # NullObject
<1>1. file[n].body \in Bodies /\ file[n].body # "pack"
  BY FileFacts
<1>2. CASE file[n].body # "broken" /\ n \in file[file[n].container].holds
  <2>1. Unpacked(n) = [of |-> n, body |-> file[n].body, own |-> 0, key |-> None]
    BY <1>2 DEF Unpacked
  <2>. QED
    BY <1>1, <1>2, <2>1, SizesAssumption DEF Value, Answers, Indexable, Bodies, NullObject
<1>3. CASE ~(file[n].body # "broken" /\ n \in file[file[n].container].holds)
  BY <1>3, ValueFacts DEF Unpacked, Indexable
<1>. QED
  BY <1>2, <1>3

\* What is packed in itself has no container that could be read.
LEMMA CycleUnsound ==
    ASSUME FileOK, NEW n \in Numbers, OnCycle(n)
    PROVE  Packed(n) /\ Packed(file[n].container) /\ Extracted(n) = Failed
<1>1. PICK k \in 1..MaxNumber : \E path \in [0..k -> Numbers] :
         /\ path[0] = n /\ path[k] = n
         /\ \A i \in 0..(k - 1) : Packed(path[i]) /\ path[i + 1] = file[path[i]].container
  BY DEF OnCycle
<1>2. PICK path \in [0..k -> Numbers] :
         /\ path[0] = n /\ path[k] = n
         /\ \A i \in 0..(k - 1) : Packed(path[i]) /\ path[i + 1] = file[path[i]].container
  BY <1>1
<1>3. k \in Nat /\ k >= 1 /\ 0 \in 0..(k - 1) /\ (k # 1 => 1 \in 0..(k - 1)) /\ 0 + 1 = 1
  BY SizesAssumption
<1>4. Packed(n) /\ path[1] = file[n].container
  BY <1>2, <1>3
<1>5. Packed(path[1])
  BY <1>2, <1>3, <1>4
<1>. QED
  BY <1>4, <1>5 DEF Extracted, Sound

\* What get_object may answer, taken apart: a packed object is never decrypted
\* or indexed, and is null only in a cycle.
LEMMA VerdictFacts ==
    ASSUME FileOK, NEW n \in Numbers, NEW g \in Gens, NEW v \in Verdict(n, g)
    PROVE  /\ v \in Answers
           /\ Packed(n) => ~Indexable(v) /\ (v \in Value => v.key = None)
           /\ ~Packed(n) => v = Parsed(n, g)
           /\ Packed(n) /\ v # Extracted(n) => v = NullObject /\ g = 0 /\ OnCycle(n) /\ Extracted(n) = Failed
           /\ Packed(n) /\ v = NullObject => g = 0 /\ OnCycle(n)
<1>1. ASSUME ~Packed(n) PROVE v = Parsed(n, g) /\ v \in Answers
  BY <1>1, ParsedType DEF Verdict
<1>2. ASSUME Packed(n) PROVE v = Extracted(n) \/ (v = NullObject /\ g = 0 /\ OnCycle(n) /\ Extracted(n) = Failed)
  BY <1>2, CycleUnsound DEF Verdict
<1>3. ASSUME Packed(n)
      PROVE  /\ Extracted(n) \in Answers /\ ~Indexable(Extracted(n)) /\ Extracted(n) # NullObject
             /\ Extracted(n) \in Value => Extracted(n).key = None
  BY <1>3, UnpackedFacts, ValueFacts DEF Extracted, Indexable
<1>4. ~Indexable(NullObject)
  BY ValueFacts DEF Indexable
<1>. QED
  BY <1>1, <1>2, <1>3, <1>4, ValueFacts

-----------------------------------------------------------------------------
(* The stack. *)

Frames == [op : {"get", "sparse"}, n : Numbers, g : Gens, at : Points]

\* A call in progress is a sequence of frames that is not empty.
LEMMA StackFacts ==
    ASSUME TypeOK, ~Idle
    PROVE  /\ calls \in Seq(Frames) /\ Len(calls) \in Nat /\ Len(calls) > 0 /\ DOMAIN calls = 1..Len(calls)
           /\ Len(calls) \in 1..Len(calls) /\ 1 \in 1..Len(calls)
           /\ Top = calls[Len(calls)] /\ Top \in Frames
           /\ \A i \in 1..Len(calls) : calls[i] \in Frames
           /\ Len(calls) = 1 \/ Len(calls) - 1 \in 1..Len(calls)
<1>1. calls \in Seq(Frames) /\ calls # <<>>
  BY DEF TypeOK, Frames, Idle
<1>2. Len(calls) \in Nat \ {0} /\ DOMAIN calls = 1..Len(calls)
  BY <1>1, EmptySeq, LenProperties
<1>3. \A k \in Nat \ {0} : k > 0 /\ k \in 1..k /\ 1 \in 1..k /\ (k = 1 \/ k - 1 \in 1..k)
  OBVIOUS
<1>4. \A i \in 1..Len(calls) : calls[i] \in Frames
  BY <1>1, ElementOfSeq
<1>5. Top = calls[Len(calls)]
  BY DEF Top, Last
<1>. QED
  BY <1>1, <1>2, <1>3, <1>4, <1>5

\* The fields of a frame.
LEMMA FrameFields ==
    \A op, n, g, at : /\ Frame(op, n, g, at).op = op /\ Frame(op, n, g, at).n = n
                      /\ Frame(op, n, g, at).g = g /\ Frame(op, n, g, at).at = at
BY DEF Frame

\* GoTo moves the innermost frame on.
LEMMA GoToFacts ==
    ASSUME TypeOK, ~Idle, NEW point \in Points, NEW s, s = [calls EXCEPT ![Len(calls)].at = point]
    PROVE  /\ s \in Seq(Frames) /\ Len(s) = Len(calls) /\ DOMAIN s = 1..Len(calls)
           /\ \A i \in 1..Len(calls) : i # Len(calls) => s[i] = calls[i]
           /\ s[Len(calls)] = Frame(Top.op, Top.n, Top.g, point)
<1>1. /\ calls \in Seq(Frames) /\ Top = calls[Len(calls)] /\ Top \in Frames /\ Len(calls) \in 1..Len(calls)
  BY StackFacts
<1>. DEFINE fr == Frame(Top.op, Top.n, Top.g, point)
<1>2. fr \in Frames /\ fr = [Top EXCEPT !.at = point]
  BY <1>1 DEF Frames, Frame
<1>3. s = [calls EXCEPT ![Len(calls)] = fr]
  BY <1>1, <1>2
<1>. HIDE DEF fr
<1>4. /\ s \in Seq(Frames) /\ Len(s) = Len(calls)
      /\ \A j \in 1..Len(calls) : s[j] = IF j = Len(calls) THEN fr ELSE calls[j]
  BY <1>1, <1>2, <1>3, ExceptSeq
<1>. QED
  BY <1>1, <1>4, LenProperties DEF fr

\* Return drops the innermost frame.
LEMMA ReturnFacts ==
    ASSUME TypeOK, ~Idle, NEW s, s = Front(calls)
    PROVE  /\ s \in Seq(Frames) /\ Len(s) = Len(calls) - 1 /\ DOMAIN s = 1..(Len(calls) - 1)
           /\ \A i \in 1..(Len(calls) - 1) : s[i] = calls[i]
           /\ s = <<>> <=> Len(calls) = 1
<1>1. calls \in Seq(Frames) /\ Len(calls) \in Nat /\ Len(calls) > 0 /\ \A i \in 1..Len(calls) : calls[i] \in Frames
  BY StackFacts
<1>. DEFINE m == Len(calls) - 1
<1>2. s = SubSeq(calls, 1, m) /\ 1 \in Int /\ m \in Int /\ m \in Nat
  BY <1>1 DEF Front
<1>3. \A i \in 1..m : i \in 1..Len(calls) /\ calls[i] \in Frames
  BY <1>1, <1>2
<1>4. /\ s \in Seq(Frames) /\ Len(s) = (IF 1 <= m THEN m - 1 + 1 ELSE 0)
      /\ \A i \in 1..(m - 1 + 1) : s[i] = calls[1 + i - 1]
  BY <1>2, <1>3, SubSeqProperties
<1>5. Len(s) = m /\ \A i \in 1..m : s[i] = calls[i]
  <2>1. \A k \in Nat : k - 1 + 1 = k /\ (~(1 <= k) => k = 0) /\ \A i \in 1..k : 1 + i - 1 = i
    OBVIOUS
  <2>. HIDE DEF m
  <2>2. m - 1 + 1 = m /\ (~(1 <= m) => m = 0) /\ \A i \in 1..m : 1 + i - 1 = i
    BY <1>2, <2>1
  <2>3. Len(s) = m
    BY <1>4, <2>2
  <2>. QED
    BY <1>4, <2>2, <2>3
<1>6. DOMAIN s = 1..m
  BY <1>4, <1>5, LenProperties
<1>7. s = <<>> <=> m = 0
  BY <1>4, <1>5, EmptySeq
<1>. QED
  BY <1>1, <1>2, <1>4, <1>5, <1>6, <1>7

\* Pushing a frame leaves those below it alone.
LEMMA AppendFacts ==
    \A t \in Seq(Frames), fr \in Frames :
        /\ Append(t, fr) \in Seq(Frames) /\ Len(Append(t, fr)) = Len(t) + 1
        /\ Append(t, fr)[Len(t) + 1] = fr /\ \A i \in 1..Len(t) : Append(t, fr)[i] = t[i]
<1>. SUFFICES ASSUME NEW t \in Seq(Frames), NEW fr \in Frames
              PROVE  /\ Append(t, fr) \in Seq(Frames) /\ Len(Append(t, fr)) = Len(t) + 1
                     /\ Append(t, fr)[Len(t) + 1] = fr /\ \A i \in 1..Len(t) : Append(t, fr)[i] = t[i]
  OBVIOUS
<1>1. \A i \in 1..Len(t) : Append(t, fr)[i] = t[i]
  BY AppendProperties
<1>2. Append(t, fr) \in Seq(Frames) /\ Len(Append(t, fr)) = Len(t) + 1 /\ Append(t, fr)[Len(t) + 1] = fr
  BY AppendProperties
<1>. QED
  BY <1>1, <1>2

\* A call within the innermost frame.
LEMMA AwaitFacts ==
    ASSUME TypeOK, ~Idle, NEW point \in Points, NEW n \in Numbers, NEW g \in Gens,
           Await(point, n, g)
    PROVE  /\ calls' \in Seq(Frames) /\ Len(calls') = Len(calls) + 1 /\ DOMAIN calls' = 1..(Len(calls) + 1)
           /\ \A i \in 1..Len(calls) : i # Len(calls) => calls'[i] = calls[i]
           /\ calls'[Len(calls)] = Frame(Top.op, Top.n, Top.g, point)
           /\ calls'[Len(calls) + 1] = Frame("get", n, g, "enter")
<1>. DEFINE moved == [calls EXCEPT ![Len(calls)].at = point]
            fr == Frame("get", n, g, "enter")
<1>1. /\ moved \in Seq(Frames) /\ Len(moved) = Len(calls)
      /\ \A i \in 1..Len(calls) : i # Len(calls) => moved[i] = calls[i]
      /\ moved[Len(calls)] = Frame(Top.op, Top.n, Top.g, point)
  BY GoToFacts
<1>2. fr \in Frames
  BY DEF Frames, Frame, Points
<1>3. calls' = Append(moved, fr)
  BY DEF Await
<1>. HIDE DEF moved, fr
<1>4. /\ calls' \in Seq(Frames) /\ Len(calls') = Len(moved) + 1
      /\ \A i \in 1..Len(moved) : calls'[i] = moved[i]
      /\ calls'[Len(moved) + 1] = fr
  <2>1. moved \in Seq(Frames) /\ fr \in Frames
    BY <1>1, <1>2
  <2>2. /\ Append(moved, fr) \in Seq(Frames) /\ Len(Append(moved, fr)) = Len(moved) + 1
        /\ Append(moved, fr)[Len(moved) + 1] = fr /\ \A i \in 1..Len(moved) : Append(moved, fr)[i] = moved[i]
    BY <2>1, AppendFacts, Zenon
  <2>. QED
    BY <1>3, <2>2, Zenon
<1>5. DOMAIN calls' = 1..(Len(calls) + 1)
  BY <1>1, <1>4, LenProperties
<1>6. Len(calls) \in 1..Len(calls)
  BY StackFacts
<1>. QED
  BY <1>1, <1>4, <1>5, <1>6 DEF fr

\* Frames below the innermost one are waiting.
LEMMA BelowWaits ==
    ASSUME TypeOK, ~Idle, StackShape, NEW i \in 1..Len(calls), i # Len(calls)
    PROVE  /\ calls[i].at \in {"index", "take"} /\ i + 1 \in 1..Len(calls) /\ calls[i + 1].op = "get"
           /\ calls[i].at = "index" => /\ Packed(calls[i].n) /\ calls[i + 1].g = 0
                                       /\ calls[i + 1].n = file[calls[i].n].container
           /\ calls[i].at = "take" => /\ i = 1 /\ calls[i].op = "sparse" /\ ~Packed(calls[i].n)
                                      /\ calls[i + 1].n = calls[i].n /\ calls[i + 1].g = calls[i].g
           /\ calls[i].op = "get" => i \in Loading
           /\ ~Locked
<1>1. Len(calls) \in Nat /\ DOMAIN calls = 1..Len(calls) /\ i < Len(calls) /\ i + 1 \in 1..Len(calls)
  <2>1. \A k \in Nat : \A j \in 1..k : j # k => j < k /\ j + 1 \in 1..k
    OBVIOUS
  <2>2. Len(calls) \in Nat /\ DOMAIN calls = 1..Len(calls)
    BY StackFacts
  <2>. QED
    BY <2>1, <2>2
<1>2. FrameOK(i)
  BY <1>1 DEF StackShape
<1>3. calls[i] \in Frames
  BY StackFacts
<1>. QED
  BY <1>1, <1>2, <1>3 DEF FrameOK, Loading, Frames

\* A number is being loaded twice only if its container is, and so on: only what
\* is packed in itself meets its own guard.
LEMMA MarkedIsPacked ==
    ASSUME TypeOK, StackShape, GuardMarks, At("get", "enter"), Top.n \in being_loaded
    PROVE  Packed(Top.n) /\ Top.g = 0 /\ OnCycle(Top.n) /\ Len(calls) > 1
<1>. DEFINE L == Len(calls)
<1>1. /\ ~Idle /\ L \in Nat /\ DOMAIN calls = 1..L /\ L \in 1..L /\ Top = calls[L] /\ Top.at = "enter"
      /\ \A i \in 1..L : calls[i] \in Frames
  BY StackFacts DEF At
<1>2. PICK i \in Loading : calls[i].n = Top.n
  BY DEF GuardMarks
<1>3. i \in 1..L /\ i # L /\ i < L /\ calls[i].op = "get"
  BY <1>1, <1>2 DEF Loading
<1>. HIDE DEF L
<1>4. ASSUME NEW j \in i..(L - 1)
      PROVE  /\ j \in Loading /\ Packed(calls[j].n) /\ j + 1 \in 1..L
             /\ calls[j + 1].n = file[calls[j].n].container /\ calls[j + 1].g = 0
  <2>1. j \in 1..L /\ j # L
    BY <1>1, <1>3
  <2>2. /\ calls[j].at \in {"index", "take"}
        /\ calls[j].at = "index" => /\ Packed(calls[j].n) /\ calls[j + 1].g = 0
                                    /\ calls[j + 1].n = file[calls[j].n].container
        /\ calls[j].at = "take" => j = 1 /\ calls[j].op = "sparse"
        /\ calls[j].op = "get" => j \in Loading
        /\ j + 1 \in 1..L
    BY <1>1, <2>1, BelowWaits DEF L
  <2>3. calls[j].op = "get"
    <3>1. CASE j = i
      BY <1>3, <3>1
    <3>2. CASE j # i
      <4>1. j # 1 /\ j \in DOMAIN calls
        BY <1>1, <1>3, <2>1, <3>2
      <4>2. calls[j].op # "sparse"
        BY <4>1 DEF StackShape, FrameOK
      <4>. QED
        BY <1>1, <2>1, <4>2 DEF Frames
    <3>. QED
      BY <3>1, <3>2
  <2>. QED
    BY <2>2, <2>3
<1>5. L - 1 \in i..(L - 1) /\ i \in i..(L - 1)
  BY <1>1, <1>3
<1>6. Packed(Top.n) /\ Top.g = 0
  BY <1>1, <1>2, <1>4, <1>5
<1>. DEFINE k == L - i
            path == [j \in 0..k |-> calls[i + j].n]
<1>7. k \in Nat /\ k >= 1 /\ \A j \in 0..(k - 1) : i + j \in i..(L - 1) /\ i + (j + 1) = (i + j) + 1
  BY <1>1, <1>3
<1>8. path \in [0..k -> Numbers]
  <2>1. \A j \in 0..k : i + j \in 1..L
    BY <1>1, <1>3
  <2>. QED
    BY <1>1, <2>1 DEF Frames
<1>9. k \in 1..MaxNumber
  <2>. DEFINE f == [j \in i..(L - 1) |-> calls[j].n]
  <2>1. f \in [i..(L - 1) -> Numbers]
    BY <1>1, <1>3 DEF Frames
  <2>2. \A a, b \in i..(L - 1) : f[a] = f[b] => a = b
    BY <1>4 DEF GuardMarks
  <2>3. /\ IsFiniteSet(i..(L - 1)) /\ Cardinality(i..(L - 1)) = k
        /\ IsFiniteSet(Numbers) /\ Cardinality(Numbers) = MaxNumber
    <3>1. i \in Int /\ L - 1 \in Int /\ 1 \in Int /\ MaxNumber \in Int
      BY <1>1, <1>3, SizesAssumption
    <3>2. Cardinality(i..(L - 1)) = IF i > L - 1 THEN 0 ELSE (L - 1) - i + 1
      BY <3>1, FS_Interval
    <3>3. Cardinality(1..MaxNumber) = IF 1 > MaxNumber THEN 0 ELSE MaxNumber - 1 + 1
      BY <3>1, FS_Interval
    <3>4. Cardinality(i..(L - 1)) = k
      BY <3>2, <1>1, <1>3
    <3>5. Cardinality(Numbers) = MaxNumber
      BY <3>3, SizesAssumption DEF Numbers
    <3>. QED
      BY <3>1, <3>4, <3>5, FS_Interval DEF Numbers
  <2>4. ~(Cardinality(Numbers) < Cardinality(i..(L - 1)))
    <3>. SUFFICES ASSUME Cardinality(Numbers) < Cardinality(i..(L - 1)) PROVE FALSE
      OBVIOUS
    <3>. HIDE DEF f
    <3>1. \E a, b \in i..(L - 1) : a # b /\ f[a] = f[b]
      BY <2>1, <2>3, FS_PigeonHole
    <3>. QED
      BY <2>2, <3>1
  <2>. QED
    BY <1>7, <2>3, <2>4, SizesAssumption
<1>10. path[0] = Top.n /\ path[k] = Top.n
  BY <1>1, <1>2, <1>3
<1>11. \A j \in 0..(k - 1) : Packed(path[j]) /\ path[j + 1] = file[path[j]].container
  <2>1. \A j \in 0..(k - 1) : path[j] = calls[i + j].n /\ path[j + 1] = calls[(i + j) + 1].n
    BY <1>7
  <2>. QED
    BY <1>4, <1>7, <2>1
<1>12. OnCycle(Top.n)
  BY <1>8, <1>9, <1>10, <1>11 DEF OnCycle
<1>13. L > 1
  BY <1>1, <1>3
<1>. QED
  BY <1>6, <1>12, <1>13 DEF L

-----------------------------------------------------------------------------
(* Steps.  What a frame or a value means is not changed by a step that        *)
(* leaves the file and its lock alone.                                        *)

\* Verdicts and meanings read the file, its options and its lock only.
LEMMA FileStays ==
    ASSUME UNCHANGED <<fixed, unlocked>>
    PROVE  /\ file' = file /\ Locked' = Locked /\ (FileOK => FileOK')
           /\ \A n : Packed(n)' = Packed(n) /\ Sound(n)' = Sound(n) /\ OnCycle(n)' = OnCycle(n)
           /\ \A n, g : Verdict(n, g)' = Verdict(n, g) /\ Parsed(n, g)' = Parsed(n, g)
           /\ \A q : Meaning(q)' = Meaning(q)
           /\ \A v : Indexable(v)' = Indexable(v)
<1>1. file' = file /\ options' = options /\ encrypted' = encrypted /\ unlocked' = unlocked
  BY DEF fixed
<1>2. \A n : Packed(n)' = Packed(n)
  BY <1>1 DEF Packed
<1>3. \A v : Indexable(v)' = Indexable(v)
  BY <1>1 DEF Indexable
<1>4. \A n, g, b, o : Decrypted(n, g, b, o)' = Decrypted(n, g, b, o)
  BY <1>1 DEF Decrypted
<1>5. \A n, g : Found(n, g)' = Found(n, g) /\ Parses(n, g)' = Parses(n, g) /\ Lenient' = Lenient
  BY <1>1 DEF Found, Parses, Lenient
<1>6. \A n, g : Recovered(n, g)' = Recovered(n, g)
  BY <1>1, <1>4, <1>5 DEF Recovered
<1>7. \A n, g : Parsed(n, g)' = Parsed(n, g)
  BY <1>1, <1>4, <1>5, <1>6 DEF Parsed
<1>8. \A n : Sound(n)' = Sound(n) /\ Unpacked(n)' = Unpacked(n)
  BY <1>1, <1>2, <1>3, <1>7 DEF Sound, Unpacked
<1>9. \A n : OnCycle(n)' = OnCycle(n)
  BY <1>1, <1>2 DEF OnCycle
<1>10. \A n : Extracted(n)' = Extracted(n)
  BY <1>1, <1>8 DEF Extracted
<1>11. \A n, g : Verdict(n, g)' = Verdict(n, g)
  BY <1>2, <1>7, <1>9, <1>10 DEF Verdict
<1>12. \A q : Meaning(q)' = Meaning(q)
  BY <1>2, <1>7, <1>10, <1>11 DEF Meaning, ArrayIn
<1>. QED
  BY <1>1, <1>2, <1>3, <1>7, <1>8, <1>9, <1>11, <1>12 DEF Locked, FileOK

\* What a question may be answered with does not depend on the clock or the caches.
LEMMA CachesStay ==
    ASSUME IInv, UNCHANGED <<fixed, unlocked, caches>>
    PROVE  CachesAgree'
BY FileStays DEF IInv, CachesAgree, caches

\* The innermost frame of a reader that is not idle, spelled out.
LEMMA TopFacts ==
    ASSUME IInv, ~Idle
    PROVE  /\ Top = calls[Len(calls)] /\ Len(calls) \in Nat /\ Len(calls) >= 1
           /\ Top.n \in Numbers /\ Top.g \in Gens /\ Top.op \in {"get", "sparse"} /\ Top.at \in Points
           /\ Top = Frame(Top.op, Top.n, Top.g, Top.at)
           /\ Ref = <<Top.n, Top.g>> /\ Ref \in References /\ Container = file[Top.n].container
           /\ Container \in Numbers
           /\ FrameOK(Len(calls)) /\ DOMAIN calls = 1..Len(calls)
           /\ Len(calls) \in Loading <=> Top.op = "get" /\ Top.at # "enter"
           /\ Top.op = "sparse" => Len(calls) = 1
           /\ Len(calls) = 1 => Asked = <<Top.op, Ref>> /\ Asked \in Questions
<1>1. /\ Top = calls[Len(calls)] /\ Len(calls) \in Nat /\ Len(calls) > 0 /\ Top \in Frames
      /\ DOMAIN calls = 1..Len(calls) /\ Len(calls) \in 1..Len(calls)
  BY StackFacts DEF IInv
<1>2. \A k \in Nat : k > 0 => k >= 1
  OBVIOUS
<1>3. Top.n \in Numbers /\ Top.g \in Gens /\ Top.op \in {"get", "sparse"} /\ Top.at \in Points
  BY <1>1 DEF Frames
<1>4. Top = Frame(Top.op, Top.n, Top.g, Top.at)
  BY <1>1 DEF Frames, Frame
<1>5. FrameOK(Len(calls))
  BY <1>1 DEF IInv, StackShape
<1>6. Top.op = "sparse" => Len(calls) = 1
  BY <1>1, <1>5 DEF FrameOK
<1>7. Container \in Numbers
  BY <1>3, FileFacts DEF IInv, Container
<1>8. Len(calls) = 1 => Asked = <<Top.op, Ref>> /\ Asked \in Questions
  BY <1>1 DEF IInv, ToldAgree, Asked, Ref
<1>. QED
  BY <1>1, <1>2, <1>3, <1>4, <1>5, <1>6, <1>7, <1>8 DEF Ref, References, Container, Loading

\* A reader that was just opened: PdfReader::new_with_options.
THEOREM InitEstablishes == Init => IInv
<1>. SUFFICES ASSUME Init PROVE IInv
  OBVIOUS
<1>1. calls = <<>> /\ Idle /\ being_loaded = {} /\ object_stream_cache = {}
  BY DEF Init, Idle
<1>2. DOMAIN calls = {} /\ calls \in Seq([op : {"get", "sparse"}, n : Numbers, g : Gens, at : Points])
  BY <1>1, EmptySeq, LenProperties
<1>3. \A r \in References : object_cache[r] = None
  BY DEF Init
<1>4. \A q \in Questions : told[q] = None
  BY DEF Init
<1>5. TypeOK
  <2>1. file \in [Numbers -> Entry]
    BY FilesAssumption DEF Init
  <2>2. parse_context \in [depth : 0..MaxParse, expired : BOOLEAN]
    BY SizesAssumption DEF Init, FreshContext
  <2>3. encrypted \in BOOLEAN /\ unlocked \in BOOLEAN
    BY DEF Init
  <2>4. object_cache \in [References -> (Answers \ {Failed}) \cup {None}]
    BY DEF Init
  <2>5. told \in [Questions -> Answers \cup {None}]
    BY DEF Init
  <2>. QED
    BY <1>1, <1>2, <2>1, <2>2, <2>3, <2>4, <2>5 DEF Init, TypeOK
<1>6. StackShape /\ GuardMarks
  BY <1>1, <1>2, SizesAssumption DEF StackShape, GuardMarks, Loading, Init, FreshContext
<1>7. CachesAgree
  BY <1>1, <1>3 DEF CachesAgree, References
<1>8. LockedIdle
  BY <1>1, <1>3, <1>4 DEF LockedIdle
<1>9. AnswerAgrees /\ ToldAgree
  BY <1>1, <1>4, NoneAssumption, ValueFacts DEF AnswerAgrees, ToldAgree, At
<1>10. FileOK
  BY DEF Init, FileOK
<1>. QED
  BY <1>5, <1>6, <1>7, <1>8, <1>9, <1>10 DEF IInv
\* A frame that the guard, the file and the retained streams let go on to another point.
GoesOn(point) ==
    /\ point \in {"load", "open", "extract"}
    /\ point = "load" => Top.op = "get" /\ ~Packed(Top.n)
    /\ point # "load" => Packed(Top.n)
    /\ point = "extract" => Container \in object_stream_cache'
    /\ Top.op = "get" /\ Top.at = "enter" => ~Cached(Ref) /\ Top.n \notin being_loaded
    /\ being_loaded' = IF Top.op = "get" /\ Top.at = "enter" THEN being_loaded \cup {Top.n} ELSE being_loaded
    /\ object_stream_cache' \subseteq Numbers /\ \A n \in object_stream_cache' : Sound(n)

\* A frame that goes on keeps the invariant.
LEMMA GoToKeeps ==
    ASSUME IInv, ~Idle, ~Locked, UNCHANGED <<fixed, unlocked, parse_context, object_cache>>,
           NEW point, GoTo(point), GoesOn(point)
    PROVE  IInv'
<1>. DEFINE L == Len(calls)
<1>1. /\ L \in Nat /\ L >= 1 /\ L \in 1..L /\ DOMAIN calls = 1..L /\ Top = calls[L]
      /\ Top.n \in Numbers /\ Top.op \in {"get", "sparse"} /\ (Top.op = "sparse" => L = 1)
      /\ L \in Loading <=> Top.op = "get" /\ Top.at # "enter"
  BY TopFacts
<1>2. /\ calls' \in Seq(Frames) /\ Len(calls') = L /\ DOMAIN calls' = 1..L
      /\ \A i \in 1..L : i # L => calls'[i] = calls[i]
      /\ calls'[L] = Frame(Top.op, Top.n, Top.g, point)
  BY GoToFacts DEF IInv, GoTo, GoesOn, Points
<1>3. calls'[L].op = Top.op /\ calls'[L].n = Top.n /\ calls'[L].g = Top.g /\ calls'[L].at = point
  <2>1. calls'[L] = Frame(Top.op, Top.n, Top.g, point)
    BY <1>2
  <2>2. LET fr == Frame(Top.op, Top.n, Top.g, point)
        IN  fr.op = Top.op /\ fr.n = Top.n /\ fr.g = Top.g /\ fr.at = point
    BY FrameFields
  <2>. QED
    BY <2>1, <2>2
<1>4. ~Idle' /\ Top' = calls'[L]
  BY <1>1, <1>2, EmptySeq DEF Idle, Top, Last
<1>5. answer' = answer /\ told' = told /\ parse_context' = parse_context /\ object_cache' = object_cache
  BY DEF GoTo
<1>6. file' = file /\ ~Locked' /\ FileOK'
  BY FileStays DEF IInv
<1>. HIDE DEF L
<1>7. TypeOK'
  <2>1. being_loaded' \subseteq Numbers
    <3>1. being_loaded \subseteq Numbers
      BY DEF IInv, TypeOK
    <3>2. being_loaded' = being_loaded \/ being_loaded' = being_loaded \cup {Top.n}
      BY DEF GoesOn
    <3>3. Top.n \in Numbers
      BY <1>1
    <3>. QED
      BY <3>1, <3>2, <3>3
  <2>. QED
    BY <1>2, <1>5, <2>1 DEF IInv, TypeOK, GoesOn, fixed, Frames
<1>8. StackShape'
  <2>. SUFFICES ASSUME NEW i \in 1..L PROVE FrameOK(i)'
    BY <1>2 DEF StackShape
  <2>1. FrameOK(i)
    BY <1>1 DEF IInv, StackShape
  <2>2. CASE i = L
    <3>1. Container = file[Top.n].container
      BY DEF Container
    <3>2. ~(L < Len(calls)')
      BY <1>1, <1>2
    <3>3. calls'[i].op = Top.op /\ calls'[i].n = Top.n /\ calls'[i].at = point
      BY <1>3, <2>2
    <3>4. Top.op = "sparse" => i = 1
      BY <1>1, <2>2
    <3>. QED
      BY <1>6, <2>2, <3>1, <3>2, <3>3, <3>4 DEF FrameOK, GoesOn, Packed
  <2>3. CASE i # L
    <3>1. calls[i].at \in {"index", "take"} /\ calls'[i] = calls[i]
      BY <1>2, <2>3, BelowWaits DEF IInv, L
    <3>2. i + 1 \in 1..L
      BY <2>3, BelowWaits DEF IInv, L
    <3>3. calls'[i + 1].op = calls[i + 1].op /\ calls'[i + 1].n = calls[i + 1].n /\ calls'[i + 1].g = calls[i + 1].g
      BY <1>1, <1>2, <1>3, <3>2
    <3>4. i < Len(calls)' <=> i < Len(calls)
      BY <1>2 DEF L
    <3>. QED
      BY <1>6, <2>1, <3>1, <3>3, <3>4, FileStays DEF FrameOK
  <2>. QED
    BY <2>2, <2>3
<1>9. GuardMarks'
  <2>1. Loading' = IF Top.op = "get" /\ Top.at = "enter" THEN Loading \cup {L} ELSE Loading
    BY <1>1, <1>2, <1>3 DEF Loading, GoesOn
  <2>2. \A i \in 1..L : calls'[i].n = calls[i].n
    BY <1>1, <1>2, <1>3
  <2>3. Loading \subseteq 1..L
    BY <1>1 DEF Loading
  <2>4. CASE Top.op = "get" /\ Top.at = "enter"
    <3>1. \A i \in Loading : calls[i].n # Top.n
      BY <2>4 DEF IInv, GuardMarks, GoesOn
    <3>2. being_loaded' = {calls'[i].n : i \in Loading'}
      BY <1>1, <2>1, <2>2, <2>3, <2>4 DEF IInv, GuardMarks, GoesOn
    <3>3. \A i, j \in Loading' : calls'[i].n = calls'[j].n => i = j
      BY <1>1, <2>1, <2>2, <2>3, <2>4, <3>1 DEF IInv, GuardMarks
    <3>. QED
      BY <1>5, <3>2, <3>3 DEF IInv, GuardMarks
  <2>5. CASE ~(Top.op = "get" /\ Top.at = "enter")
    BY <1>5, <2>1, <2>2, <2>3, <2>5 DEF IInv, GuardMarks, GoesOn
  <2>. QED
    BY <2>4, <2>5
<1>10. LockedIdle'
  BY <1>6 DEF LockedIdle
<1>11. CachesAgree'
  BY <1>5, FileStays DEF IInv, CachesAgree, GoesOn
<1>12. AnswerAgrees'
  BY <1>3, <1>4 DEF AnswerAgrees, At, GoesOn
<1>13. ToldAgree'
  <2>1. /\ 1 \in 1..L /\ calls'[1].op = calls[1].op /\ calls'[1].n = calls[1].n /\ calls'[1].g = calls[1].g
        /\ calls'[1].at # "enter" => calls[1].at # "enter" \/ L = 1
    <3>1. 1 \in 1..L
      BY <1>1
    <3>. QED
      BY <1>1, <1>2, <1>3, <3>1
  <2>2. Asked' = Asked
    BY <2>1 DEF Asked
  <2>3. ASSUME calls[1].op = "get", Packed(calls[1].n), calls'[1].at # "enter"
        PROVE  told[Asked] # NullObject
    <3>1. CASE calls[1].at # "enter"
      BY <2>3, <3>1 DEF IInv, ToldAgree
    <3>2. CASE calls[1].at = "enter"
      <4>1. L = 1 /\ Top = calls[1] /\ ~Cached(Ref)
        BY <1>1, <2>1, <2>3, <3>2 DEF GoesOn
      <4>2. object_cache[Ref] = None /\ Asked = <<"get", Ref>> /\ Asked \in Questions
        BY <2>3, <4>1, TopFacts DEF Cached, L
      <4>3. told[Asked] = NullObject => object_cache[Ref] = NullObject
        BY <2>3, <4>1, <4>2 DEF IInv, ToldAgree, Ref
      <4>. QED
        BY <4>2, <4>3, ValueFacts
    <3>. QED
      BY <3>1, <3>2
  <2>. QED
    BY <1>5, <2>1, <2>2, <2>3, FileStays DEF IInv, ToldAgree
<1>. QED
  BY <1>6, <1>7, <1>8, <1>9, <1>10, <1>11, <1>12, <1>13 DEF IInv

\* A frame that may wait for get_object of this number and generation.
Waits(point, n, g) ==
    \/ point = "index" /\ Top.at = "open" /\ Packed(Top.n) /\ n = Container /\ g = 0
    \/ point = "take" /\ Top.op = "sparse" /\ ~Packed(Top.n) /\ n = Top.n /\ g = Top.g

\* A nested call keeps the invariant.
LEMMA AwaitKeeps ==
    ASSUME IInv, ~Idle, ~Locked, UNCHANGED <<fixed, unlocked, parse_context, caches>>,
           NEW point, NEW n, NEW g, Await(point, n, g), Waits(point, n, g)
    PROVE  IInv'
<1>. DEFINE L == Len(calls)
<1>1. /\ L \in Nat /\ L >= 1 /\ L \in 1..L /\ DOMAIN calls = 1..L /\ Top = calls[L]
      /\ Top.n \in Numbers /\ Top.g \in Gens /\ Container \in Numbers
      /\ Top.op \in {"get", "sparse"} /\ (Top.op = "sparse" => L = 1)
      /\ L \in Loading <=> Top.op = "get" /\ Top.at # "enter"
  BY TopFacts
<1>2. point \in {"index", "take"} /\ n \in Numbers /\ g \in Gens
  BY <1>1, SizesAssumption DEF Waits
<1>3. /\ calls' \in Seq(Frames) /\ Len(calls') = L + 1 /\ DOMAIN calls' = 1..(L + 1)
      /\ \A i \in 1..L : i # L => calls'[i] = calls[i]
      /\ calls'[L] = Frame(Top.op, Top.n, Top.g, point) /\ calls'[L + 1] = Frame("get", n, g, "enter")
  <2>1. TypeOK /\ point \in Points
    BY <1>2 DEF IInv, Points
  <2>. QED
    BY <1>2, <2>1, AwaitFacts
<1>. HIDE DEF L
<1>4. /\ calls'[L].op = Top.op /\ calls'[L].n = Top.n /\ calls'[L].g = Top.g /\ calls'[L].at = point
      /\ calls'[L + 1].op = "get" /\ calls'[L + 1].n = n /\ calls'[L + 1].g = g /\ calls'[L + 1].at = "enter"
  <2>1. calls'[L] = Frame(Top.op, Top.n, Top.g, point) /\ calls'[L + 1] = Frame("get", n, g, "enter")
    BY <1>3
  <2>2. LET fr == Frame(Top.op, Top.n, Top.g, point)
            new == Frame("get", n, g, "enter")
        IN  /\ fr.op = Top.op /\ fr.n = Top.n /\ fr.g = Top.g /\ fr.at = point
            /\ new.op = "get" /\ new.n = n /\ new.g = g /\ new.at = "enter"
    BY FrameFields
  <2>. QED
    BY <2>1, <2>2
<1>5. /\ L + 1 \in 1..(L + 1) /\ L + 1 # L /\ L + 1 # 1
      /\ \A i \in 1..(L + 1) : i \in 1..L \/ i = L + 1
      /\ \A i \in 1..L : i \in 1..(L + 1) /\ i # L + 1 /\ i < L + 1
      /\ \A i \in 1..L : i # L => i < L /\ i + 1 \in 1..L
  <2>1. \A k \in Nat : k >= 1 =>
          k + 1 \in 1..(k + 1) /\ k + 1 # k /\ k + 1 # 1
    OBVIOUS
  <2>2. \A k \in Nat : \A i \in 1..(k + 1) : i \in 1..k \/ i = k + 1
    OBVIOUS
  <2>3. \A k \in Nat : \A i \in 1..k : i \in 1..(k + 1) /\ i # k + 1 /\ i < k + 1
    OBVIOUS
  <2>4. \A k \in Nat : \A i \in 1..k : i # k => i < k /\ i + 1 \in 1..k
    OBVIOUS
  <2>5. L \in Nat /\ L >= 1
    BY <1>1
  <2>6. /\ L + 1 \in 1..(L + 1) /\ L + 1 # L /\ L + 1 # 1
        /\ \A i \in 1..(L + 1) : i \in 1..L \/ i = L + 1
    BY <2>1, <2>2, <2>5, Zenon
  <2>7. \A i \in 1..L : i \in 1..(L + 1) /\ i # L + 1 /\ i < L + 1
    BY <2>3, <2>5, Zenon
  <2>8. \A i \in 1..L : i # L => i < L /\ i + 1 \in 1..L
    BY <2>4, <2>5, Zenon
  <2>. QED
    BY <2>6, <2>7, <2>8
<1>6. ~Idle' /\ Top' = calls'[L + 1]
  <2>1. Top' = calls'[Len(calls')]
    BY DEF Top, Last
  <2>2. L + 1 # 0 /\ Len(<<>>) = 0
    BY <1>1
  <2>3. calls' # <<>>
    BY <1>3, <2>2
  <2>. QED
    BY <1>3, <2>1, <2>3 DEF Idle
<1>7. /\ answer' = answer /\ told' = told /\ parse_context' = parse_context /\ object_cache' = object_cache
      /\ being_loaded' = being_loaded /\ object_stream_cache' = object_stream_cache
  BY DEF Await, caches
<1>8. file' = file /\ ~Locked' /\ FileOK'
  BY FileStays DEF IInv
<1>9. TypeOK'
  BY <1>3, <1>7 DEF IInv, TypeOK, fixed, Frames
<1>10. StackShape'
  <2>. SUFFICES ASSUME NEW i \in 1..(L + 1) PROVE FrameOK(i)'
    BY <1>3 DEF StackShape
  <2>1. CASE i = L + 1
    <3>1. ~(i < Len(calls)')
      BY <1>1, <1>3, <2>1
    <3>. QED
      BY <1>4, <2>1, <3>1 DEF FrameOK
  <2>2. CASE i = L
    <3>1. calls'[i].op = Top.op /\ calls'[i].n = Top.n /\ calls'[i].g = Top.g /\ calls'[i].at = point
      BY <1>4, <2>2
    <3>2. calls'[i + 1].op = "get" /\ calls'[i + 1].n = n /\ calls'[i + 1].g = g
      BY <1>4, <2>2
    <3>3. Top.op = "sparse" => i = 1
      BY <1>1, <2>2
    <3>4. point = "take" => Top.op = "sparse" /\ ~Packed(Top.n) /\ n = Top.n /\ g = Top.g
      BY DEF Waits
    <3>5. point = "index" => Packed(Top.n) /\ n = file[Top.n].container /\ g = 0
      BY DEF Waits, Container
    <3>. QED
      BY <1>2, <1>8, <3>1, <3>2, <3>3, <3>4, <3>5 DEF FrameOK, Packed
  <2>3. CASE i \in 1..L /\ i # L
    <3>1. calls[i].at \in {"index", "take"} /\ calls'[i] = calls[i] /\ i < Len(calls) /\ i + 1 \in 1..L
      BY <1>3, <1>5, <2>3, BelowWaits DEF IInv, L
    <3>2. calls'[i + 1].op = calls[i + 1].op /\ calls'[i + 1].n = calls[i + 1].n /\ calls'[i + 1].g = calls[i + 1].g
      BY <1>1, <1>3, <1>4, <3>1
    <3>3. FrameOK(i)
      BY <1>1, <2>3 DEF IInv, StackShape
    <3>. QED
      BY <1>8, <3>1, <3>2, <3>3, FileStays DEF FrameOK
  <2>. QED
    BY <1>5, <2>1, <2>2, <2>3
<1>11. GuardMarks'
  <2>1. Top.op = "get" => Top.at # "enter"
    BY DEF Waits
  <2>2. Loading' = Loading
    <3>1. \A i \in 1..L : i \in Loading' <=> i \in Loading
      BY <1>1, <1>2, <1>3, <1>4, <1>5, <2>1 DEF Loading
    <3>2. L + 1 \notin Loading' /\ Loading \subseteq 1..L /\ Loading' \subseteq 1..(L + 1)
      BY <1>1, <1>3, <1>4 DEF Loading
    <3>. QED
      BY <1>5, <3>1, <3>2
  <2>3. \A i \in Loading : calls'[i].n = calls[i].n
    BY <1>1, <1>3, <1>4 DEF Loading
  <2>. QED
    BY <1>7, <2>2, <2>3 DEF IInv, GuardMarks
<1>12. LockedIdle'
  BY <1>8 DEF LockedIdle
<1>13. CachesAgree'
  BY CachesStay
<1>14. AnswerAgrees'
  BY <1>4, <1>6 DEF AnswerAgrees, At
<1>15. ToldAgree'
  <2>1. /\ 1 \in 1..L /\ calls'[1].op = calls[1].op /\ calls'[1].n = calls[1].n /\ calls'[1].g = calls[1].g
        /\ calls[1].op = "get" => calls[1].at # "enter"
    <3>1. CASE L = 1
      BY <1>1, <1>4, <3>1 DEF Waits
    <3>2. CASE L # 1
      <4>1. 1 \in 1..L
        BY <1>1
      <4>2. calls[1].at \in {"index", "take"}
        BY <3>2, <4>1, BelowWaits DEF IInv, L
      <4>. QED
        BY <1>3, <3>2, <4>1, <4>2
    <3>. QED
      BY <3>1, <3>2
  <2>2. Asked' = Asked
    BY <2>1 DEF Asked
  <2>. QED
    BY <1>7, <2>1, <2>2, FileStays DEF IInv, ToldAgree
<1>. QED
  BY <1>8, <1>9, <1>10, <1>11, <1>12, <1>13, <1>14, <1>15 DEF IInv

\* An answer the innermost frame may give.  A load may fail for its own reasons where
\* it is nested: it has met a cycle, or the guard's limit.
Answered(v) ==
    /\ v \in Answers
    /\ Top.op = "get" =>
         /\ \/ v \in Verdict(Top.n, Top.g)
            \/ v = Failed /\ (parse_context.expired \/ (Packed(Top.n) /\ Len(calls) > 1) \/ Len(calls) > 2)
         /\ v # Failed => object_cache'[Ref] = v
         /\ Top.at = "enter" /\ Cached(Ref) => v = object_cache[Ref]
    /\ Top.op = "sparse" => v \in Meaning(Asked) \/ (v = Failed /\ parse_context.expired)

\* What a step may do to the cache of objects.
CacheKept ==
    /\ object_cache' \in [References -> (Answers \ {Failed}) \cup {None}]
    /\ \A n \in Numbers, g \in Gens :
         /\ object_cache'[<<n, g>>] # None => object_cache'[<<n, g>>] \in Verdict(n, g)
         /\ Packed(n) /\ object_cache[<<n, g>>] = NullObject => object_cache'[<<n, g>>] = NullObject

\* The guard forgets the load that returns.
Unmarked ==
    being_loaded' = IF Top.op = "get" /\ Top.at # "enter" THEN being_loaded \ {Top.n} ELSE being_loaded

\* Levels of parsing are lost only to the clock.
ContextKept ==
    /\ parse_context' \in [depth : 0..MaxParse, expired : BOOLEAN]
    /\ parse_context'.expired = parse_context.expired
    /\ parse_context'.depth > 0 => parse_context'.expired

\* What an outermost call answers is what its question means.
LEMMA OutermostFacts ==
    ASSUME IInv, ~Idle, Len(calls) = 1, NEW v, Answered(v), ~(v = Failed /\ parse_context.expired)
    PROVE  /\ v \in Meaning(Asked) /\ v \in Answers /\ Asked = <<Top.op, Ref>> /\ Asked \in Questions
           /\ Asked[1] = Top.op /\ Asked[2] = Ref /\ Asked[2][1] = Top.n /\ Asked[2][2] = Top.g
<1>1. /\ Asked = <<Top.op, Ref>> /\ Asked \in Questions /\ Top.op \in {"get", "sparse"} /\ Ref = <<Top.n, Top.g>>
  BY TopFacts
<1>2. ~(Len(calls) > 1) /\ ~(Len(calls) > 2)
  OBVIOUS
<1>3. CASE Top.op = "get"
  <2>1. v \in Verdict(Top.n, Top.g)
    BY <1>2, <1>3 DEF Answered
  <2>. QED
    BY <1>1, <1>3, <2>1 DEF Meaning, Answered
<1>4. CASE Top.op = "sparse"
  BY <1>1, <1>4 DEF Answered
<1>. QED
  BY <1>1, <1>3, <1>4

\* A step that returns keeps the invariant.
LEMMA ReturnKeeps ==
    ASSUME IInv, ~Idle, ~Locked, UNCHANGED <<fixed, unlocked, object_stream_cache>>,
           NEW v, Return(v), Answered(v), CacheKept, Unmarked, ContextKept
    PROVE  IInv'
<1>. DEFINE L == Len(calls)
            m == L - 1
<1>1. /\ L \in Nat /\ L >= 1 /\ L \in 1..L /\ DOMAIN calls = 1..L /\ Top = calls[L]
      /\ Top.n \in Numbers /\ Top.g \in Gens /\ Ref = <<Top.n, Top.g>> /\ Container \in Numbers
      /\ Top.op \in {"get", "sparse"} /\ (Top.op = "sparse" => L = 1)
      /\ L \in Loading <=> Top.op = "get" /\ Top.at # "enter"
  BY TopFacts
<1>2. /\ calls' \in Seq(Frames) /\ Len(calls') = m /\ DOMAIN calls' = 1..m
      /\ \A i \in 1..m : calls'[i] = calls[i]
      /\ Idle' <=> L = 1
  <2>1. TypeOK /\ calls' = Front(calls)
    BY DEF IInv, Return
  <2>. QED
    BY <2>1, ReturnFacts DEF Idle
<1>. HIDE DEF L, m
<1>3. /\ m \in Nat /\ L = m + 1 /\ m + 1 \in 1..L /\ (L # 1 => m \in 1..m /\ 1 \in 1..m)
      /\ \A i \in 1..m : i \in 1..L /\ i # L
      /\ \A i \in 1..L : i # L => i \in 1..m
      /\ \A i \in 1..m : i < m => i + 1 \in 1..m
  <2>1. m \in Nat /\ L = m + 1
    BY <1>1 DEF m
  <2>2. \A k \in Nat : k + 1 \in 1..(k + 1) /\ (k + 1 # 1 => k \in 1..k /\ 1 \in 1..k)
    OBVIOUS
  <2>3. \A k \in Nat : \A i \in 1..k : i \in 1..(k + 1) /\ i # k + 1
    OBVIOUS
  <2>4. \A k \in Nat : \A i \in 1..(k + 1) : i # k + 1 => i \in 1..k
    OBVIOUS
  <2>5. \A k \in Nat : \A i \in 1..k : i < k => i + 1 \in 1..k
    OBVIOUS
  <2>6. m + 1 \in 1..L /\ (L # 1 => m \in 1..m /\ 1 \in 1..m)
    BY <2>1, <2>2
  <2>7. \A i \in 1..m : i \in 1..L /\ i # L
    BY <2>1, <2>3
  <2>8. \A i \in 1..L : i # L => i \in 1..m
    BY <2>1, <2>4
  <2>9. \A i \in 1..m : i < m => i + 1 \in 1..m
    BY <2>1, <2>5
  <2>. QED
    BY <2>1, <2>6, <2>7, <2>8, <2>9
<1>4. /\ answer' = (IF L = 1 THEN None ELSE v) /\ v \in Answers
      /\ told' = IF L = 1 /\ ~(v = Failed /\ parse_context.expired)
                 THEN [told EXCEPT ![<<Top.op, Ref>>] = v] ELSE told
  BY DEF Return, L, Answered
<1>5. file' = file /\ ~Locked' /\ FileOK'
  BY FileStays DEF IInv
<1>6. TypeOK'
  <2>1. being_loaded' \subseteq Numbers
    BY DEF IInv, TypeOK, Unmarked
  <2>2. answer' \in Answers \cup {None}
    BY <1>4
  <2>3. told' \in [Questions -> Answers \cup {None}]
    BY <1>4 DEF IInv, TypeOK
  <2>. QED
    BY <1>2, <2>1, <2>2, <2>3 DEF IInv, TypeOK, fixed, Frames, ContextKept, CacheKept
<1>7. StackShape'
  <2>. SUFFICES ASSUME NEW i \in 1..m PROVE FrameOK(i)'
    BY <1>2 DEF StackShape
  <2>1. i \in 1..L /\ i # L /\ FrameOK(i)
    BY <1>1, <1>3 DEF IInv, StackShape
  <2>2. calls[i].at \in {"index", "take"} /\ calls'[i] = calls[i] /\ i < Len(calls)
    <3>1. \A k \in Nat : \A j \in 1..k : j # k => j < k
      OBVIOUS
    <3>2. i < Len(calls)
      BY <1>1, <2>1, <3>1 DEF L
    <3>. QED
      BY <1>2, <2>1, <3>2, BelowWaits DEF IInv, L
  <2>3. i < Len(calls)' => calls'[i + 1] = calls[i + 1]
    BY <1>2, <1>3
  <2>. QED
    BY <1>5, <2>1, <2>2, <2>3, FileStays DEF FrameOK
<1>8. GuardMarks'
  <2>1. Loading' = Loading \ {L}
    <3>1. \A i \in 1..m : i \in Loading' <=> i \in Loading
      BY <1>1, <1>2, <1>3 DEF Loading
    <3>2. Loading \subseteq 1..L /\ Loading' \subseteq 1..m
      BY <1>1, <1>2 DEF Loading
    <3>. QED
      BY <1>3, <3>1, <3>2
  <2>2. \A i \in Loading' : calls'[i] = calls[i]
    BY <1>2 DEF Loading
  <2>3. CASE L \in Loading
    <3>1. being_loaded' = being_loaded \ {calls[L].n}
      BY <1>1, <2>3 DEF Unmarked
    <3>2. \A i \in Loading : calls[i].n = calls[L].n => i = L
      BY <2>3 DEF IInv, GuardMarks
    <3>3. being_loaded = {calls[i].n : i \in Loading}
      BY DEF IInv, GuardMarks
    <3>4. being_loaded' = {calls'[i].n : i \in Loading'}
      BY <2>1, <2>2, <3>1, <3>2, <3>3
    <3>5. \A i, j \in Loading' : calls'[i].n = calls'[j].n => i = j
      BY <2>1, <2>2 DEF IInv, GuardMarks
    <3>. QED
      BY <3>4, <3>5 DEF GuardMarks, ContextKept
  <2>4. CASE L \notin Loading
    <3>1. being_loaded' = being_loaded /\ Loading' = Loading
      BY <1>1, <2>1, <2>4 DEF Unmarked
    <3>. QED
      BY <2>2, <3>1 DEF IInv, GuardMarks, ContextKept
  <2>. QED
    BY <2>3, <2>4
<1>9. LockedIdle'
  BY <1>5 DEF LockedIdle
<1>10. CachesAgree'
  BY FileStays DEF IInv, CachesAgree, CacheKept
<1>11. AnswerAgrees'
  <2>1. CASE L = 1
    BY <1>2, <2>1 DEF AnswerAgrees, At
  <2>2. CASE L # 1
    <3>1. /\ m \in 1..m /\ m \in 1..L /\ m # L /\ Top' = calls[m] /\ answer' = v /\ v # None
          /\ Top.op = "get" /\ L > 1
      BY <1>1, <1>2, <1>3, <1>4, <2>2, ValueFacts DEF Top, Last
    <3>2. /\ calls[m].at = "index" => Packed(calls[m].n) /\ Top.g = 0 /\ Top.n = file[calls[m].n].container
          /\ calls[m].at = "take" => /\ m = 1 /\ ~Packed(calls[m].n)
                                     /\ Top.n = calls[m].n /\ Top.g = calls[m].g
      BY <1>1, <1>3, <3>1, BelowWaits DEF IInv, L
    <3>3. \/ v \in Verdict(Top.n, Top.g)
          \/ v = Failed /\ (parse_context.expired \/ Packed(Top.n) \/ L > 2)
      BY <3>1 DEF Answered, L
    <3>4. ~Indexable(Failed) /\ parse_context'.expired = parse_context.expired
      BY ValueFacts DEF Indexable, ContextKept
    <3>5. CASE calls[m].at = "index"
      <4>1. Container' = Top.n /\ Top'.at = "index"
        BY <1>5, <3>1, <3>2, <3>5 DEF Container
      <4>2. Indexable(v) => Sound(Top.n)
        <5>. SUFFICES ASSUME Indexable(v) PROVE Sound(Top.n)
          OBVIOUS
        <5>1. v \in Verdict(Top.n, Top.g)
          BY <3>3, <3>4
        <5>2. ~Packed(Top.n) /\ v = Parsed(Top.n, Top.g)
          BY <1>1, <5>1, VerdictFacts DEF IInv
        <5>. QED
          BY <3>2, <3>5, <5>2 DEF Sound
      <4>3. ASSUME L = 2, Sound(Top.n) PROVE Indexable(v) \/ parse_context.expired
        <5>1. ~Packed(Top.n) /\ Indexable(Parsed(Top.n, Top.g)) /\ ~(L > 2)
          BY <3>2, <3>5, <4>3 DEF Sound
        <5>2. v \in Verdict(Top.n, Top.g) => v = Parsed(Top.n, Top.g)
          BY <5>1 DEF Verdict
        <5>. QED
          BY <3>3, <5>1, <5>2
      <4>4. Sound(Container)' = Sound(Top.n) /\ Indexable(answer)' = Indexable(v)
        BY <3>1, <4>1, FileStays
      <4>5. Len(calls') = 1 => L = 2
        BY <1>2, <1>3
      <4>. QED
        BY <3>1, <3>4, <4>1, <4>2, <4>3, <4>4, <4>5 DEF AnswerAgrees, At
    <3>6. CASE calls[m].at = "take"
      <4>1. Top'.at = "take" /\ Top'.n = Top.n /\ Top'.g = Top.g /\ Ref' = Ref /\ ~Packed(Top.n)
        BY <3>1, <3>2, <3>6 DEF Ref
      <4>2. v = Parsed(Top.n, Top.g) \/ (v = Failed /\ parse_context.expired)
        <5>1. ~(L > 2)
          BY <1>3, <3>2, <3>6
        <5>. QED
          BY <3>3, <4>1, <5>1 DEF Verdict
      <4>3. v # Failed => object_cache'[Ref] = v
        BY <3>1 DEF Answered
      <4>4. Parsed(Top.n, Top.g)' = Parsed(Top.n, Top.g)
        BY <4>1, FileStays
      <4>. QED
        BY <3>1, <3>4, <4>1, <4>2, <4>3, <4>4 DEF AnswerAgrees, At
    <3>. QED
      BY <3>1, <3>5, <3>6 DEF AnswerAgrees, At
  <2>. QED
    BY <2>1, <2>2
<1>12. ToldAgree'
  <2>1. \A q \in Questions : q[2] = <<q[2][1], q[2][2]>> /\ q[2][1] \in Numbers /\ q[2][2] \in Gens
    BY QuestionsAssumption DEF References
  <2>2. CASE L = 1 /\ ~(v = Failed /\ parse_context.expired)
    <3>1. /\ v \in Meaning(Asked) /\ Asked = <<Top.op, Ref>> /\ Asked \in Questions
          /\ Asked[1] = Top.op /\ Asked[2] = Ref /\ Idle'
      BY <1>2, <2>2, OutermostFacts DEF L
    <3>2. told' = [told EXCEPT ![Asked] = v] /\ told \in [Questions -> Answers \cup {None}]
      BY <1>4, <2>2, <3>1 DEF IInv, TypeOK
    <3>3. \A q \in Questions : told'[q] = IF q = Asked THEN v ELSE told[q]
      BY <3>1, <3>2
    <3>4. \A q \in Questions : told'[q] # None => told'[q] \in Meaning(q)
      BY <3>1, <3>3 DEF IInv, ToldAgree
    <3>5. ASSUME NEW q \in Questions, q[1] = "get", Packed(q[2][1]), told'[q] = NullObject
          PROVE  object_cache'[q[2]] = NullObject
      <4>1. CASE q = Asked
        BY <3>1, <3>3, <3>5, <4>1, ValueFacts DEF Answered
      <4>2. CASE q # Asked
        <5>1. object_cache[q[2]] = NullObject
          BY <3>3, <3>5, <4>2 DEF IInv, ToldAgree
        <5>. QED
          BY <2>1, <3>5, <5>1 DEF CacheKept
      <4>. QED
        BY <4>1, <4>2
    <3>. QED
      BY <3>1, <3>4, <3>5, FileStays DEF ToldAgree
  <2>3. CASE ~(L = 1 /\ ~(v = Failed /\ parse_context.expired))
    <3>1. told' = told
      BY <1>4, <2>3
    <3>2. ASSUME NEW q \in Questions, q[1] = "get", Packed(q[2][1]), told'[q] = NullObject
          PROVE  object_cache'[q[2]] = NullObject
      <4>1. object_cache[q[2]] = NullObject
        BY <3>1, <3>2 DEF IInv, ToldAgree
      <4>. QED
        BY <2>1, <3>2, <4>1 DEF CacheKept
    <3>3. ~Idle' => calls'[1] = calls[1]
      BY <1>2, <1>3
    <3>4. ~Idle' => Asked' = Asked
      BY <3>3 DEF Asked
    <3>5. \A q \in Questions : told'[q] # None => told'[q] \in Meaning(q)
      BY <3>1 DEF IInv, ToldAgree
    <3>. QED
      BY <3>1, <3>2, <3>3, <3>4, <3>5, FileStays DEF IInv, ToldAgree
  <2>. QED
    BY <2>2, <2>3
<1>. QED
  BY <1>5, <1>6, <1>7, <1>8, <1>9, <1>10, <1>11, <1>12 DEF IInv

-----------------------------------------------------------------------------
(* The steps. *)

\* A cache that is left alone is kept, and so is a context.
LEMMA CacheLeft == ASSUME IInv, object_cache' = object_cache PROVE CacheKept
BY DEF IInv, TypeOK, CachesAgree, CacheKept

\* A parse context that is left alone.
LEMMA ContextLeft == ASSUME IInv, parse_context' = parse_context PROVE ContextKept
BY DEF IInv, TypeOK, GuardMarks, ContextKept

\* What get_object caches is what it may answer.
LEMMA CacheAndKept ==
    ASSUME IInv, ~Idle, NEW v, object_cache' = CacheAnd(Ref, v),
           v \in Answers, v # Failed => v \in Verdict(Top.n, Top.g),
           Packed(Top.n) /\ object_cache[Ref] = NullObject => v \in {Failed, NullObject}
    PROVE  CacheKept /\ (v # Failed => object_cache'[Ref] = v)
<1>1. CASE v = Failed
  BY <1>1, CacheLeft DEF CacheAnd
<1>2. CASE v # Failed
  <2>1. /\ object_cache' = [object_cache EXCEPT ![Ref] = v] /\ Ref = <<Top.n, Top.g>> /\ Ref \in References
        /\ object_cache \in [References -> (Answers \ {Failed}) \cup {None}]
    BY <1>2, TopFacts DEF CacheAnd, IInv, TypeOK
  <2>2. \A r \in References : object_cache'[r] = IF r = Ref THEN v ELSE object_cache[r]
    BY <2>1
  <2>3. object_cache' \in [References -> (Answers \ {Failed}) \cup {None}]
    BY <1>2, <2>1
  <2>4. ASSUME NEW n \in Numbers, NEW g \in Gens
        PROVE  /\ object_cache'[<<n, g>>] # None => object_cache'[<<n, g>>] \in Verdict(n, g)
               /\ Packed(n) /\ object_cache[<<n, g>>] = NullObject => object_cache'[<<n, g>>] = NullObject
    <3>1. <<n, g>> \in References
      BY DEF References
    <3>2. CASE <<n, g>> = Ref
      <4>1. n = Top.n /\ g = Top.g /\ object_cache'[<<n, g>>] = v
        BY <2>1, <2>2, <3>1, <3>2
      <4>. QED
        BY <1>2, <3>2, <4>1
    <3>3. CASE <<n, g>> # Ref
      BY <2>2, <3>1, <3>3 DEF IInv, CachesAgree
    <3>. QED
      BY <3>2, <3>3
  <2>. QED
    BY <2>1, <2>2, <2>3, <2>4 DEF CacheKept
<1>. QED
  BY <1>1, <1>2

\* Asking, unlocking and the clock.
LEMMA CallKeeps ==
    ASSUME IInv, NEW q \in Questions, Call(q[1], q[2])
    PROVE  IInv'
<1>1. q[1] \in {"get", "sparse"} /\ q[2] \in References /\ q[2][1] \in Numbers /\ q[2][2] \in Gens
      /\ q = <<q[1], q[2]>> /\ q[2] = <<q[2][1], q[2][2]>>
  BY QuestionsAssumption DEF References
<1>. DEFINE fr == Frame(q[1], q[2][1], q[2][2], "enter")
<1>2. fr \in Frames /\ fr.at = "enter" /\ fr.op = q[1] /\ fr.n = q[2][1] /\ fr.g = q[2][2]
  BY <1>1 DEF Frame, Frames, Points
<1>3. /\ calls = <<>> /\ calls' = <<fr>> /\ UNCHANGED <<fixed, unlocked>> /\ UNCHANGED caches
      /\ parse_context' = parse_context /\ answer' = answer /\ told' = told
  BY DEF Call, Idle
<1>. HIDE DEF fr
<1>4. calls' \in Seq(Frames) /\ DOMAIN calls' = {1} /\ Len(calls') = 1 /\ calls'[1] = fr /\ ~Idle' /\ Top' = fr
  BY <1>2, <1>3 DEF Idle, Top, Last
<1>5. being_loaded' = being_loaded /\ object_cache' = object_cache /\ object_stream_cache' = object_stream_cache
  BY <1>3 DEF caches
<1>6. Loading = {} /\ Loading' = {}
  <2>1. DOMAIN calls = {}
    BY <1>3
  <2>. QED
    BY <1>2, <1>4, <2>1 DEF Loading
<1>7. TypeOK'
  BY <1>3, <1>4, <1>5 DEF IInv, TypeOK, fixed, Frames
<1>8. StackShape'
  BY <1>2, <1>4 DEF StackShape, FrameOK
<1>9. GuardMarks'
  BY <1>3, <1>5, <1>6 DEF IInv, GuardMarks
<1>10. LockedIdle'
  BY <1>3, <1>5, FileStays DEF IInv, LockedIdle
<1>11. CachesAgree'
  BY <1>3, CachesStay
<1>12. AnswerAgrees'
  BY <1>2, <1>4 DEF AnswerAgrees, At
<1>13. ToldAgree'
  <2>1. Asked' = q
    BY <1>1, <1>2, <1>4 DEF Asked
  <2>. QED
    BY <1>2, <1>3, <1>4, <1>5, <2>1, FileStays DEF IInv, ToldAgree
<1>. QED
  BY <1>3, <1>7, <1>8, <1>9, <1>10, <1>11, <1>12, <1>13, FileStays DEF IInv

\* PdfReader::unlock, when no call is in progress.
LEMMA UnlockKeeps == ASSUME IInv, Unlock PROVE IInv'
<1>1. /\ calls = <<>> /\ calls' = <<>> /\ Locked /\ file' = file /\ options' = options /\ encrypted' = encrypted
      /\ object_cache' = object_cache /\ object_stream_cache' = object_stream_cache
      /\ being_loaded' = being_loaded /\ parse_context' = parse_context /\ told' = told /\ answer' = answer
      /\ unlocked' = TRUE
  BY DEF Unlock, Idle, fixed, caches
<1>2. ~Locked'
  BY <1>1 DEF Locked
<1>3. /\ \A r \in References : object_cache[r] = None
      /\ object_stream_cache = {} /\ \A q \in Questions : told[q] = None
  BY <1>1 DEF IInv, LockedIdle
<1>4. TypeOK'
  BY <1>1 DEF IInv, TypeOK
<1>5. DOMAIN calls = {} /\ DOMAIN calls' = {}
  BY <1>1
<1>6. StackShape' /\ GuardMarks'
  BY <1>1, <1>5 DEF IInv, StackShape, GuardMarks, Loading
<1>7. CachesAgree'
  BY <1>1, <1>3 DEF CachesAgree, References
<1>8. AnswerAgrees'
  BY <1>1 DEF AnswerAgrees, At, Idle
<1>9. ToldAgree'
  BY <1>1, <1>3, ValueFacts DEF ToldAgree, Idle
<1>. QED
  BY <1>1, <1>2, <1>4, <1>6, <1>7, <1>8, <1>9 DEF IInv, LockedIdle, FileOK

\* A step of the clock, or nothing at all, changes nothing that is agreed upon.
LEMMA ClockKeeps ==
    ASSUME IInv, UNCHANGED <<fixed, unlocked, caches, calls, answer, told>>,
           parse_context' \in [depth : 0..MaxParse, expired : BOOLEAN],
           parse_context'.depth > 0 => parse_context'.expired,
           Idle \/ (parse_context.expired => parse_context'.expired)
    PROVE  IInv'
<1>1. /\ calls' = calls /\ answer' = answer /\ told' = told /\ UNCHANGED <<fixed, unlocked>> /\ UNCHANGED caches
      /\ object_cache' = object_cache /\ object_stream_cache' = object_stream_cache
      /\ being_loaded' = being_loaded
  BY DEF caches
<1>2. Top' = Top /\ Idle' = Idle /\ Loading' = Loading /\ Asked' = Asked /\ Ref' = Ref
  BY <1>1 DEF Top, Idle, Loading, Asked, Ref
<1>3. Container' = Container
  BY <1>1, <1>2 DEF Container, fixed
<1>4. \A op, at : At(op, at)' = At(op, at)
  BY <1>2 DEF At
<1>5. TypeOK'
  BY <1>1 DEF IInv, TypeOK, fixed
<1>6. StackShape'
  BY <1>1, FileStays DEF IInv, StackShape, FrameOK
<1>7. GuardMarks'
  BY <1>1, <1>2 DEF IInv, GuardMarks
<1>8. LockedIdle'
  BY <1>1, FileStays DEF IInv, LockedIdle
<1>9. CachesAgree'
  BY <1>1, CachesStay
<1>10. AnswerAgrees'
  <2>1. CASE Idle
    BY <1>2, <2>1 DEF AnswerAgrees, At
  <2>2. CASE parse_context.expired => parse_context'.expired
    <3>1. /\ Sound(Container)' = Sound(Container) /\ Indexable(answer)' = Indexable(answer)
          /\ Parsed(Top.n, Top.g)' = Parsed(Top.n, Top.g)
      BY <1>1, <1>2, <1>3, FileStays
    <3>. QED
      BY <1>1, <1>2, <1>4, <2>2, <3>1 DEF IInv, AnswerAgrees
  <2>. QED
    BY <2>1, <2>2
<1>11. ToldAgree'
  BY <1>1, <1>2, FileStays DEF IInv, ToldAgree
<1>. QED
  BY <1>1, <1>5, <1>6, <1>7, <1>8, <1>9, <1>10, <1>11, FileStays DEF IInv

\* Two minutes have passed.
LEMMA TimeRunsOutKeeps == ASSUME IInv, TimeRunsOut PROVE IInv'
<1>1. parse_context \in [depth : 0..MaxParse, expired : BOOLEAN]
  BY DEF IInv, TypeOK
<1>2. parse_context' = [parse_context EXCEPT !.expired = TRUE]
  BY DEF TimeRunsOut
<1>3. parse_context' \in [depth : 0..MaxParse, expired : BOOLEAN] /\ parse_context'.expired
  BY <1>1, <1>2
<1>4. UNCHANGED <<fixed, unlocked, caches, calls, answer, told>>
  BY DEF TimeRunsOut
<1>. QED
  BY <1>3, <1>4, ClockKeeps

\* clear_parse_context, when no call is in progress.
LEMMA ClearParseContextKeeps == ASSUME IInv, ClearParseContext PROVE IInv'
<1>1. parse_context' \in [depth : 0..MaxParse, expired : BOOLEAN] /\ ~(parse_context'.depth > 0)
  BY SizesAssumption DEF ClearParseContext, FreshContext
<1>2. UNCHANGED <<fixed, unlocked, caches, calls, answer, told>> /\ Idle
  BY DEF ClearParseContext
<1>. QED
  BY <1>1, <1>2, ClockKeeps
\* A locked reader refuses its outermost call and has made no other.
LEMMA RefuseKeeps == ASSUME IInv, Refuse PROVE IInv'
<1>1. /\ ~Idle /\ Locked /\ Return(Failed) /\ UNCHANGED <<fixed, unlocked>> /\ UNCHANGED caches
      /\ parse_context' = parse_context
  BY DEF Refuse, At, caches
<1>2. Len(calls) = 1
  <2>. SUFFICES ASSUME Len(calls) # 1 PROVE FALSE
    OBVIOUS
  <2>1. 1 \in 1..Len(calls)
    BY <1>1, StackFacts DEF IInv
  <2>. QED
    BY <1>1, <2>1, BelowWaits DEF IInv
<1>3. calls' = <<>> /\ answer' = None /\ told' = told /\ Idle'
  <2>1. calls' = Front(calls)
    BY <1>1 DEF Return
  <2>2. calls' = <<>>
    BY <1>1, <1>2, <2>1, ReturnFacts DEF IInv
  <2>. QED
    BY <1>1, <1>2, <2>2 DEF Return, Idle
<1>4. being_loaded' = being_loaded /\ object_cache' = object_cache /\ object_stream_cache' = object_stream_cache
  BY <1>1 DEF caches
<1>5. Loading = {} /\ Loading' = {}
  <2>1. DOMAIN calls = {1} /\ FrameOK(1)
    BY <1>1, <1>2, StackFacts DEF IInv, StackShape
  <2>2. calls[1].at = "enter"
    BY <1>1, <2>1 DEF FrameOK
  <2>. QED
    BY <1>3, <2>1, <2>2 DEF Loading
<1>6. TypeOK'
  BY <1>1, <1>3, <1>4 DEF IInv, TypeOK, fixed
<1>7. StackShape' /\ GuardMarks'
  BY <1>1, <1>3, <1>4, <1>5 DEF IInv, StackShape, GuardMarks
<1>8. LockedIdle'
  BY <1>1, <1>3, <1>4, FileStays DEF IInv, LockedIdle
<1>9. CachesAgree'
  BY <1>1, CachesStay
<1>10. AnswerAgrees'
  BY <1>3 DEF AnswerAgrees, At
<1>11. ToldAgree'
  BY <1>1, <1>3, <1>4, FileStays DEF IInv, ToldAgree
<1>. QED
  BY <1>1, <1>6, <1>7, <1>8, <1>9, <1>10, <1>11, FileStays DEF IInv

\* A frame past its guard belongs to a reader that is not locked.
LEMMA PastGuard == ASSUME IInv, ~Idle, Top.at # "enter" PROVE ~Locked
BY TopFacts DEF FrameOK

\* What each step that returns answers, and what it does to cache, guard and context.
Returns(v) ==
    /\ IInv /\ ~Idle /\ ~Locked /\ UNCHANGED <<fixed, unlocked, object_stream_cache>>
    /\ Return(v) /\ Answered(v) /\ CacheKept /\ Unmarked /\ ContextKept

\* A cached object is returned as it is.
LEMMA HitReturns == ASSUME IInv, Hit PROVE Returns(object_cache[Ref])
<1>1. /\ ~Idle /\ Top.op = "get" /\ Top.at = "enter" /\ ~Locked /\ object_cache[Ref] # None
      /\ Return(object_cache[Ref]) /\ UNCHANGED <<fixed, unlocked, object_stream_cache>>
      /\ object_cache' = object_cache /\ being_loaded' = being_loaded /\ parse_context' = parse_context
  BY DEF Hit, At, Cached, caches
<1>2. Ref = <<Top.n, Top.g>> /\ Top.n \in Numbers /\ Top.g \in Gens
  BY <1>1, TopFacts
<1>3. object_cache[Ref] \in Verdict(Top.n, Top.g)
  BY <1>1, <1>2 DEF IInv, CachesAgree
<1>4. Answered(object_cache[Ref])
  BY <1>1, <1>2, <1>3, VerdictFacts DEF Answered, IInv
<1>. QED
  BY <1>1, <1>4, CacheLeft, ContextLeft DEF Returns, Unmarked

\* A number that is being loaded already is answered with null, which is cached.
LEMMA CircularReturns == ASSUME IInv, CircularReference PROVE Returns(NullObject)
<1>1. /\ ~Idle /\ Top.op = "get" /\ Top.at = "enter" /\ At("get", "enter") /\ ~Locked /\ ~Cached(Ref)
      /\ Top.n \in being_loaded
      /\ Return(NullObject) /\ UNCHANGED <<fixed, unlocked, object_stream_cache>>
      /\ object_cache' = CacheAnd(Ref, NullObject) /\ being_loaded' = being_loaded
      /\ parse_context' = parse_context
  BY DEF CircularReference, At, InLoad
<1>2. Packed(Top.n) /\ Top.g = 0 /\ OnCycle(Top.n)
  BY <1>1, MarkedIsPacked DEF IInv
<1>3. NullObject \in Verdict(Top.n, Top.g)
  BY <1>2 DEF Verdict
<1>4. CacheKept /\ object_cache'[Ref] = NullObject
  BY <1>1, <1>3, CacheAndKept, ValueFacts
<1>5. Answered(NullObject)
  BY <1>1, <1>3, <1>4, ValueFacts DEF Answered
<1>. QED
  BY <1>1, <1>4, <1>5, ContextLeft DEF Returns, Unmarked

\* The guard's limit is not met by an outermost load, nor by the one below it.
LEMMA DepthReturns == ASSUME IInv, DepthExceeded PROVE Returns(Failed)
<1>1. /\ ~Idle /\ Top.op = "get" /\ Top.at = "enter" /\ ~Locked /\ ~Cached(Ref)
      /\ Cardinality(being_loaded) >= MaxDepth
      /\ Return(Failed) /\ UNCHANGED <<fixed, unlocked, object_stream_cache>>
      /\ object_cache' = object_cache /\ being_loaded' = being_loaded /\ parse_context' = parse_context
  BY DEF DepthExceeded, At, TooDeep, caches
<1>2. Len(calls) > 2
  <2>. DEFINE L == Len(calls)
              mark == [i \in 1..(L - 1) |-> calls[i].n]
  <2>1. L \in Nat /\ L >= 1 /\ DOMAIN calls = 1..L /\ Top = calls[L]
    BY <1>1, TopFacts
  <2>2. being_loaded \subseteq {calls[i].n : i \in 1..(L - 1)}
    <3>. HIDE DEF L
    <3>1. L \notin Loading /\ Loading \subseteq 1..L
      BY <1>1, <2>1 DEF Loading
    <3>2. \A i \in 1..L : i # L => i \in 1..(L - 1)
      <4>1. \A k \in Nat : \A i \in 1..k : i # k => i \in 1..(k - 1)
        OBVIOUS
      <4>. QED
        BY <2>1, <4>1
    <3>3. Loading \subseteq 1..(L - 1)
      BY <3>1, <3>2
    <3>. QED
      BY <3>3 DEF IInv, GuardMarks
  <2>3. IsFiniteSet(1..(L - 1)) /\ Cardinality(1..(L - 1)) = L - 1
    <3>1. \A k \in Nat : k >= 1 => (IF 1 > k - 1 THEN 0 ELSE k - 1 - 1 + 1) = k - 1
      OBVIOUS
    <3>2. L - 1 \in Int /\ 1 \in Int
      BY <2>1
    <3>. HIDE DEF L
    <3>3. IsFiniteSet(1..(L - 1)) /\ Cardinality(1..(L - 1)) = IF 1 > L - 1 THEN 0 ELSE L - 1 - 1 + 1
      BY <3>2, FS_Interval
    <3>. QED
      BY <2>1, <3>1, <3>3
  <2>. HIDE DEF L
  <2>4. /\ IsFiniteSet({calls[i].n : i \in 1..(L - 1)})
        /\ Cardinality({calls[i].n : i \in 1..(L - 1)}) <= L - 1
    <3>. DEFINE R == {calls[i].n : i \in 1..(L - 1)}
    <3>1. mark \in [1..(L - 1) -> R] /\ \A x \in R : \E i \in 1..(L - 1) : mark[i] = x
      OBVIOUS
    <3>2. mark \in Surjection(1..(L - 1), R)
      BY <3>1 DEF Surjection
    <3>. HIDE DEF mark, R
    <3>3. IsFiniteSet(R) /\ Cardinality(R) <= Cardinality(1..(L - 1))
      BY <2>3, <3>2, FS_Surjection
    <3>. QED
      BY <2>3, <3>3 DEF R
  <2>5. Cardinality(being_loaded) \in Nat /\ Cardinality(being_loaded) <= Cardinality({calls[i].n : i \in 1..(L - 1)})
        /\ Cardinality({calls[i].n : i \in 1..(L - 1)}) \in Nat
    BY <2>2, <2>4, FS_Subset, FS_CardinalityType
  <2>6. \A a, b, d, k \in Nat : a >= d /\ d # 0 /\ d # 1 /\ a <= b /\ b <= k - 1 => k > 2
    OBVIOUS
  <2>. QED
    BY <1>1, <2>1, <2>4, <2>5, <2>6, SizesAssumption DEF L
<1>3. Answered(Failed)
  BY <1>1, <1>2, ValueFacts DEF Answered
<1>. QED
  BY <1>1, <1>3, CacheLeft, ContextLeft DEF Returns, Unmarked

\* An object that is not packed is loaded from its place in the file.
LEMMA LoadReturns == ASSUME IInv, LoadFromDisk PROVE Returns(Loaded(Top.n, Top.g))
<1>. DEFINE v == Loaded(Top.n, Top.g)
<1>1. /\ ~Idle /\ Top.op = "get" /\ Top.at = "load"
      /\ Return(v) /\ UNCHANGED <<fixed, unlocked, object_stream_cache>>
      /\ object_cache' = CacheAnd(Ref, v) /\ being_loaded' = being_loaded \ {Top.n}
      /\ parse_context' = IF Parses(Top.n, Top.g) THEN Entered ELSE parse_context
  BY DEF LoadFromDisk, At, Unmark
<1>2. ~Locked /\ ~Packed(Top.n) /\ Top.n \in Numbers /\ Top.g \in Gens
  BY <1>1, TopFacts DEF FrameOK
<1>3. v = Parsed(Top.n, Top.g) \/ (v = Failed /\ parse_context.expired)
  BY <1>2, LoadedFacts DEF IInv
<1>. HIDE DEF v
<1>4. v \in Answers /\ (v # Failed => v \in Verdict(Top.n, Top.g))
      /\ (v \in Verdict(Top.n, Top.g) \/ (v = Failed /\ parse_context.expired))
  BY <1>2, <1>3, ParsedType, ValueFacts DEF Verdict, IInv
<1>5. CacheKept /\ (v # Failed => object_cache'[Ref] = v)
  BY <1>1, <1>2, <1>4, CacheAndKept
<1>6. Answered(v)
  BY <1>1, <1>4, <1>5 DEF Answered
<1>7. ContextKept
  <2>1. /\ parse_context \in [depth : 0..MaxParse, expired : BOOLEAN]
        /\ parse_context.depth > 0 => parse_context.expired
    BY DEF IInv, TypeOK, GuardMarks
  <2>2. CASE parse_context' = parse_context
    BY <2>1, <2>2 DEF ContextKept
  <2>3. CASE parse_context' # parse_context
    <3>1. /\ parse_context' = [parse_context EXCEPT !.depth = @ + 1]
          /\ parse_context.depth < MaxParse /\ parse_context.expired
      BY <1>1, <2>3 DEF Entered
    <3>2. parse_context.depth + 1 \in 0..MaxParse
      BY <2>1, <3>1, SizesAssumption
    <3>. QED
      BY <2>1, <3>1, <3>2 DEF ContextKept
  <2>. QED
    BY <2>2, <2>3
<1>. QED
  BY <1>1, <1>2, <1>5, <1>6, <1>7 DEF Returns, Unmarked, v
\* The object stream cannot be read or indexed: the error is the verdict on what it holds.
LEMMA ContainerFailsReturns == ASSUME IInv, ContainerFails PROVE Returns(Failed)
<1>1. /\ ~Idle /\ Top.at = "index" /\ ~Indexable(answer)
      /\ Return(Failed) /\ UNCHANGED <<fixed, unlocked, object_stream_cache>>
      /\ object_cache' = object_cache /\ parse_context' = parse_context
      /\ being_loaded' = IF Top.op = "get" THEN being_loaded \ {Top.n} ELSE being_loaded
  BY DEF ContainerFails, Unmark
<1>2. /\ ~Locked /\ Packed(Top.n) /\ Top.n \in Numbers /\ Top.op \in {"get", "sparse"}
      /\ Len(calls) \in Nat /\ Len(calls) >= 1 /\ (Top.op = "sparse" => Len(calls) = 1)
      /\ Container = file[Top.n].container /\ (Len(calls) = 1 => Asked = <<Top.op, Ref>> /\ Ref = <<Top.n, Top.g>>)
  BY <1>1, TopFacts DEF FrameOK
<1>3. Len(calls) = 1 => ~Sound(Container) \/ parse_context.expired
  BY <1>1, <1>2 DEF IInv, AnswerAgrees, At
<1>4. Len(calls) = 1 => Extracted(Top.n) = Failed \/ parse_context.expired
  BY <1>2, <1>3 DEF Extracted
<1>5. Len(calls) = 1 \/ Len(calls) > 1
  <2>1. \A k \in Nat : k >= 1 => k = 1 \/ k > 1
    OBVIOUS
  <2>. QED
    BY <1>2, <2>1
<1>6. Answered(Failed)
  <2>1. CASE Top.op = "get"
    BY <1>1, <1>2, <1>4, <1>5, <2>1, ValueFacts DEF Answered, Verdict
  <2>2. CASE Top.op = "sparse"
    <3>1. ArrayIn(Failed) = Failed
      BY DEF ArrayIn
    <3>2. Failed \in Meaning(Asked) \/ parse_context.expired
      <4>1. Asked[1] = "sparse" /\ Asked[2][1] = Top.n
        BY <1>2, <2>2
      <4>2. Extracted(Top.n) = Failed => Failed \in Meaning(Asked)
        BY <1>2, <3>1, <4>1 DEF Meaning
      <4>. QED
        BY <1>2, <1>4, <2>2, <4>2
    <3>. QED
      BY <2>2, <3>2, ValueFacts DEF Answered
  <2>. QED
    BY <1>2, <2>1, <2>2
<1>. QED
  BY <1>1, <1>2, <1>6, CacheLeft, ContextLeft DEF Returns, Unmarked

\* A retained container is sound, so what it holds is what the file says.
LEMMA ExtractFacts ==
    ASSUME IInv, ~Idle, Top.at = "extract"
    PROVE  /\ ~Locked /\ Packed(Top.n) /\ Extracted(Top.n) = Unpacked(Top.n)
           /\ Unpacked(Top.n) \in Answers /\ ~OnCycle(Top.n)
<1>1. /\ ~Locked /\ Packed(Top.n) /\ file[Top.n].container \in object_stream_cache /\ Top.n \in Numbers
  BY TopFacts DEF FrameOK
<1>2. Sound(file[Top.n].container)
  BY <1>1 DEF IInv, CachesAgree
<1>3. ~OnCycle(Top.n)
  BY <1>1, <1>2, CycleUnsound DEF IInv, Sound
<1>. QED
  BY <1>1, <1>2, <1>3, UnpackedFacts DEF Extracted, IInv

\* A packed object is taken from its retained stream and cached.
LEMMA ExtractReturns == ASSUME IInv, Extract PROVE Returns(Unpacked(Top.n))
<1>. DEFINE v == Unpacked(Top.n)
<1>1. /\ ~Idle /\ Top.op = "get" /\ Top.at = "extract"
      /\ Return(v) /\ UNCHANGED <<fixed, unlocked, object_stream_cache>>
      /\ object_cache' = CacheAnd(Ref, v) /\ being_loaded' = being_loaded \ {Top.n}
      /\ parse_context' = parse_context
  BY DEF Extract, At, Unmark
<1>2. ~Locked /\ Packed(Top.n) /\ v = Extracted(Top.n) /\ v \in Answers /\ ~OnCycle(Top.n)
  BY <1>1, ExtractFacts
<1>. HIDE DEF v
<1>3. v \in Verdict(Top.n, Top.g)
  BY <1>2 DEF Verdict
<1>4. object_cache[Ref] # NullObject
  <2>1. Ref = <<Top.n, Top.g>> /\ Top.n \in Numbers /\ Top.g \in Gens
    BY <1>1, TopFacts
  <2>2. object_cache[Ref] # None => object_cache[Ref] \in Verdict(Top.n, Top.g)
    BY <2>1 DEF IInv, CachesAgree
  <2>. QED
    BY <1>2, <2>1, <2>2, VerdictFacts, ValueFacts DEF IInv
<1>5. CacheKept /\ (v # Failed => object_cache'[Ref] = v)
  BY <1>1, <1>2, <1>3, <1>4, CacheAndKept
<1>6. Answered(v)
  BY <1>1, <1>2, <1>3, <1>5 DEF Answered
<1>. QED
  BY <1>1, <1>2, <1>5, <1>6, ContextLeft DEF Returns, Unmarked, v

\* A packed array is taken from its retained stream and not cached.
LEMMA SparseExtractReturns == ASSUME IInv, SparseExtract PROVE Returns(ArrayIn(Unpacked(Top.n)))
<1>1. /\ ~Idle /\ Top.op = "sparse" /\ Top.at = "extract"
      /\ Return(ArrayIn(Unpacked(Top.n))) /\ UNCHANGED <<fixed, unlocked, object_stream_cache>>
      /\ object_cache' = object_cache /\ being_loaded' = being_loaded /\ parse_context' = parse_context
  BY DEF SparseExtract, At, caches
<1>2. ~Locked /\ Packed(Top.n) /\ Unpacked(Top.n) = Extracted(Top.n) /\ Unpacked(Top.n) \in Answers
  BY <1>1, ExtractFacts
<1>3. Asked = <<"sparse", <<Top.n, Top.g>>>>
  BY <1>1, TopFacts
<1>4. ArrayIn(Unpacked(Top.n)) \in Meaning(Asked) /\ ArrayIn(Unpacked(Top.n)) \in Answers
  BY <1>2, <1>3, ValueFacts DEF Meaning, ArrayIn
<1>. QED
  BY <1>1, <1>2, <1>4, CacheLeft, ContextLeft DEF Returns, Unmarked, Answered

\* What sparse_array waited for: the object is cached now.
LEMMA TakeFacts ==
    ASSUME IInv, At("sparse", "take")
    PROVE  /\ ~Idle /\ ~Locked /\ ~Packed(Top.n) /\ Asked = <<"sparse", <<Top.n, Top.g>>>>
           /\ answer = Parsed(Top.n, Top.g) \/ (answer = Failed /\ parse_context.expired)
           /\ answer # Failed => object_cache[Ref] = answer
           /\ Parsed(Top.n, Top.g) \in Answers /\ ArrayIn(Parsed(Top.n, Top.g)) \in Meaning(Asked)
<1>1. ~Idle /\ Top.op = "sparse" /\ Top.at = "take"
  BY DEF At
<1>2. /\ ~Locked /\ ~Packed(Top.n) /\ Top.n \in Numbers /\ Top.g \in Gens
      /\ Asked = <<"sparse", <<Top.n, Top.g>>>>
  BY <1>1, TopFacts DEF FrameOK
<1>3. Parsed(Top.n, Top.g) \in Answers
  BY <1>2, ParsedType DEF IInv
<1>4. ArrayIn(Parsed(Top.n, Top.g)) \in Meaning(Asked)
  BY <1>2 DEF Meaning
<1>. QED
  BY <1>1, <1>2, <1>3, <1>4 DEF IInv, AnswerAgrees

\* An array is taken out of the cache, where get_object has put it.
LEMMA SparseTakeReturns == ASSUME IInv, SparseTake PROVE Returns(ArrayIn(object_cache[Ref]))
<1>1. /\ At("sparse", "take") /\ Top.op = "sparse" /\ answer # Failed
      /\ Return(ArrayIn(object_cache[Ref])) /\ UNCHANGED <<fixed, unlocked, object_stream_cache>>
      /\ object_cache' = [object_cache EXCEPT ![Ref] = None]
      /\ being_loaded' = being_loaded /\ parse_context' = parse_context
  BY DEF SparseTake, At, Taken
<1>2. /\ ~Idle /\ ~Locked /\ ~Packed(Top.n) /\ object_cache[Ref] = Parsed(Top.n, Top.g)
      /\ Parsed(Top.n, Top.g) \in Answers /\ ArrayIn(Parsed(Top.n, Top.g)) \in Meaning(Asked)
  BY <1>1, TakeFacts
<1>3. Answered(ArrayIn(object_cache[Ref]))
  BY <1>1, <1>2, ValueFacts DEF Answered, ArrayIn
<1>4. CacheKept
  <2>1. Ref = <<Top.n, Top.g>> /\ Ref \in References /\ object_cache \in [References -> (Answers \ {Failed}) \cup {None}]
    BY <1>2, TopFacts DEF IInv, TypeOK
  <2>2. object_cache' \in [References -> (Answers \ {Failed}) \cup {None}]
    BY <1>1, <2>1
  <2>3. \A n \in Numbers, g \in Gens :
          <<n, g>> \in References /\ (object_cache'[<<n, g>>] = object_cache[<<n, g>>]
                                        \/ (n = Top.n /\ object_cache'[<<n, g>>] = None))
    <3>1. \A n \in Numbers, g \in Gens : <<n, g>> \in References
      BY DEF References
    <3>2. \A r \in References : object_cache'[r] = IF r = Ref THEN None ELSE object_cache[r]
      BY <1>1, <2>1
    <3>3. \A n \in Numbers, g \in Gens : <<n, g>> = Ref => n = Top.n
      BY <2>1
    <3>. SUFFICES ASSUME NEW n \in Numbers, NEW g \in Gens
                  PROVE  <<n, g>> \in References /\ (object_cache'[<<n, g>>] = object_cache[<<n, g>>]
                                                     \/ (n = Top.n /\ object_cache'[<<n, g>>] = None))
      OBVIOUS
    <3>4. <<n, g>> \in References /\ (<<n, g>> = Ref => n = Top.n)
      BY <3>1, <3>3
    <3>. DEFINE r == <<n, g>>
    <3>5. object_cache'[r] = IF r = Ref THEN None ELSE object_cache[r]
      BY <3>2, <3>4
    <3>6. r \in References /\ (r = Ref => n = Top.n)
      BY <3>4
    <3>. HIDE DEF r
    <3>7. r \in References /\ (object_cache'[r] = object_cache[r] \/ (n = Top.n /\ object_cache'[r] = None))
      BY <3>5, <3>6
    <3>. QED
      BY <3>7 DEF r
  <2>. QED
    BY <1>2, <2>2, <2>3 DEF CacheKept, IInv, CachesAgree
<1>. QED
  BY <1>1, <1>2, <1>3, <1>4, ContextLeft DEF Returns, Unmarked

\* The load that sparse_array waited for has failed.
LEMMA SparseFailsReturns == ASSUME IInv, SparseFails PROVE Returns(Failed)
<1>1. /\ At("sparse", "take") /\ Top.op = "sparse" /\ answer = Failed
      /\ Return(Failed) /\ UNCHANGED <<fixed, unlocked, object_stream_cache>>
      /\ object_cache' = object_cache /\ being_loaded' = being_loaded /\ parse_context' = parse_context
  BY DEF SparseFails, At, caches
<1>2. /\ ~Idle /\ ~Locked /\ (Parsed(Top.n, Top.g) = Failed \/ parse_context.expired)
      /\ ArrayIn(Parsed(Top.n, Top.g)) \in Meaning(Asked)
  BY <1>1, TakeFacts
<1>3. ArrayIn(Failed) = Failed
  BY DEF ArrayIn
<1>. QED
  BY <1>1, <1>2, <1>3, CacheLeft, ContextLeft, ValueFacts DEF Returns, Unmarked, Answered

\* The steps that go on, and those that call.
LEMMA MarkLoadingKeeps == ASSUME IInv, MarkLoading PROVE IInv'
<1>. DEFINE point == IF Packed(Top.n) THEN "open" ELSE "load"
<1>1. /\ ~Idle /\ Top.op = "get" /\ Top.at = "enter" /\ ~Locked /\ ~Cached(Ref) /\ Top.n \notin being_loaded
      /\ GoTo(point) /\ UNCHANGED <<fixed, unlocked, parse_context, object_cache>>
      /\ being_loaded' = being_loaded \cup {Top.n} /\ object_stream_cache' = object_stream_cache
  BY DEF MarkLoading, At, InLoad
<1>2. GoesOn(point)
  BY <1>1 DEF GoesOn, IInv, TypeOK, CachesAgree
<1>. QED
  BY <1>1, <1>2, GoToKeeps

\* sparse_array of a packed array opens the object stream itself.
LEMMA SparsePackedKeeps == ASSUME IInv, SparsePacked PROVE IInv'
<1>1. /\ ~Idle /\ Top.op = "sparse" /\ ~Locked /\ Packed(Top.n)
      /\ GoTo("open") /\ UNCHANGED <<fixed, unlocked, parse_context, object_cache>>
      /\ being_loaded' = being_loaded /\ object_stream_cache' = object_stream_cache
  BY DEF SparsePacked, At, caches
<1>2. GoesOn("open")
  BY <1>1 DEF GoesOn, IInv, TypeOK, CachesAgree
<1>. QED
  BY <1>1, <1>2, GoToKeeps

\* ensure_object_stream finds the stream retained.
LEMMA ContainerRetainedKeeps == ASSUME IInv, ContainerRetained PROVE IInv'
<1>1. /\ ~Idle /\ Top.at = "open" /\ Container \in object_stream_cache
      /\ GoTo("extract") /\ UNCHANGED <<fixed, unlocked, parse_context, object_cache>>
      /\ being_loaded' = being_loaded /\ object_stream_cache' = object_stream_cache
  BY DEF ContainerRetained, caches
<1>2. ~Locked /\ Packed(Top.n)
  BY <1>1, TopFacts DEF FrameOK
<1>3. GoesOn("extract")
  BY <1>1, <1>2 DEF GoesOn, IInv, TypeOK, CachesAgree
<1>. QED
  BY <1>1, <1>2, <1>3, GoToKeeps

\* ensure_object_stream has read and indexed the stream, and retains it.
LEMMA RetainContainerKeeps == ASSUME IInv, RetainContainer PROVE IInv'
<1>1. /\ ~Idle /\ Top.at = "index" /\ Indexable(answer)
      /\ GoTo("extract") /\ UNCHANGED <<fixed, unlocked, parse_context, object_cache>>
      /\ being_loaded' = being_loaded /\ object_stream_cache' = RetainWith(Container)
  BY DEF RetainContainer
<1>2. ~Locked /\ Packed(Top.n) /\ Container \in Numbers /\ Top.op \in {"get", "sparse"}
  BY <1>1, TopFacts DEF FrameOK
<1>3. Sound(Container)
  BY <1>1, <1>2 DEF IInv, AnswerAgrees, At
<1>4. Container \in object_stream_cache' /\ object_stream_cache' \subseteq {Container} \cup object_stream_cache
  BY <1>1 DEF RetainWith
<1>5. GoesOn("extract")
  BY <1>1, <1>2, <1>3, <1>4 DEF GoesOn, IInv, TypeOK, CachesAgree
<1>. QED
  BY <1>1, <1>2, <1>5, GoToKeeps

\* sparse_array of an array that is not packed calls get_object.
LEMMA SparsePlainKeeps == ASSUME IInv, SparsePlain PROVE IInv'
<1>1. /\ ~Idle /\ Top.op = "sparse" /\ ~Locked /\ ~Packed(Top.n)
      /\ Await("take", Top.n, Top.g) /\ UNCHANGED <<fixed, unlocked, parse_context, caches>>
  BY DEF SparsePlain, At
<1>2. Waits("take", Top.n, Top.g)
  BY <1>1 DEF Waits
<1>. QED
  BY <1>1, <1>2, AwaitKeeps

\* ensure_object_stream calls get_object for the stream.
LEMMA ReadContainerKeeps == ASSUME IInv, ReadContainer PROVE IInv'
<1>1. /\ ~Idle /\ Top.at = "open"
      /\ Await("index", Container, 0) /\ UNCHANGED <<fixed, unlocked, parse_context, caches>>
  BY DEF ReadContainer
<1>2. ~Locked /\ Packed(Top.n)
  BY <1>1, TopFacts DEF FrameOK
<1>3. Waits("index", Container, 0)
  BY <1>1, <1>2 DEF Waits
<1>. QED
  BY <1>1, <1>2, <1>3, AwaitKeeps

\* The steps that answer.
Answering ==
    \/ Hit \/ CircularReference \/ DepthExceeded \/ LoadFromDisk \/ ContainerFails
    \/ Extract \/ SparseExtract \/ SparseTake \/ SparseFails

\* Whatever step answers, it answers as the file says.
LEMMA AnsweringReturns == ASSUME IInv, Answering PROVE \E v : Returns(v)
BY HitReturns, CircularReturns, DepthReturns, LoadReturns, ContainerFailsReturns, ExtractReturns,
   SparseExtractReturns, SparseTakeReturns, SparseFailsReturns DEF Answering

\* Answering as the file says keeps the invariant.
LEMMA ReturnsKeeps == ASSUME NEW v, Returns(v) PROVE IInv'
BY ReturnKeeps DEF Returns

\* No step of the reader breaks the invariant.
THEOREM StepKeeps == ASSUME IInv, [Next]_vars PROVE IInv'
<1>1. CASE \E q \in Questions : Call(q[1], q[2])
  BY <1>1, CallKeeps
<1>2. CASE Answering
  BY <1>2, AnsweringReturns, ReturnsKeeps
<1>3. CASE UNCHANGED vars
  <2>1. UNCHANGED <<fixed, unlocked, caches, calls, answer, told>> /\ parse_context' = parse_context
    BY <1>3 DEF vars
  <2>. QED
    BY <2>1, ClockKeeps DEF IInv, TypeOK, GuardMarks
<1>. QED
  BY <1>1, <1>2, <1>3, UnlockKeeps, TimeRunsOutKeeps, ClearParseContextKeeps, RefuseKeeps, MarkLoadingKeeps,
     SparsePackedKeeps, SparsePlainKeeps, ContainerRetainedKeeps, ReadContainerKeeps, RetainContainerKeeps
     DEF Next, Answering

\* The inductive invariant holds in every reachable state.
THEOREM Invariance == Spec => []IInv
BY InitEstablishes, StepKeeps, PTL DEF Spec
-----------------------------------------------------------------------------
(* The promises. *)

\* What the guard has marked is what is being loaded, each number once.
THEOREM GuardIsStackAlways == Spec => []GuardIsStack
<1>1. ASSUME IInv PROVE GuardIsStack
  <2>1. IsFiniteSet(Loading)
    <3>1. IsFiniteSet(DOMAIN calls)
      <4>1. CASE Idle
        <5>1. DOMAIN calls = {}
          BY <4>1 DEF Idle
        <5>. QED
          BY <5>1, FS_EmptySet
      <4>2. CASE ~Idle
        <5>1. DOMAIN calls = 1..Len(calls) /\ Len(calls) \in Int /\ 1 \in Int
          BY <1>1, <4>2, StackFacts DEF IInv
        <5>. QED
          BY <5>1, FS_Interval
      <4>. QED
        BY <4>1, <4>2
    <3>2. Loading \subseteq DOMAIN calls
      BY DEF Loading
    <3>. QED
      BY <3>1, <3>2, FS_Subset
  <2>. DEFINE number == [i \in Loading |-> calls[i].n]
  <2>2. being_loaded = {calls[i].n : i \in Loading} /\ \A i, j \in Loading : calls[i].n = calls[j].n => i = j
    BY <1>1 DEF IInv, GuardMarks
  <2>3. number \in Bijection(Loading, being_loaded)
    BY <2>2 DEF Bijection, Injection, Surjection, IsInjective
  <2>4. Cardinality(being_loaded) = Cardinality(Loading)
    BY <2>1, <2>3, FS_Bijection DEF ExistsBijection
  <2>. QED
    BY <1>1, <2>2, <2>4 DEF GuardIsStack, Loading, IInv, GuardMarks
<1>. QED
  BY <1>1, Invariance, PTL

\* What parses to null is freed by the file, or taken as null by lenient reading.
LEMMA ParsedNull ==
    ASSUME FileOK, NEW n \in Numbers, NEW g \in Gens, Parsed(n, g) = NullObject
    PROVE  file[n].xref = "free" \/ (file[n].xref = "none" /\ Lenient /\ ~Found(n, g))
<1>1. Recovered(n, g) # NullObject
  BY RecoveredType, ValueFacts
<1>2. \A own \in Gens : file[n].body # "broken" => Decrypted(n, g, file[n].body, own) # NullObject
  <2>1. file[n].body # "broken" => file[n].body \in Bodies \ {"broken"}
    BY FileFacts
  <2>. QED
    BY <2>1, DecryptedType, ValueFacts
<1>. QED
  BY <1>1, <1>2, FileFacts, ValueFacts DEF Parsed

\* Only the file, or a cycle through generation 0, makes a cached null.
THEOREM NullOnlyIfSaidAlways == Spec => []NullOnlyIfSaid
<1>1. ASSUME IInv PROVE NullOnlyIfSaid
  <2>. SUFFICES ASSUME NEW r \in References, object_cache[r] = NullObject
                PROVE  \/ file[r[1]].xref = "free"
                       \/ file[r[1]].xref = "none" /\ Lenient /\ ~Found(r[1], r[2])
                       \/ r[2] = 0 /\ OnCycle(r[1])
    BY DEF NullOnlyIfSaid
  <2>1. r[1] \in Numbers /\ r[2] \in Gens /\ r = <<r[1], r[2]>>
    BY DEF References
  <2>2. NullObject \in Verdict(r[1], r[2])
    BY <1>1, <2>1, ValueFacts DEF IInv, CachesAgree
  <2>3. ~Packed(r[1]) => Parsed(r[1], r[2]) = NullObject
    BY <2>2 DEF Verdict
  <2>4. Packed(r[1]) => r[2] = 0 /\ OnCycle(r[1])
    BY <1>1, <2>1, <2>2, VerdictFacts DEF IInv
  <2>. QED
    BY <1>1, <2>1, <2>3, <2>4, ParsedNull DEF IInv
<1>. QED
  BY <1>1, Invariance, PTL

\* What is cached of an encrypted file was decrypted exactly once.
THEOREM DecryptedOnceAlways == Spec => []DecryptedOnce
<1>1. ASSUME IInv PROVE DecryptedOnce
  <2>. SUFFICES ASSUME NEW r \in References, object_cache[r] \in Value
                PROVE  object_cache[r].key # None <=> encrypted /\ ~Packed(r[1])
    BY DEF DecryptedOnce
  <2>1. r[1] \in Numbers /\ r[2] \in Gens /\ r = <<r[1], r[2]>>
    BY DEF References
  <2>2. object_cache[r] # None
    BY ValueFacts
  <2>3. object_cache[r] \in Verdict(r[1], r[2])
    BY <1>1, <2>1, <2>2 DEF IInv, CachesAgree
  <2>4. ~Locked
    BY <1>1, <2>2 DEF IInv, LockedIdle
  <2>5. CASE Packed(r[1])
    BY <1>1, <2>1, <2>3, <2>5, VerdictFacts DEF IInv
  <2>6. CASE ~Packed(r[1])
    <3>1. object_cache[r] = Parsed(r[1], r[2])
      BY <2>3, <2>6 DEF Verdict
    <3>2. object_cache[r].key = None <=> ~(encrypted /\ unlocked)
      BY <1>1, <2>1, <3>1, ParsedType DEF IInv
    <3>. QED
      BY <2>4, <2>6, <3>2 DEF Locked
  <2>. QED
    BY <2>5, <2>6
<1>. QED
  BY <1>1, Invariance, PTL

\* Two answers to one question.
AnswersStay ==
    \A q \in Questions : told[q] # None =>
        \/ told'[q] = told[q]
        \/ q[2][2] = 0 /\ OnCycle(q[2][1]) /\ told[q] = Failed /\ told'[q] = NullObject

\* A step that answers an outermost call answers as before.
LEMMA ReturnAgrees == ASSUME NEW v, Returns(v) PROVE AnswersStay
<1>1. /\ IInv /\ ~Idle /\ Return(v) /\ Answered(v)
  BY DEF Returns
<1>2. CASE ~(Len(calls) = 1 /\ ~(v = Failed /\ parse_context.expired))
  <2>1. told' = told
    BY <1>1, <1>2 DEF Return
  <2>. QED
    BY <2>1 DEF AnswersStay
<1>3. CASE Len(calls) = 1 /\ ~(v = Failed /\ parse_context.expired)
  <2>1. /\ v \in Meaning(Asked) /\ Asked = <<Top.op, Ref>> /\ Asked \in Questions /\ Asked[1] = Top.op
        /\ Asked[2] = Ref /\ Asked[2][1] = Top.n /\ Asked[2][2] = Top.g
    BY <1>1, <1>3, OutermostFacts
  <2>2. /\ Top.op \in {"get", "sparse"} /\ Top.n \in Numbers /\ Top.g \in Gens /\ Top = calls[1]
        /\ Ref = <<Top.n, Top.g>>
    BY <1>1, <1>3, TopFacts
  <2>3. \A q \in Questions : told'[q] = IF q = Asked THEN v ELSE told[q]
    <3>1. told' = [told EXCEPT ![Asked] = v] /\ told \in [Questions -> Answers \cup {None}]
      BY <1>1, <1>3, <2>1 DEF Return, Returns, IInv, TypeOK
    <3>. QED
      BY <2>1, <3>1
  <2>4. ASSUME told[Asked] # None
        PROVE  v = told[Asked] \/ (Top.g = 0 /\ OnCycle(Top.n) /\ told[Asked] = Failed /\ v = NullObject)
    <3>1. told[Asked] \in Meaning(Asked)
      BY <1>1, <2>1, <2>4 DEF IInv, ToldAgree
    <3>2. CASE Top.op = "sparse"
      BY <2>1, <3>1, <3>2 DEF Meaning
    <3>3. CASE Top.op = "get"
      <4>1. v \in Verdict(Top.n, Top.g) /\ told[Asked] \in Verdict(Top.n, Top.g)
        BY <2>1, <3>1, <3>3 DEF Meaning
      <4>2. CASE ~Packed(Top.n)
        BY <4>1, <4>2 DEF Verdict
      <4>3. CASE Packed(Top.n) /\ told[Asked] = NullObject
        <5>1. object_cache[Ref] = NullObject
          BY <1>1, <2>1, <3>3, <4>3 DEF IInv, ToldAgree
        <5>2. Top.at = "enter"
          BY <1>1, <2>1, <2>2, <3>3, <4>3 DEF IInv, ToldAgree
        <5>. QED
          BY <1>1, <3>3, <4>3, <5>1, <5>2, ValueFacts DEF Answered, Cached
      <4>4. CASE Packed(Top.n) /\ told[Asked] # NullObject
        BY <1>1, <2>2, <4>1, <4>4, VerdictFacts DEF IInv
      <4>. QED
        BY <4>2, <4>3, <4>4
    <3>. QED
      BY <2>2, <3>2, <3>3
  <2>. QED
    BY <2>1, <2>3, <2>4 DEF AnswersStay
<1>. QED
  BY <1>2, <1>3

\* Asked the same again, an unlocked reader answers the same.
THEOREM AnswersAgreeAlways == Spec => AnswersAgree
<1>1. ASSUME IInv, [Next]_vars PROVE [AnswersStay]_vars
  <2>1. ASSUME told' = told PROVE AnswersStay
    BY <2>1 DEF AnswersStay
  <2>2. CASE Answering
    BY <1>1, <2>2, AnsweringReturns, ReturnAgrees
  <2>3. CASE Refuse
    BY <2>1, <2>3 DEF Refuse, Return
  <2>4. CASE UNCHANGED vars
    BY <2>4
  <2>5. CASE \E q \in Questions : Call(q[1], q[2])
    BY <2>1, <2>5 DEF Call
  <2>6. CASE Unlock \/ TimeRunsOut \/ ClearParseContext
    BY <2>1, <2>6 DEF Unlock, TimeRunsOut, ClearParseContext
  <2>7. CASE \/ MarkLoading \/ SparsePacked \/ SparsePlain
             \/ ContainerRetained \/ ReadContainer \/ RetainContainer
    BY <2>1, <2>7 DEF MarkLoading, SparsePacked, SparsePlain, ContainerRetained, ReadContainer,
                      RetainContainer, GoTo, Await
  <2>. QED
    BY <1>1, <2>2, <2>3, <2>4, <2>5, <2>6, <2>7 DEF Next, Answering
<1>2. [AnswersStay]_vars <=> [\A q \in Questions : told[q] # None =>
          \/ told'[q] = told[q]
          \/ q[2][2] = 0 /\ OnCycle(q[2][1]) /\ told[q] = Failed /\ told'[q] = NullObject]_vars
  BY DEF AnswersStay
<1>. QED
  BY <1>1, <1>2, Invariance, PTL DEF Spec, AnswersAgree
-----------------------------------------------------------------------------
(* What the retained object streams occupy.  The sum over a set is a function *)
(* that takes one element after another; that their order does not matter,    *)
(* and that there is such a function at all, are inductions over finite sets, *)
(* each by a smallest set for which it is not so.                             *)

Pick(T) == CHOOSE n \in T : TRUE
IsSum(f, S) == f = [T \in SUBSET S |-> IF T = {} THEN 0 ELSE file[Pick(T)].size + f[T \ {Pick(T)}]]
SumOn(S) == CHOOSE f : IsSum(f, S)

\* The sum of the community modules is such a function.
LEMMA RetainedIsSum == \A S : Retained(S) = SumOn(S)[S]
BY SMT DEF Retained, MapThenSumSet, MapThenFoldSet, SumOn, IsSum, Pick

\* Of sets of numbers one is the smallest.
LEMMA SmallestSet ==
    ASSUME NEW Bad \in SUBSET (SUBSET Numbers), Bad # {}
    PROVE  \E T \in Bad : \A W \in SUBSET T : W # T => W \notin Bad
<1>1. IsFiniteSet(Numbers)
  <2>1. 1 \in Int /\ MaxNumber \in Int
    BY SizesAssumption
  <2>. QED
    BY <2>1, FS_Interval DEF Numbers
<1>2. IsWellFoundedOn(StrictSubsetOrdering(Numbers), SUBSET Numbers)
  BY <1>1, FS_StrictSubsetOrderingWellFounded, FS_FiniteSubsetsOfFinite
<1>3. PICK T \in Bad : \A W \in Bad : <<W, T>> \notin StrictSubsetOrdering(Numbers)
  BY <1>2, WFMin
<1>4. ASSUME NEW W \in SUBSET T, W # T, W \in Bad PROVE FALSE
  <2>1. <<W, T>> \in StrictSubsetOrdering(Numbers)
    BY <1>4 DEF StrictSubsetOrdering
  <2>. QED
    BY <1>3, <1>4, <2>1, Zenon
<1>. QED
  BY <1>4

\* The element that is counted first.
LEMMA PickFacts == ASSUME NEW T, T # {} PROVE Pick(T) \in T /\ T \ {Pick(T)} # T
BY DEF Pick

\* What the function that sums says of one set.
LEMMA SumEquations ==
    ASSUME NEW S, NEW f, IsSum(f, S), NEW T \in SUBSET S
    PROVE  /\ T = {} => f[T] = 0
           /\ T # {} => f[T] = file[Pick(T)].size + f[T \ {Pick(T)}]
<1>1. f = [U \in SUBSET S |-> IF U = {} THEN 0 ELSE file[Pick(U)].size + f[U \ {Pick(U)}]]
  BY DEF IsSum
<1>. QED
  BY <1>1

\* The sum of a set does not depend on the set it is taken in.
LEMMA SumsAgree ==
    ASSUME NEW S \in SUBSET Numbers, NEW R \in SUBSET Numbers, NEW f, NEW h, IsSum(f, S), IsSum(h, R)
    PROVE  \A T \in SUBSET (S \cap R) : f[T] = h[T]
<1>. DEFINE Bad == {T \in SUBSET (S \cap R) : f[T] # h[T]}
<1>. SUFFICES ASSUME Bad # {} PROVE FALSE
  OBVIOUS
<1>1. Bad \in SUBSET (SUBSET Numbers)
  OBVIOUS
<1>. HIDE DEF Bad
<1>2. PICK T \in Bad : \A W \in SUBSET T : W # T => W \notin Bad
  BY <1>1, SmallestSet
<1>3. T \in SUBSET S /\ T \in SUBSET R /\ f[T] # h[T]
  BY DEF Bad
<1>4. T # {}
  BY <1>3, SumEquations
<1>. DEFINE W == T \ {Pick(T)}
<1>5. W \in SUBSET T /\ W # T
  BY <1>4, PickFacts
<1>6. f[W] = h[W]
  BY <1>2, <1>3, <1>5 DEF Bad
<1>7. f[T] = file[Pick(T)].size + f[W] /\ h[T] = file[Pick(T)].size + h[W]
  BY <1>3, <1>4, SumEquations
<1>. QED
  BY <1>3, <1>6, <1>7

\* There is a function that sums.
LEMMA SumExists == ASSUME NEW S \in SUBSET Numbers PROVE \E f : IsSum(f, S)
<1>. DEFINE Bad == {U \in SUBSET Numbers : ~\E f : IsSum(f, U)}
<1>. SUFFICES ASSUME Bad # {} PROVE FALSE
  OBVIOUS
<1>1. Bad \in SUBSET (SUBSET Numbers)
  OBVIOUS
<1>. HIDE DEF Bad
<1>2. PICK U \in Bad : \A W \in SUBSET U : W # U => W \notin Bad
  BY <1>1, SmallestSet
<1>3. U \in SUBSET Numbers /\ ~\E f : IsSum(f, U)
  BY DEF Bad
<1>4. \A T \in SUBSET U : T # {} => T \ {Pick(T)} \in SUBSET Numbers /\ IsSum(SumOn(T \ {Pick(T)}), T \ {Pick(T)})
  <2>. SUFFICES ASSUME NEW T \in SUBSET U, T # {}
                PROVE  T \ {Pick(T)} \in SUBSET Numbers /\ IsSum(SumOn(T \ {Pick(T)}), T \ {Pick(T)})
    OBVIOUS
  <2>. DEFINE W == T \ {Pick(T)}
  <2>1. W \in SUBSET U /\ W # U
    BY PickFacts
  <2>2. W \in SUBSET Numbers /\ \E f : IsSum(f, W)
    BY <1>2, <1>3, <2>1 DEF Bad
  <2>. HIDE DEF W
  <2>3. IsSum(SumOn(W), W)
    BY <2>2 DEF SumOn
  <2>. QED
    BY <2>2, <2>3 DEF W
<1>. DEFINE Of(T) == IF T = {} THEN 0 ELSE file[Pick(T)].size + SumOn(T \ {Pick(T)})[T \ {Pick(T)}]
            sum == [T \in SUBSET U |-> Of(T)]
<1>5. ASSUME NEW T \in SUBSET U, T # {}
      PROVE  sum[T \ {Pick(T)}] = SumOn(T \ {Pick(T)})[T \ {Pick(T)}]
  <2>. DEFINE W == T \ {Pick(T)}
  <2>1. W \in SUBSET U /\ W \in SUBSET Numbers /\ IsSum(SumOn(W), W) /\ W \in SUBSET W
    BY <1>4, <1>5
  <2>2. /\ W = {} => sum[W] = 0
        /\ W # {} => sum[W] = file[Pick(W)].size + SumOn(W \ {Pick(W)})[W \ {Pick(W)}]
    BY <2>1
  <2>. HIDE DEF W, sum
  <2>3. ASSUME W = {} PROVE sum[W] = SumOn(W)[W]
    <3>1. SumOn(W)[W] = 0
      BY <2>1, <2>3, SumEquations
    <3>. QED
      BY <2>2, <2>3, <3>1
  <2>4. ASSUME W # {} PROVE sum[W] = SumOn(W)[W]
    <3>. DEFINE V == W \ {Pick(W)}
    <3>1. V \in SUBSET Numbers /\ IsSum(SumOn(V), V)
      BY <1>4, <2>1, <2>4
    <3>2. V \in SUBSET (W \cap V)
      OBVIOUS
    <3>3. SumOn(V)[V] = SumOn(W)[V]
      <4>1. \A R \in SUBSET (W \cap V) : SumOn(W)[R] = SumOn(V)[R]
        BY <2>1, <3>1, SumsAgree
      <4>. QED
        BY <3>2, <4>1
    <3>4. SumOn(W)[W] = file[Pick(W)].size + SumOn(W)[V]
      BY <2>1, <2>4, SumEquations
    <3>. QED
      BY <2>2, <2>4, <3>3, <3>4
  <2>. QED
    BY <2>3, <2>4 DEF W
<1>6. sum = [T \in SUBSET U |-> IF T = {} THEN 0 ELSE file[Pick(T)].size + sum[T \ {Pick(T)}]]
  <2>1. \A T \in SUBSET U : Of(T) = IF T = {} THEN 0 ELSE file[Pick(T)].size + sum[T \ {Pick(T)}]
    BY <1>5
  <2>. QED
    BY <2>1
<1>. QED
  BY <1>3, <1>6 DEF IsSum

\* The sum, one stream after another.
LEMMA RetainedEquations ==
    ASSUME NEW T \in SUBSET Numbers
    PROVE  /\ T = {} => Retained(T) = 0
           /\ T # {} => Retained(T) = file[Pick(T)].size + Retained(T \ {Pick(T)})
<1>. DEFINE W == T \ {Pick(T)}
<1>1. W \in SUBSET Numbers /\ W \in SUBSET T /\ T \in SUBSET T /\ W \in SUBSET (T \cap W)
  OBVIOUS
<1>2. IsSum(SumOn(T), T)
  BY SumExists DEF SumOn
<1>. HIDE DEF W
<1>3. IsSum(SumOn(W), W)
  BY <1>1, SumExists DEF SumOn
<1>4. SumOn(T)[W] = SumOn(W)[W]
  BY <1>1, <1>2, <1>3, SumsAgree
<1>5. /\ T = {} => SumOn(T)[T] = 0
      /\ T # {} => SumOn(T)[T] = file[Pick(T)].size + SumOn(T)[W]
  BY <1>1, <1>2, SumEquations DEF W
<1>6. Retained(T) = SumOn(T)[T] /\ Retained(W) = SumOn(W)[W]
  BY RetainedIsSum
<1>. QED
  BY <1>4, <1>5, <1>6 DEF W

\* The sum is a number.
LEMMA RetainedType == ASSUME FileOK PROVE \A S \in SUBSET Numbers : Retained(S) \in Nat
<1>. DEFINE Bad == {S \in SUBSET Numbers : Retained(S) \notin Nat}
<1>. SUFFICES ASSUME Bad # {} PROVE FALSE
  OBVIOUS
<1>1. Bad \in SUBSET (SUBSET Numbers)
  OBVIOUS
<1>. HIDE DEF Bad
<1>2. PICK T \in Bad : \A W \in SUBSET T : W # T => W \notin Bad
  BY <1>1, SmallestSet
<1>3. T \in SUBSET Numbers /\ Retained(T) \notin Nat
  BY DEF Bad
<1>4. T # {} /\ Retained(T) = file[Pick(T)].size + Retained(T \ {Pick(T)})
  BY <1>3, RetainedEquations
<1>5. T \ {Pick(T)} \in SUBSET T /\ T \ {Pick(T)} # T /\ Pick(T) \in Numbers
  BY <1>3, <1>4, PickFacts
<1>6. Retained(T \ {Pick(T)}) \in Nat
  BY <1>2, <1>3, <1>5 DEF Bad
<1>7. file[Pick(T)].size \in Nat
  BY <1>5, FileFacts
<1>. QED
  BY <1>3, <1>4, <1>6, <1>7

\* Whichever stream is counted first, the sum is the same.
LEMMA RetainedSplits ==
    ASSUME FileOK
    PROVE  \A S \in SUBSET Numbers : \A n \in S : Retained(S) = file[n].size + Retained(S \ {n})
<1>. DEFINE Splits(S, n) == Retained(S) = file[n].size + Retained(S \ {n})
            Bad == {S \in SUBSET Numbers : \E n \in S : ~Splits(S, n)}
<1>. SUFFICES ASSUME Bad # {} PROVE FALSE
  OBVIOUS
<1>1. Bad \in SUBSET (SUBSET Numbers)
  OBVIOUS
<1>. HIDE DEF Bad
<1>2. PICK T \in Bad : \A W \in SUBSET T : W # T => W \notin Bad
  BY <1>1, SmallestSet
<1>3. T \in SUBSET Numbers /\ \E n \in T : ~Splits(T, n)
  BY DEF Bad
<1>4. PICK n \in T : ~Splits(T, n)
  BY <1>3
<1>. DEFINE p == Pick(T)
<1>5. p \in T /\ Splits(T, p)
  BY <1>3, <1>4, PickFacts, RetainedEquations
<1>. HIDE DEF p
<1>6. p # n
  BY <1>4, <1>5
<1>7. ASSUME NEW m \in T PROVE T \ {m} \in SUBSET Numbers /\ \A x \in T \ {m} : Splits(T \ {m}, x)
  BY <1>2, <1>3 DEF Bad
<1>8. Splits(T \ {p}, n) /\ Splits(T \ {n}, p)
  BY <1>4, <1>5, <1>6, <1>7
<1>9. (T \ {p}) \ {n} = (T \ {n}) \ {p}
  OBVIOUS
<1>10. /\ file[n].size \in Nat /\ file[p].size \in Nat /\ (T \ {n}) \ {p} \in SUBSET Numbers
       /\ Retained((T \ {n}) \ {p}) \in Nat
  BY <1>3, <1>4, <1>5, FileFacts, RetainedType
<1>11. Retained(T) = file[p].size + (file[n].size + Retained((T \ {n}) \ {p}))
  BY <1>5, <1>8, <1>9
<1>12. Retained(T \ {n}) = file[p].size + Retained((T \ {n}) \ {p})
  BY <1>8
<1>13. \A a, b, c \in Nat : a + (b + c) = b + (a + c)
  OBVIOUS
<1>14. Retained(T) = file[n].size + Retained(T \ {n})
  BY <1>10, <1>11, <1>12, <1>13
<1>. QED
  BY <1>4, <1>14

\* A stream that is added occupies no more than its size.
LEMMA RetainedAdds ==
    ASSUME FileOK, NEW S \in SUBSET Numbers, NEW n \in Numbers
    PROVE  Retained({n} \cup S) <= Retained(S) + file[n].size
<1>1. Retained(S) \in Nat /\ file[n].size \in Nat
  BY RetainedType, FileFacts
<1>2. CASE n \in S
  <2>1. {n} \cup S = S
    BY <1>2
  <2>2. \A a, b \in Nat : a <= a + b
    OBVIOUS
  <2>3. Retained(S) <= Retained(S) + file[n].size
    BY <1>1, <2>2
  <2>. QED
    BY <2>1, <2>3
<1>3. CASE n \notin S
  <2>1. {n} \cup S \in SUBSET Numbers /\ n \in {n} \cup S /\ ({n} \cup S) \ {n} = S
    BY <1>3
  <2>2. Retained({n} \cup S) = file[n].size + Retained(S)
    BY <2>1, RetainedSplits
  <2>. QED
    BY <1>1, <2>2
<1>. QED
  BY <1>2, <1>3

\* The sizes are those of the file.
LEMMA RetainedStays == ASSUME file' = file PROVE \A S : Retained(S)' = Retained(S)
BY DEF Retained, MapThenSumSet, MapThenFoldSet

\* Evicting all that was retained makes room for one stream, and a stream that fits in stays in.
LEMMA BoundKeeps ==
    ASSUME IInv, StreamCacheBounded, [Next]_vars
    PROVE  StreamCacheBounded'
<1>1. file' = file
  BY DEF Next, vars, fixed, Call, Unlock, TimeRunsOut, ClearParseContext, Refuse, Hit, CircularReference,
         DepthExceeded, MarkLoading, LoadFromDisk, SparsePacked, SparsePlain, ContainerRetained, ReadContainer,
         RetainContainer, ContainerFails, Extract, SparseExtract, SparseTake, SparseFails
<1>2. CASE object_stream_cache' = object_stream_cache
  BY <1>1, <1>2, RetainedStays DEF StreamCacheBounded
<1>3. CASE RetainContainer
  <2>1. /\ Container \in Numbers /\ object_stream_cache \in SUBSET Numbers /\ Container = file[Top.n].container
        /\ object_stream_cache' = RetainWith(Container)
    BY <1>3, TopFacts DEF RetainContainer, IInv, TypeOK
  <2>2. CASE Retained(object_stream_cache) + file[Container].size > CacheBytes
    <3>1. object_stream_cache' = {Container}
      BY <2>1, <2>2 DEF RetainWith
    <3>2. Cardinality(object_stream_cache') = 1
      BY <3>1, FS_Singleton
    <3>. QED
      BY <3>2 DEF StreamCacheBounded
  <2>3. CASE ~(Retained(object_stream_cache) + file[Container].size > CacheBytes)
    <3>1. object_stream_cache' = {Container} \cup object_stream_cache
      BY <2>1, <2>3 DEF RetainWith
    <3>2. Retained(object_stream_cache') <= Retained(object_stream_cache) + file[Container].size
      BY <2>1, <3>1, RetainedAdds DEF IInv
    <3>3. /\ Retained(object_stream_cache) \in Nat /\ file[Container].size \in Nat
          /\ object_stream_cache' \in SUBSET Numbers /\ Retained(object_stream_cache') \in Nat
      BY <2>1, <3>1, RetainedType, FileFacts DEF IInv
    <3>4. \A a, b, c, d \in Nat : a <= b + c /\ ~(b + c > d) => a <= d
      OBVIOUS
    <3>5. Retained(object_stream_cache') <= CacheBytes
      BY <2>3, <3>2, <3>3, <3>4, SizesAssumption
    <3>. QED
      BY <1>1, <3>5, RetainedStays DEF StreamCacheBounded
  <2>. QED
    BY <2>2, <2>3
<1>4. object_stream_cache' = object_stream_cache \/ RetainContainer
  BY DEF Next, vars, caches, Call, Unlock, TimeRunsOut, ClearParseContext, Refuse, Hit, CircularReference,
         DepthExceeded, MarkLoading, LoadFromDisk, SparsePacked, SparsePlain, ContainerRetained, ReadContainer,
         ContainerFails, Extract, SparseExtract, SparseTake, SparseFails
<1>. QED
  BY <1>2, <1>3, <1>4

\* The stream an object is taken from is at hand, and what is retained fits.
THEOREM StreamCacheSoundAlways == Spec => []StreamCacheSound
<1>1. ASSUME Init PROVE StreamCacheBounded
  <2>1. object_stream_cache = {} /\ Retained({}) = 0
    BY <1>1, RetainedEquations DEF Init
  <2>. QED
    BY <2>1, SizesAssumption DEF StreamCacheBounded
<1>2. Spec => []StreamCacheBounded
  BY <1>1, BoundKeeps, Invariance, PTL DEF Spec
<1>3. ASSUME IInv PROVE TypeOK /\ ContainerAtHand
  BY <1>3 DEF IInv, ContainerAtHand, StackShape, FrameOK
<1>. QED
  BY <1>2, <1>3, Invariance, PTL DEF StreamCacheSound
===============================================================================
