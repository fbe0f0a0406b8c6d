---------------------------- MODULE PageTreeProofs ----------------------------
(***************************************************************************)
(* Proof that the index flatten_page_tree makes is exact, for every file,  *)
(* however its nodes refer to each other, that its pages come in the order *)
(* of the document, and that a page has the attributes of its nearest      *)
(* ancestors, however parents refer to others.                             *)
(*                                                                         *)
(* The order holds because each node that waits on the stack has a path    *)
(* from a node that is met, the paths on the stack are in order and after  *)
(* those of all that are met, and any path to what is not met begins with  *)
(* one of them or comes after it (Ordered, Frontier).                      *)
(*                                                                         *)
(* The attributes need that the loop of Inherited, which gives up when it  *)
(* meets a parent again, has by then met all ancestors there are: the      *)
(* parents lead back to it, so that no other can follow (LeadsBack).       *)
(***************************************************************************)
EXTENDS PageTree, SequenceTheorems, FiniteSetTheorems, WellFoundedInduction, TLAPS

\* What the walk knows while the tree is flattened: it has only met nodes of the
\* tree, the kids of all it has met are met or wait on the stack, and the leaves
\* among them are in the index, once.
WalkInv ==
    /\ visited \subseteq Reached
    /\ stack \in Seq(Reached)
    /\ Members(root_kids) \subseteq visited \cup Members(stack)
    /\ \A n \in visited : IsInner(n) => Members(KidsOf(n)) \subseteq visited \cup Members(stack)

IndexInv ==
    /\ page_refs \in Seq(visited)
    /\ Len(page_refs) <= MaxPages
    /\ \A i, j \in DOMAIN page_refs : page_refs[i] = page_refs[j] => i = j
    /\ \A n \in visited : IsLeaf(n) <=> n \in Members(page_refs)

IInv ==
    /\ file \in Files
    /\ pc \in {"idle", "flatten", "indexed"}
    /\ pc = "idle" <=> root_kids = None
    /\ pc = "idle" => visited = {}
    /\ pc # "idle" => WalkInv
    /\ IndexInv
    /\ pc = "indexed" => stack = <<>> \/ Len(page_refs) >= MaxPages

-----------------------------------------------------------------------------
(* Kids are sequences. *)

\* The objects that a scan found are finitely many.
LEMMA ScannedFinite ==
    ASSUME file \in Files
    PROVE  /\ DOMAIN file.objects = 1..Len(file.objects)
           /\ Len(file.objects) \in Nat
           /\ IsFiniteSet(file.scanned)
<1>1. file.objects \in Seq({file.objects[n] : n \in DOMAIN file.objects})
  BY FilesAssumption
<1>2. DOMAIN file.objects = 1..Len(file.objects) /\ Len(file.objects) \in Nat
  BY <1>1
<1>3. IsFiniteSet(1..Len(file.objects))
  BY <1>2, FS_Interval
<1>4. file.scanned \subseteq 1..Len(file.objects)
  BY <1>2, FilesAssumption
<1>. QED
  BY <1>2, <1>3, <1>4, FS_Subset

\* The members of a finite set of numbers can be counted from the least.
LEMMA RanksExist ==
    ASSUME NEW set \in SUBSET Nat, IsFiniteSet(set), NEW i \in 1..Cardinality(set)
    PROVE  \E n \in set : Cardinality({m \in set : m < n}) = i - 1
<1>. DEFINE c       == Cardinality(set)
            Low(n)  == {m \in set : m < n}
            rank    == [n \in set |-> Cardinality(Low(n))]
<1>1. c \in Nat
  BY FS_CardinalityType
<1>2. ASSUME NEW n \in set PROVE IsFiniteSet(Low(n)) /\ Cardinality(Low(n)) \in 0..(c - 1)
  <2>1. Low(n) \subseteq set /\ n \notin Low(n) /\ n \in set
    OBVIOUS
  <2>. HIDE DEF Low, c
  <2>2. IsFiniteSet(Low(n)) /\ Cardinality(Low(n)) \in Nat
    BY <2>1, FS_Subset, FS_CardinalityType
  <2>3. Cardinality(Low(n)) <= c /\ Cardinality(Low(n)) # c
    BY <2>1, FS_Subset DEF c
  <2>. QED
    BY <1>1, <2>2, <2>3
<1>3. ASSUME NEW m \in set, NEW n \in set, m < n PROVE Cardinality(Low(m)) # Cardinality(Low(n))
  <2>0. m \in Nat /\ n \in Nat /\ \A x \in set : x \in Nat
    OBVIOUS
  <2>1. m \in Low(n) /\ m \notin Low(m)
    BY <1>3, <2>0
  <2>3. ASSUME NEW x \in set, x < m PROVE x < n
    BY <1>3, <2>0, <2>3
  <2>4. Low(m) \subseteq Low(n)
    BY <2>3
  <2>2. IsFiniteSet(Low(n))
    BY <1>2
  <2>. HIDE DEF Low
  <2>. QED
    BY <2>1, <2>2, <2>4, FS_Subset
<1>4. rank \in Injection(set, 0..(c - 1))
  <2>1. rank \in [set -> 0..(c - 1)]
    BY <1>2
  <2>2. ASSUME NEW m \in set, NEW n \in set, rank[m] = rank[n] PROVE m = n
    <3>1. Cardinality(Low(m)) = Cardinality(Low(n)) /\ m \in Nat /\ n \in Nat
      BY <2>2
    <3>2. ~(m < n) /\ ~(n < m)
      <4>. HIDE DEF Low
      <4>. QED
        BY <1>3, <3>1
    <3>. QED
      BY <3>1, <3>2
  <2>. HIDE DEF rank, c
  <2>. QED
    BY <2>1, <2>2 DEF Injection, IsInjective
<1>5. IsFiniteSet(0..(c - 1)) /\ Cardinality(0..(c - 1)) = c
  <2>. HIDE DEF c
  <2>1. 0 \in Int /\ c - 1 \in Int /\ (0 > c - 1 <=> c = 0)
    BY <1>1
  <2>2. IsFiniteSet(0..(c - 1)) /\ Cardinality(0..(c - 1)) = IF 0 > c - 1 THEN 0 ELSE c - 1 - 0 + 1
    BY <2>1, FS_Interval
  <2>. QED
    BY <1>1, <2>1, <2>2
<1>6. rank \in Surjection(set, 0..(c - 1))
  <2>. HIDE DEF rank
  <2>. QED
    BY <1>4, <1>5, FS_Injection
<1>7. i - 1 \in 0..(c - 1)
  BY <1>1
<1>8. PICK n \in set : rank[n] = i - 1
  <2>. HIDE DEF rank, c
  <2>. QED
    BY <1>6, <1>7 DEF Surjection
<1>. QED
  BY <1>8

\* The valid pages are a sequence of objects.
LEMMA ValidPagesType ==
    ASSUME file \in Files
    PROVE  ValidPages \in Seq(Nat) /\ Len(ValidPages) \in Nat
<1>. DEFINE valid == {n \in file.scanned : HasDictionary(n) /\ (Object(n).type = "Page" \/ LooksLikePage(n))}
<1>1. IsFiniteSet(valid) /\ Cardinality(valid) \in Nat
  <2>1. IsFiniteSet(file.scanned)
    BY ScannedFinite
  <2>2. valid \subseteq file.scanned
    OBVIOUS
  <2>. QED
    BY <2>1, <2>2, FS_Subset, FS_CardinalityType
<1>2. valid \in SUBSET Nat
  BY ScannedFinite DEF HasDictionary, Numbers
<1>3. ValidPages = InAscendingOrder(valid)
  BY DEF ValidPages
<1>. DEFINE size    == Cardinality(valid)
            Nth(i)  == CHOOSE n \in valid : Cardinality({m \in valid : m < n}) = i - 1
<1>4. ValidPages = [i \in 1..size |-> Nth(i)]
  BY <1>3 DEF InAscendingOrder
<1>5. \A i \in 1..size : Nth(i) \in valid
  <2>. HIDE DEF valid
  <2>. QED
    BY <1>1, <1>2, RanksExist
<1>. HIDE DEF valid, size, Nth, ValidPages
<1>6. \A i \in 1..size : Nth(i) \in Nat
  BY <1>2, <1>5
<1>7. size \in Nat
  BY <1>1 DEF size
<1>. QED
  BY <1>4, <1>6, <1>7

\* A sequence is one over its own members.
LEMMA SequenceOfMembers ==
    ASSUME NEW S, NEW s \in Seq(S)
    PROVE  s \in Seq(Members(s))
BY DEF Members

\* A group of a made-up tree is a piece of the valid pages.
LEMMA GroupKidsType ==
    ASSUME file \in Files, NEW g \in 1..Groups
    PROVE  GroupKids(g) \in Seq(Nat)
<1>. DEFINE L == Len(ValidPages)
            P == PagesPerNode
            first == (g - 1) * P + 1
            last == IF g * P < L THEN g * P ELSE L
<1>1. L \in Nat /\ P \in Nat /\ P > 0 /\ ValidPages \in Seq(Nat)
  BY ValidPagesType, SizesAssumption
<1>2. Groups = (L + P - 1) \div P
  BY DEF Groups
<1>. HIDE DEF L, P
<1>3. Groups \in Int /\ g \in Int /\ g - 1 \in Nat
  BY <1>1, <1>2
<1>4. first \in Int /\ last \in Int /\ first >= 1 /\ last <= L
  <2>1. (g - 1) * P \in Nat /\ g * P \in Int
    BY <1>1, <1>3
  <2>. QED
    BY <1>1, <2>1
<1>. DEFINE kids == SubSeq(ValidPages, first, last)
<1>5. GroupKids(g) = kids
  BY DEF GroupKids, L, P
<1>. HIDE DEF first, last
<1>6. \A i \in first..last : ValidPages[i] \in Nat
  BY <1>1, <1>4 DEF L
<1>7. kids \in Seq({ValidPages[i] : i \in first..last})
  BY <1>4, SubSeqProperties
<1>. HIDE DEF kids
<1>. QED
  BY <1>5, <1>6, <1>7

\* The kids of a dictionary are objects of the file.
LEMMA DictionaryKids ==
    ASSUME file \in Files, NEW n, HasDictionary(n)
    PROVE  Kids(n) \in Seq(Nat)
<1>1. n \in DOMAIN file.objects /\ file.objects[n].form = "dictionary"
  BY DEF HasDictionary, Numbers, Object
<1>2. Kids(n) = IF file.objects[n].kids = None THEN <<>> ELSE file.objects[n].kids
  BY DEF Kids, Object
<1>3. CASE file.objects[n].kids = None
  BY <1>2, <1>3
<1>4. CASE file.objects[n].kids # None
  <2>1. Kids(n) \in Seq(DOMAIN file.objects)
    BY <1>1, <1>2, <1>4, FilesAssumption
  <2>2. DOMAIN file.objects \subseteq Nat
    BY ScannedFinite
  <2>. QED
    BY <2>1, <2>2
<1>. QED
  BY <1>3, <1>4

\* The kids of an inner node are a sequence.
LEMMA KidsOfType ==
    ASSUME file \in Files, NEW n, IsInner(n)
    PROVE  KidsOf(n) \in Seq(Nat) /\ KidsOf(n) \in Seq(Members(KidsOf(n)))
<1>1. CASE n \in MadeUp
  <2>1. n \in FirstMadeUp..(FirstMadeUp + Groups - 1)
    BY <1>1 DEF MadeUp
  <2>2. FirstMadeUp \in Nat
    BY ScannedFinite DEF FirstMadeUp
  <2>3. Groups \in Int
    BY ValidPagesType, SizesAssumption DEF Groups
  <2>4. n - FirstMadeUp + 1 \in 1..Groups
    BY <2>1, <2>2, <2>3
  <2>5. KidsOf(n) \in Seq(Nat)
    BY <1>1, <2>4, GroupKidsType DEF KidsOf
  <2>. QED
    BY <2>5, SequenceOfMembers
<1>2. CASE n \notin MadeUp
  <2>1. KidsOf(n) \in Seq(Nat)
    BY <1>2, DictionaryKids DEF IsInner, KidsOf
  <2>. QED
    BY <2>1, SequenceOfMembers
<1>. QED
  BY <1>1, <1>2

\* What pages finds has a sequence of kids.
LEMMA PagesKidsType ==
    ASSUME file \in Files, PagesKids # None
    PROVE  PagesKids \in Seq(Nat) /\ PagesKids \in Seq(Members(PagesKids))
<1>. SUFFICES PagesKids \in Seq(Nat)
  BY SequenceOfMembers
<1>1. ASSUME NEW n, HasDictionary(n)
      PROVE  Kids(n) \in Seq(Nat)
  BY <1>1, DictionaryKids
<1>2. ValidPages \in Seq(Nat)
  BY ValidPagesType
<1>3. MadeUpKids \in Seq(Nat)
  <2>1. CASE Len(ValidPages) <= FlatPages
    BY <1>2, <2>1 DEF MadeUpKids
  <2>2. CASE ~(Len(ValidPages) <= FlatPages)
    <3>1. MadeUpKids = [g \in 1..Groups |-> FirstMadeUp + g - 1]
      BY <2>2 DEF MadeUpKids
    <3>2. Groups \in Nat /\ FirstMadeUp \in Nat
      BY ValidPagesType, SizesAssumption, ScannedFinite DEF Groups, FirstMadeUp
    <3>3. \A g \in 1..Groups : FirstMadeUp + g - 1 \in Nat
      BY <3>2
    <3>. QED
      BY <3>1, <3>2, <3>3
  <2>. QED
    BY <2>1, <2>2
<1>4. ASSUME SearchedKids # None
      PROVE  SearchedKids \in Seq(Nat)
  <2>1. file.lenient /\ Candidates # {}
    BY <1>4 DEF SearchedKids
  <2>2. SearchedKids = Kids(CHOOSE n \in Candidates : \A m \in Candidates : n <= m)
    BY <2>1 DEF SearchedKids
  <2>3. \E n \in Candidates : \A m \in Candidates : n <= m
    <3>. DEFINE Less == OpToRel(<, Nat)
    <3>1. \A m, n \in Nat : m < n => <<m, n>> \in Less
      BY DEF OpToRel
    <3>2. Candidates \subseteq Nat
      BY FilesAssumption DEF Candidates
    <3>3. \E n \in Candidates : \A m \in Candidates : <<m, n>> \notin Less
      BY <2>1, <3>2, NatLessThanWellFounded, WFMin
    <3>. HIDE DEF Less
    <3>4. PICK n \in Candidates : \A m \in Candidates : <<m, n>> \notin Less
      BY <3>3
    <3>5. ASSUME NEW m \in Candidates PROVE n <= m
      <4>1. m \in Nat /\ n \in Nat /\ <<m, n>> \notin Less
        BY <3>2, <3>4
      <4>2. ~(m < n)
        BY <3>1, <4>1
      <4>. QED
        BY <4>1, <4>2
    <3>. QED
      BY <3>5
  <2>4. HasDictionary(CHOOSE n \in Candidates : \A m \in Candidates : n <= m)
    BY <2>3 DEF Candidates
  <2>. QED
    BY <1>1, <2>2, <2>4
<1>5. CASE file.catalog = "value"
  BY <1>5 DEF PagesKids
<1>6. CASE file.catalog = "absent"
  BY <1>3, <1>4, <1>6 DEF PagesKids
<1>7. CASE file.catalog \notin {"value", "absent"}
  <2>. DEFINE final == IF Object(file.root).form = "reference" THEN Object(file.root).to ELSE file.root
  <2>1. PagesKids = IF Object(file.root).form = "broken" \/ Object(final).form = "broken" THEN None
                    ELSE IF HasDictionary(final) THEN Kids(final) ELSE SearchedKids
    BY <1>7 DEF PagesKids
  <2>. HIDE DEF final
  <2>. QED
    BY <1>1, <1>4, <2>1
<1>. QED
  BY <1>5, <1>6, <1>7

-----------------------------------------------------------------------------
(* What is reached *)

\* The kids of the root and those of what is reached are reached.
LEMMA ReachedHoldsTree ==
    /\ Members(root_kids) \subseteq Reached
    /\ \A n \in Reached : IsInner(n) => Members(KidsOf(n)) \subseteq Reached
<1>1. Members(root_kids) \subseteq Nodes
  BY DEF Nodes
<1>2. ASSUME NEW n, IsInner(n) PROVE Members(KidsOf(n)) \subseteq Nodes
  <2>1. n \in {m \in Numbers \cup MadeUp : IsInner(m)}
    BY <1>2 DEF IsInner, HasDictionary
  <2>. QED
    BY <2>1 DEF Nodes
<1>. QED
  BY <1>1, <1>2 DEF Reached, HoldsTree

\* A part of what is reached that holds the tree is all of it.
LEMMA ReachedSmallest ==
    ASSUME NEW set, set \subseteq Reached, HoldsTree(set)
    PROVE  Reached \subseteq set
BY DEF Reached

\* The tree is that of the file and of the root that was found.
LEMMA SameTree ==
    ASSUME UNCHANGED <<file, root_kids>>
    PROVE  /\ Reached' = Reached /\ Nodes' = Nodes
           /\ \A n : (IsInner(n)' <=> IsInner(n)) /\ (IsLeaf(n)' <=> IsLeaf(n))
           /\ \A n : KidsOf(n)' = KidsOf(n)
<1>1. Numbers' = Numbers /\ FirstMadeUp' = FirstMadeUp
  BY DEF Numbers, FirstMadeUp
<1>2. \A n : Object(n)' = Object(n) /\ Kids(n)' = Kids(n)
  BY DEF Object, Kids
<1>3. \A n : (HasDictionary(n)' <=> HasDictionary(n)) /\ (LooksLikePage(n)' <=> LooksLikePage(n))
  BY <1>1, <1>2 DEF HasDictionary, LooksLikePage, Has
<1>4. ValidPages' = ValidPages
  <2>. DEFINE Found(n) == HasDictionary(n) /\ (Object(n).type = "Page" \/ LooksLikePage(n))
  <2>1. \A n : Found(n)' <=> Found(n)
    BY <1>2, <1>3
  <2>. HIDE DEF Found
  <2>2. {n \in file.scanned : Found(n)}' = {n \in file.scanned : Found(n)}
    BY <2>1
  <2>3. ValidPages = InAscendingOrder({n \in file.scanned : Found(n)})
    BY DEF ValidPages, Found
  <2>4. ValidPages' = InAscendingOrder({n \in file.scanned : Found(n)}')
    BY DEF ValidPages, Found
  <2>. QED
    BY <2>2, <2>3, <2>4
<1>5. Groups' = Groups /\ MadeUp' = MadeUp
  BY <1>1, <1>4 DEF Groups, MadeUp
<1>6. \A n : IsInner(n)' <=> IsInner(n)
  BY <1>2, <1>3, <1>5 DEF IsInner, NodeType
<1>7. \A n : IsLeaf(n)' <=> IsLeaf(n)
  BY <1>2, <1>3 DEF IsLeaf, NodeType
<1>8. \A n : KidsOf(n)' = KidsOf(n)
  BY <1>1, <1>2, <1>4, <1>5 DEF KidsOf, GroupKids
<1>9. Nodes' = Nodes
  <2>. DEFINE inner == {m \in Numbers \cup MadeUp : IsInner(m)}
              kids  == {Members(KidsOf(n)) : n \in inner}
  <2>1. inner' = inner
    BY <1>1, <1>5, <1>6
  <2>. HIDE DEF inner
  <2>2. \A n : Members(KidsOf(n))' = Members(KidsOf(n))
    BY <1>8 DEF Members
  <2>3. kids' = kids
    BY <2>1, <2>2
  <2>4. Members(root_kids)' = Members(root_kids)
    BY DEF Members
  <2>5. Nodes = Members(root_kids) \cup UNION kids
    BY DEF Nodes, inner
  <2>6. Nodes' = Members(root_kids)' \cup UNION kids'
    BY DEF Nodes, inner
  <2>. HIDE DEF kids
  <2>. QED
    BY <2>3, <2>4, <2>5, <2>6
<1>10. \A set : HoldsTree(set)' <=> HoldsTree(set)
  BY <1>6, <1>8 DEF HoldsTree, Members
<1>11. Reached' = Reached
  BY <1>9, <1>10 DEF Reached
<1>. QED
  BY <1>6, <1>7, <1>8, <1>9, <1>11

-----------------------------------------------------------------------------
(* The steps *)

\* Nothing is met before the first call.
LEMMA InitEstablishes == Init => IInv
<1>. SUFFICES ASSUME Init PROVE IInv
  OBVIOUS
<1>1. IndexInv
  BY SizesAssumption DEF Init, IndexInv, Members
<1>. QED
  BY <1>1 DEF Init, IInv

\* The first kids wait, and nothing is met.
LEMMA EnsureKeeps == IInv /\ EnsurePageTree => IInv'
<1>. SUFFICES ASSUME IInv, EnsurePageTree PROVE IInv'
  OBVIOUS
<1>1. pc = "idle" /\ file \in Files /\ visited = {} /\ root_kids = None
  BY DEF IInv, EnsurePageTree
<1>2. UNCHANGED <<file, visited, page_refs>>
  BY DEF EnsurePageTree
<1>3. IndexInv'
  BY <1>2 DEF IInv, IndexInv, IsLeaf, HasDictionary, NodeType, LooksLikePage, Has, Object, Numbers, Members
<1>4. CASE PagesKids = None
  BY <1>1, <1>2, <1>3, <1>4 DEF EnsurePageTree, IInv
<1>5. CASE PagesKids # None
  <2>1. pc' = "flatten" /\ root_kids' = PagesKids /\ stack' = PagesKids
    BY <1>5 DEF EnsurePageTree
  <2>2. PagesKids \in Seq(Members(PagesKids))
    BY <1>1, <1>5, PagesKidsType
  <2>3. (Members(root_kids) \subseteq Reached)'
    BY ReachedHoldsTree, PTL
  <2>4. stack' \in Seq(Reached')
    BY <2>1, <2>2, <2>3 DEF Members
  <2>5. WalkInv'
    BY <1>1, <1>2, <2>1, <2>4 DEF WalkInv, Members
  <2>. QED
    BY <1>1, <1>2, <1>3, <1>5, <2>1, <2>5 DEF IInv
<1>. QED
  BY <1>4, <1>5

\* The members of a sequence are its head and those of its tail.
LEMMA MembersOfTail ==
    ASSUME NEW S, NEW s \in Seq(S), s # <<>>
    PROVE  /\ Head(s) \in S
           /\ Tail(s) \in Seq(S)
           /\ Members(s) = {Head(s)} \cup Members(Tail(s))
<1>1. Len(s) \in Nat /\ Len(s) > 0 /\ Head(s) = s[1] /\ DOMAIN s = 1..Len(s)
  OBVIOUS
<1>2. /\ Tail(s) \in Seq(S) /\ Len(Tail(s)) = Len(s) - 1
      /\ \A i \in 1..Len(Tail(s)) : Tail(s)[i] = s[i + 1]
  OBVIOUS
<1>3. DOMAIN Tail(s) = 1..(Len(s) - 1)
  BY <1>2
<1>4. ASSUME NEW x \in Members(s) PROVE x \in {Head(s)} \cup Members(Tail(s))
  <2>1. PICK i \in DOMAIN s : x = s[i]
    BY DEF Members
  <2>2. CASE i = 1
    BY <1>1, <2>1, <2>2
  <2>3. CASE i # 1
    <3>1. i - 1 \in DOMAIN Tail(s) /\ Tail(s)[i - 1] = s[i]
      BY <1>1, <1>2, <1>3, <2>1, <2>3
    <3>. QED
      BY <2>1, <3>1 DEF Members
  <2>. QED
    BY <2>2, <2>3
<1>5. ASSUME NEW x \in Members(Tail(s)) PROVE x \in Members(s)
  <2>1. PICK i \in DOMAIN Tail(s) : x = Tail(s)[i]
    BY DEF Members
  <2>2. i + 1 \in DOMAIN s /\ x = s[i + 1]
    BY <1>1, <1>2, <1>3, <2>1
  <2>. QED
    BY <2>2 DEF Members
<1>6. Head(s) \in Members(s) /\ Head(s) \in S
  BY <1>1 DEF Members
<1>. QED
  BY <1>2, <1>4, <1>5, <1>6

\* The members of two sequences one behind the other are those of both.
LEMMA MembersOfBoth ==
    ASSUME NEW S, NEW s \in Seq(S), NEW t \in Seq(S)
    PROVE  s \o t \in Seq(S) /\ Members(s \o t) = Members(s) \cup Members(t)
<1>1. /\ s \o t \in Seq(S) /\ Len(s \o t) = Len(s) + Len(t)
      /\ \A i \in 1..(Len(s) + Len(t)) : (s \o t)[i] = IF i <= Len(s) THEN s[i] ELSE t[i - Len(s)]
  OBVIOUS
<1>2. /\ Len(s) \in Nat /\ Len(t) \in Nat /\ DOMAIN s = 1..Len(s) /\ DOMAIN t = 1..Len(t)
      /\ DOMAIN (s \o t) = 1..(Len(s) + Len(t))
  BY <1>1
<1>3. ASSUME NEW i \in DOMAIN s PROVE s[i] \in Members(s \o t)
  <2>1. i \in DOMAIN (s \o t) /\ (s \o t)[i] = s[i]
    BY <1>1, <1>2
  <2>. QED
    BY <2>1 DEF Members
<1>4. ASSUME NEW i \in DOMAIN t PROVE t[i] \in Members(s \o t)
  <2>1. i + Len(s) \in DOMAIN (s \o t) /\ (s \o t)[i + Len(s)] = t[i]
    BY <1>1, <1>2
  <2>. QED
    BY <2>1 DEF Members
<1>5. ASSUME NEW i \in DOMAIN (s \o t) PROVE (s \o t)[i] \in Members(s) \cup Members(t)
  <2>1. CASE i <= Len(s)
    BY <1>1, <1>2, <2>1 DEF Members
  <2>2. CASE ~(i <= Len(s))
    <3>1. i - Len(s) \in DOMAIN t /\ (s \o t)[i] = t[i - Len(s)]
      BY <1>1, <1>2, <2>2
    <3>. QED
      BY <3>1 DEF Members
  <2>. QED
    BY <2>1, <2>2
<1>. QED
  BY <1>1, <1>3, <1>4, <1>5 DEF Members

\* A node that is met leaves the stack to its kids, and joins the index if it is a leaf.
LEMMA PopKeeps == IInv /\ PopNode => IInv'
<1>. SUFFICES ASSUME IInv, PopNode PROVE IInv'
  OBVIOUS
<1>. DEFINE n    == Head(stack)
            kids == IF IsInner(n) THEN KidsOf(n) ELSE <<>>
<1>1. pc = "flatten" /\ pc' = "flatten" /\ stack # <<>> /\ Len(page_refs) < MaxPages
  BY DEF PopNode
<1>2. UNCHANGED <<file, root_kids>>
  BY DEF PopNode
<1>3. WalkInv /\ IndexInv /\ file \in Files /\ root_kids # None
  BY <1>1 DEF IInv
<1>4. /\ Reached' = Reached
      /\ \A m : (IsInner(m)' <=> IsInner(m)) /\ (IsLeaf(m)' <=> IsLeaf(m))
      /\ \A m : KidsOf(m)' = KidsOf(m)
  BY <1>2, SameTree
<1>5. n \in Reached /\ Tail(stack) \in Seq(Reached) /\ Members(stack) = {n} \cup Members(Tail(stack))
  BY <1>1, <1>3, MembersOfTail DEF WalkInv
<1>6. \A m : Members(KidsOf(m))' = Members(KidsOf(m))
  BY <1>4 DEF Members
<1>7. Members(root_kids)' = Members(root_kids) /\ Members(stack)' = Members(stack')
      /\ Members(page_refs)' = Members(page_refs')
  BY <1>2 DEF Members
<1>8. CASE n \in visited
  <2>1. stack' = Tail(stack) /\ UNCHANGED <<visited, page_refs>>
    BY <1>8 DEF PopNode
  <2>2. visited \cup Members(stack) = visited' \cup Members(stack')
    BY <1>5, <1>8, <2>1
  <2>3. WalkInv'
    BY <1>3, <1>4, <1>5, <1>6, <1>7, <2>1, <2>2 DEF WalkInv
  <2>4. IndexInv'
    BY <1>3, <1>4, <1>7, <2>1 DEF IndexInv
  <2>. QED
    BY <1>1, <1>2, <1>3, <2>3, <2>4 DEF IInv
<1>9. CASE n \notin visited
  <2>1. /\ visited' = visited \cup {n}
        /\ page_refs' = IF IsLeaf(n) THEN Append(page_refs, n) ELSE page_refs
        /\ stack' = kids \o Tail(stack)
    BY <1>9 DEF PopNode
  <2>2. kids \in Seq(Reached) /\ (IsInner(n) => Members(kids) = Members(KidsOf(n)))
    <3>1. CASE IsInner(n)
      <4>1. Members(KidsOf(n)) \subseteq Reached
        BY <1>5, <3>1, ReachedHoldsTree
      <4>2. KidsOf(n) \in Seq(Members(KidsOf(n)))
        BY <1>3, <3>1, KidsOfType
      <4>. QED
        BY <3>1, <4>1, <4>2
    <3>2. CASE ~IsInner(n)
      BY <3>2
    <3>. QED
      BY <3>1, <3>2
  <2>. HIDE DEF kids, n
  <2>3. stack' \in Seq(Reached) /\ Members(stack') = Members(kids) \cup Members(Tail(stack))
    <3>. DEFINE rest == Tail(stack)
    <3>1. rest \in Seq(Reached) /\ stack' = kids \o rest
      BY <1>5, <2>1
    <3>2. kids \in Seq(Reached)
      BY <2>2
    <3>. HIDE DEF rest
    <3>3. kids \o rest \in Seq(Reached) /\ Members(kids \o rest) = Members(kids) \cup Members(rest)
      BY <3>1, <3>2, MembersOfBoth
    <3>. QED
      BY <3>1, <3>3 DEF rest
  <2>4. visited \cup Members(stack) \subseteq visited' \cup Members(stack')
    BY <1>5, <2>1, <2>3
  <2>5. ASSUME NEW m \in visited', IsInner(m)
        PROVE  Members(KidsOf(m)) \subseteq visited' \cup Members(stack')
    <3>1. CASE m = n
      BY <2>2, <2>3, <2>5, <3>1
    <3>2. CASE m \in visited
      BY <1>3, <2>4, <2>5, <3>2 DEF WalkInv
    <3>. QED
      BY <2>1, <3>1, <3>2
  <2>6. visited' \subseteq Reached /\ Members(root_kids) \subseteq visited' \cup Members(stack')
    BY <1>3, <1>5, <2>1, <2>4 DEF WalkInv
  <2>7. WalkInv'
    BY <1>4, <1>6, <1>7, <2>3, <2>5, <2>6 DEF WalkInv
  <2>8. IndexInv'
    <3>1. CASE ~IsLeaf(n)
      BY <1>3, <1>4, <1>7, <1>9, <2>1, <3>1 DEF IndexInv, Members
    <3>2. CASE IsLeaf(n)
      <4>1. page_refs' = Append(page_refs, n) /\ page_refs \in Seq(visited)
        BY <1>3, <2>1, <3>2 DEF IndexInv
      <4>2. /\ page_refs' \in Seq(visited') /\ Len(page_refs') = Len(page_refs) + 1
            /\ DOMAIN page_refs' = 1..(Len(page_refs) + 1)
            /\ DOMAIN page_refs = 1..Len(page_refs) /\ Len(page_refs) \in Nat
            /\ page_refs'[Len(page_refs) + 1] = n
            /\ \A i \in 1..Len(page_refs) : page_refs'[i] = page_refs[i] /\ page_refs[i] \in visited
        BY <2>1, <4>1
      <4>3. Len(page_refs') <= MaxPages
        BY <1>1, <4>2, SizesAssumption
      <4>4. \A i, j \in DOMAIN page_refs' : page_refs'[i] = page_refs'[j] => i = j
        BY <1>3, <1>9, <4>2 DEF IndexInv
      <4>5. Members(page_refs') = Members(page_refs) \cup {n}
        BY <4>2 DEF Members
      <4>6. \A m \in visited' : IsLeaf(m) <=> m \in Members(page_refs')
        BY <1>3, <1>9, <2>1, <3>2, <4>5 DEF IndexInv
      <4>. QED
        BY <1>4, <1>7, <4>2, <4>3, <4>4, <4>6 DEF IndexInv
    <3>. QED
      BY <3>1, <3>2
  <2>. QED
    BY <1>1, <1>2, <1>3, <2>7, <2>8 DEF IInv
<1>. QED
  BY <1>8, <1>9

\* A step that leaves the tree and the walk as they are keeps what is known of them.
LEMMA OthersKeep ==
    ASSUME IInv, UNCHANGED <<file, root_kids, stack, visited, page_refs>>,
           pc' = pc \/ (pc = "flatten" /\ pc' = "indexed" /\ (stack = <<>> \/ Len(page_refs) >= MaxPages))
    PROVE  IInv'
<1>1. /\ Reached' = Reached
      /\ \A m : (IsInner(m)' <=> IsInner(m)) /\ (IsLeaf(m)' <=> IsLeaf(m))
      /\ \A m : KidsOf(m)' = KidsOf(m)
  BY SameTree
<1>2. WalkInv' <=> WalkInv
  BY <1>1 DEF WalkInv, Members
<1>3. IndexInv' <=> IndexInv
  BY <1>1 DEF IndexInv, Members
<1>. QED
  BY <1>2, <1>3 DEF IInv

\* IInv is an invariant: the walk meets nodes of the tree only, and loses none.
THEOREM Invariance == Spec => []IInv
<1>1. IInv /\ [Next]_vars => IInv'
  <2>. SUFFICES ASSUME IInv, [Next]_vars PROVE IInv'
    OBVIOUS
  <2>1. ASSUME NEW question \in Questions, Call(question) PROVE IInv'
    BY <2>1, OthersKeep DEF Call
  <2>2. CASE EnsurePageTree
    BY <2>2, EnsureKeeps
  <2>3. CASE PopNode
    BY <2>3, PopKeeps
  <2>4. CASE FinishIndex
    BY <2>4, OthersKeep DEF FinishIndex
  <2>5. CASE GetPage
    BY <2>5, OthersKeep DEF GetPage
  <2>6. CASE PageCount
    BY <2>6, OthersKeep DEF PageCount
  <2>7. CASE UNCHANGED vars
    BY <2>7, OthersKeep DEF vars
  <2>. QED
    BY <2>1, <2>2, <2>3, <2>4, <2>5, <2>6, <2>7 DEF Next, Step
<1>. QED
  BY <1>1, InitEstablishes, PTL DEF Spec

\* Whatever its nodes refer to, the index of a file has no page twice, only
\* leaves that can be reached from the root, and all of them when it is done
\* with fewer than it may have.
THEOREM IndexExact == Spec => []PageIndexIsExact
<1>1. IInv => PageIndexIsExact
  <2>. SUFFICES ASSUME IInv PROVE PageIndexIsExact
    OBVIOUS
  <2>1. page_refs \in Seq(visited) /\ Len(page_refs) \in Nat
    BY DEF IInv, IndexInv
  <2>2. Members(page_refs) \subseteq visited
    BY <2>1 DEF Members
  <2>3. ASSUME root_kids # None
        PROVE  Members(page_refs) \subseteq {n \in Reached : IsLeaf(n)}
    BY <2>2, <2>3 DEF IInv, IndexInv, WalkInv
  <2>4. ASSUME pc = "indexed", Len(page_refs) < MaxPages, NEW n \in Reached, IsLeaf(n)
        PROVE  n \in Members(page_refs)
    <3>1. stack = <<>> /\ WalkInv
      BY <2>1, <2>4, SizesAssumption DEF IInv
    <3>2. Members(stack) = {}
      BY <3>1 DEF Members
    <3>3. visited \subseteq Reached /\ HoldsTree(visited)
      BY <3>1, <3>2 DEF WalkInv, HoldsTree
    <3>4. n \in visited
      BY <3>3, ReachedSmallest, <2>4
    <3>. QED
      BY <2>4, <3>4 DEF IInv, IndexInv
  <2>. QED
    BY <2>3, <2>4 DEF IInv, IndexInv, PageIndexIsExact
<1>. QED
  BY <1>1, Invariance, PTL

-----------------------------------------------------------------------------
(* Repeating a step. *)

\* A set of natural numbers that is not empty has a least element.
LEMMA LeastExists ==
    ASSUME NEW S \in SUBSET Nat, S # {}
    PROVE  \E n \in S : \A m \in S : ~(m < n)
<1>1. PICK n \in S : \A m \in S : <<m, n>> \notin OpToRel(<, Nat)
  BY NatLessThanWellFounded, WFMin
<1>. QED
  BY <1>1 DEF OpToRel

\* What holds of 0, and of a number if it holds of the one before, holds of all.
LEMMA UpTo ==
    ASSUME NEW m \in Nat, NEW S, 0 \in S, \A i \in 1..m : i - 1 \in S => i \in S
    PROVE  0..m \subseteq S
<1>. DEFINE Bad == {i \in 0..m : i \notin S}
<1>1. SUFFICES ASSUME Bad # {} PROVE FALSE
  OBVIOUS
<1>2. Bad \in SUBSET Nat
  OBVIOUS
<1>3. PICK i \in Bad : \A j \in Bad : ~(j < i)
  <2>. HIDE DEF Bad
  <2>. QED
    BY <1>1, <1>2, LeastExists
<1>4. i \in 1..m /\ i - 1 \in 0..m /\ i - 1 < i
  BY <1>3
<1>. QED
  BY <1>3, <1>4

\* f has what the steps h[1], ..., h[m] make of base.
Iterated(f, S, base, h, m) == f \in [0..m -> S] /\ f[0] = base /\ \A i \in 1..m : f[i] = h[i][f[i - 1]]

\* Steps can be taken one after the other.
LEMMA Iterates ==
    ASSUME NEW S, NEW base \in S, NEW m \in Nat, NEW h \in [1..m -> [S -> S]]
    PROVE  \E f : Iterated(f, S, base, h, m)
<1>. USE DEF Iterated
<1>. DEFINE Run(f, k) == f \in [0..k -> S] /\ f[0] = base /\ \A i \in 1..k : f[i] = h[i][f[i - 1]]
            Good == {k \in 0..m : \E f : Run(f, k)}
<1>1. 0 \in Good
  <2>. DEFINE g == [i \in 0..0 |-> base]
  <2>1. g \in [0..0 -> S] /\ g[0] = base
    OBVIOUS
  <2>. HIDE DEF g
  <2>2. Run(g, 0)
    BY <2>1
  <2>. QED
    BY <2>2
<1>2. ASSUME NEW k \in 1..m, k - 1 \in Good PROVE k \in Good
  <2>1. PICK f : Run(f, k - 1)
    BY <1>2
  <2>. DEFINE g == [i \in 0..k |-> IF i = k THEN h[k][f[k - 1]] ELSE f[i]]
  <2>2. \A i \in 0..k : i # k => i \in 0..(k - 1)
    OBVIOUS
  <2>3. f[k - 1] \in S /\ h[k][f[k - 1]] \in S
    BY <2>1
  <2>4. g \in [0..k -> S]
    BY <2>1, <2>2, <2>3
  <2>5. g[0] = base
    BY <2>1
  <2>6. ASSUME NEW i \in 1..k PROVE g[i] = h[i][g[i - 1]]
    <3>1. i - 1 \in 0..k /\ i - 1 # k /\ g[i - 1] = f[i - 1]
      OBVIOUS
    <3>2. CASE i = k
      <4>1. g[k] = h[k][f[k - 1]]
        OBVIOUS
      <4>. HIDE DEF g
      <4>. QED
        BY <3>1, <3>2, <4>1
    <3>3. CASE i # k
      <4>1. i \in 1..(k - 1)
        BY <3>3
      <4>2. f[i] = h[i][f[i - 1]] /\ g[i] = f[i]
        BY <2>1, <3>3, <4>1
      <4>. QED
        BY <3>1, <4>2
    <3>. QED
      BY <3>2, <3>3
  <2>7. Run(g, k)
    <3>. HIDE DEF g
    <3>. QED
      BY <2>4, <2>5, <2>6
  <2>8. k \in 0..m
    OBVIOUS
  <2>. HIDE DEF Run
  <2>. QED
    BY <2>7, <2>8
<1>3. m \in Good
  <2>. HIDE DEF Good
  <2>1. 0..m \subseteq Good
    BY <1>1, <1>2, UpTo
  <2>. QED
    BY <2>1
<1>4. PICK f : Run(f, m)
  BY <1>3
<1>. QED
  BY <1>4

-----------------------------------------------------------------------------
(* The ancestors of a page. *)

\* The parent of a node, if it is a dictionary.
ParentOf(x) ==
    IF x = None THEN None
    ELSE LET parent == Object(x).parent IN
         IF parent # None /\ HasDictionary(parent) THEN parent ELSE None

Height == Len(file.objects)

\* u has the ancestors of n by their distance.
Ancestry(u, n) ==
    /\ u \in [0..Height -> Numbers \cup {None}]
    /\ u[0] = n
    /\ \A d \in 1..Height : u[d] = ParentOf(u[d - 1])

\* As a recursive function has them.
IsUp(f, m, n) == f = [d \in 0..m |-> IF d = 0 THEN n ELSE ParentOf(f[d - 1])]

\* The ancestors of a node, one parent after the other.
LEMMA Ancestors ==
    ASSUME NEW n \in Numbers, Height \in Nat
    PROVE  \E u : Ancestry(u, n) /\ \A d \in 0..Height : Ancestor(n, d) = u[d]
<1>. DEFINE S == Numbers \cup {None}
            h == [i \in 1..Height |-> [x \in S |-> ParentOf(x)]]
<1>1. \A x : ParentOf(x) \in S
  BY DEF ParentOf, HasDictionary
<1>2. h \in [1..Height -> [S -> S]] /\ n \in S
  BY <1>1
<1>3. PICK u : Iterated(u, S, n, h, Height)
  <2>. HIDE DEF h, S
  <2>. QED
    BY <1>2, Iterates
<1>4. \A i \in 1..Height : i - 1 \in 0..Height /\ u[i - 1] \in S
  <2>1. \A i \in 1..Height : i - 1 \in 0..Height
    OBVIOUS
  <2>2. u \in [0..Height -> S]
    BY <1>3 DEF Iterated
  <2>. QED
    BY <2>1, <2>2
<1>5. Ancestry(u, n)
  BY <1>3, <1>4 DEF Ancestry, Iterated
<1>6. ASSUME NEW d \in 0..Height PROVE Ancestor(n, d) = u[d]
  <2>. DEFINE f == CHOOSE f : IsUp(f, d, n)
              part == [e \in 0..d |-> u[e]]
  <2>1. d \in Nat /\ \A e \in 0..d : e \in 0..Height /\ (e # 0 => e \in 1..Height /\ e - 1 \in 0..d)
    OBVIOUS
  <2>2. IsUp(part, d, n)
    <3>1. \A e \in 0..d : part[e] = IF e = 0 THEN n ELSE ParentOf(part[e - 1])
      BY <1>5, <2>1 DEF Ancestry
    <3>2. part = [e \in 0..d |-> part[e]]
      OBVIOUS
    <3>. HIDE DEF part
    <3>. QED
      BY <3>1, <3>2 DEF IsUp
  <2>3. IsUp(f, d, n)
    <3>. HIDE DEF part
    <3>. QED
      BY <2>2
  <2>. HIDE DEF part
  <2>4. Ancestor(n, d) = f[d]
    BY Zenon DEF Ancestor, IsUp, ParentOf
  <2>. HIDE DEF f
  <2>5. f[0] = n /\ \A e \in 1..d : f[e] = ParentOf(f[e - 1])
    BY <2>1, <2>3 DEF IsUp
  <2>. DEFINE Same == {e \in 0..d : f[e] = u[e]}
  <2>6. 0 \in Same
    BY <1>5, <2>1, <2>5 DEF Ancestry
  <2>7. ASSUME NEW e \in 1..d, e - 1 \in Same PROVE e \in Same
    BY <1>5, <2>1, <2>5, <2>7 DEF Ancestry
  <2>8. d \in Same
    <3>. HIDE DEF Same
    <3>. QED
      BY <2>1, <2>6, <2>7, UpTo
  <2>. QED
    BY <2>4, <2>8
<1>. QED
  BY <1>5, <1>6

-----------------------------------------------------------------------------
(* The loop along the parents. *)

\* One round of the loop, of page n.
Climbed(n, last) ==
    IF last.next = None \/ last.next \in last.met THEN last
    ELSE IF ~HasDictionary(last.next) THEN [last EXCEPT !.met = @ \cup {last.next}]
    ELSE [got  |-> [key \in InheritableKeys |->
                      IF ~Has(n, key) /\ last.got[key] = None
                      THEN Object(last.next).attributes[key] ELSE last.got[key]],
          next |-> Object(last.next).parent,
          met  |-> last.met \cup {last.next}]

Foot(n) == [got |-> [key \in InheritableKeys |-> None], next |-> Object(n).parent, met |-> {}]

\* As a recursive function has it.
IsClimb(c, m, n) == c = [i \in 0..m |-> IF i = 0 THEN Foot(n) ELSE Climbed(n, c[i - 1])]

\* What the loop may have got, and where it may be.
Values == {None} \cup {Object(m).attributes[key] : m \in {x \in Numbers : HasDictionary(x)}, key \in InheritableKeys}
Places == {None} \cup {Object(m).parent : m \in Numbers}
Climbs == [got : [InheritableKeys -> Values], next : Places, met : SUBSET Places]

\* c has the rounds of the loop.
Rounds(c, n) ==
    /\ c \in [0..Height -> Climbs]
    /\ c[0] = Foot(n)
    /\ \A i \in 1..Height : c[i] = Climbed(n, c[i - 1])

\* A round leaves what the loop has got as it may be.
LEMMA ClimbedType == ASSUME NEW n, NEW last \in Climbs PROVE Climbed(n, last) \in Climbs
<1>1. /\ last.got \in [InheritableKeys -> Values] /\ last.next \in Places /\ last.met \in SUBSET Places
      /\ last = [got |-> last.got, next |-> last.next, met |-> last.met]
  BY DEF Climbs
<1>2. CASE last.next = None \/ last.next \in last.met
  BY <1>2 DEF Climbed
<1>3. CASE ~(last.next = None \/ last.next \in last.met) /\ ~HasDictionary(last.next)
  <2>1. Climbed(n, last) = [last EXCEPT !.met = @ \cup {last.next}]
    BY <1>3 DEF Climbed
  <2>2. last.met \cup {last.next} \in SUBSET Places
    BY <1>1
  <2>. HIDE DEF Places, Values
  <2>. QED
    BY <1>1, <2>1, <2>2 DEF Climbs
<1>4. CASE ~(last.next = None \/ last.next \in last.met) /\ HasDictionary(last.next)
  <2>. DEFINE got == [key \in InheritableKeys |->
                      IF ~Has(n, key) /\ last.got[key] = None
                      THEN Object(last.next).attributes[key] ELSE last.got[key]]
  <2>1. Climbed(n, last) = [got |-> got, next |-> Object(last.next).parent, met |-> last.met \cup {last.next}]
    BY <1>4 DEF Climbed
  <2>2. last.next \in {x \in Numbers : HasDictionary(x)}
    BY <1>4 DEF HasDictionary
  <2>3. Object(last.next).parent \in Places /\ last.met \cup {last.next} \in SUBSET Places
    BY <1>1, <2>2 DEF Places
  <2>4. \A key \in InheritableKeys : Object(last.next).attributes[key] \in Values
    BY <2>2 DEF Values
  <2>5. got \in [InheritableKeys -> Values]
    BY <1>1, <2>4
  <2>. HIDE DEF got
  <2>. QED
    BY <2>1, <2>3, <2>5 DEF Climbs
<1>. QED
  BY <1>2, <1>3, <1>4

\* What a page inherits is got in as many rounds as there are objects.
LEMMA RoundsExist ==
    ASSUME file \in Files, NEW n \in Numbers, Cardinality(Numbers) = Height, Height \in Nat
    PROVE  \E c : Rounds(c, n) /\ Inherited(n) = c[Height].got
<1>. DEFINE h == [i \in 1..Height |-> [last \in Climbs |-> Climbed(n, last)]]
<1>1. h \in [1..Height -> [Climbs -> Climbs]]
  BY ClimbedType
<1>2. Foot(n) \in Climbs
  <2>1. [key \in InheritableKeys |-> None] \in [InheritableKeys -> Values]
    <3>. DEFINE others == {Object(m).attributes[key] : m \in {x \in Numbers : HasDictionary(x)}, key \in InheritableKeys}
    <3>1. None \in Values
      <4>1. Values = {None} \cup others
        BY DEF Values
      <4>. HIDE DEF others
      <4>. QED
        BY <4>1
    <3>. QED
      BY <3>1
  <2>2. Object(n).parent \in Places
    BY DEF Places
  <2>. QED
    BY <2>1, <2>2 DEF Foot, Climbs
<1>3. PICK c : Iterated(c, Climbs, Foot(n), h, Height)
  <2>. HIDE DEF h
  <2>. QED
    BY <1>1, <1>2, Iterates
<1>4. \A i \in 1..Height : i - 1 \in 0..Height /\ c[i - 1] \in Climbs
  <2>1. \A i \in 1..Height : i - 1 \in 0..Height
    OBVIOUS
  <2>2. c \in [0..Height -> Climbs]
    BY <1>3 DEF Iterated
  <2>. QED
    BY <2>1, <2>2
<1>5. Rounds(c, n)
  BY <1>3, <1>4 DEF Rounds, Iterated
<1>. DEFINE f == CHOOSE f : IsClimb(f, Cardinality(Numbers), n)
<1>6. IsClimb(c, Cardinality(Numbers), n)
  <2>1. \A i \in 0..Height : c[i] = IF i = 0 THEN Foot(n) ELSE Climbed(n, c[i - 1])
    BY <1>5 DEF Rounds
  <2>2. c = [i \in 0..Height |-> c[i]]
    BY <1>3 DEF Iterated
  <2>. QED
    BY <2>1, <2>2 DEF IsClimb
<1>7. IsClimb(f, Height, n)
  BY <1>6
<1>8. Inherited(n) = f[Height].got
  <2>1. Inherited(n) = f[Cardinality(Numbers)].got
    BY SMT DEF Inherited, IsClimb, Climbed, Foot
  <2>. QED
    BY <2>1
<1>. HIDE DEF f
<1>9. f[0] = Foot(n) /\ \A i \in 1..Height : f[i] = Climbed(n, f[i - 1])
  BY <1>7 DEF IsClimb
<1>. DEFINE Same == {i \in 0..Height : f[i] = c[i]}
<1>10. 0 \in Same
  BY <1>5, <1>9 DEF Rounds
<1>11. ASSUME NEW i \in 1..Height, i - 1 \in Same PROVE i \in Same
  BY <1>5, <1>9, <1>11 DEF Rounds
<1>12. Height \in Same
  <2>. HIDE DEF Same
  <2>. QED
    BY <1>10, <1>11, UpTo
<1>. QED
  BY <1>5, <1>8, <1>12

-----------------------------------------------------------------------------
(* What the loop has got. *)

\* The ancestor of distance d has a value for key.
HasAt(u, d, key) == u[d] # None /\ Has(u[d], key)

\* v is the value of the nearest of the first k ancestors that have one.
IsNearest(v, u, k, key) ==
    \/ v = None /\ \A d \in 1..k : ~HasAt(u, d, key)
    \/ \E d \in 1..k : /\ HasAt(u, d, key) /\ v = Object(u[d]).attributes[key]
                       /\ \A e \in 1..(d - 1) : ~HasAt(u, e, key)

Seen(u, k) == {u[d] : d \in 1..k}

\* The loop has been at the first k ancestors and is on its way to the next, or
\* has met all there are.
Climbing(u, n, k, state) ==
    /\ \A d \in 0..k : u[d] # None
    /\ \A key \in InheritableKeys : ~Has(n, key) => IsNearest(state.got[key], u, k, key)
Along(u, k, state) == state.next = Object(u[k]).parent /\ state.met = Seen(u, k)
Over(u, k, state) ==
    /\ state.next = None \/ state.next \in state.met
    /\ \A e \in 1..Height : u[e] # None => u[e] \in Seen(u, k)

ClimbAt(u, n, i, state) ==
    \E k \in 0..i : Climbing(u, n, k, state) /\ (Over(u, k, state) \/ (k = i /\ Along(u, k, state)))

\* Once the parents lead back, or nowhere, they stay among those that were met.
LEMMA LeadsBack ==
    ASSUME NEW u, NEW n, Ancestry(u, n), Height \in Nat, NEW k \in 0..(Height - 1),
           u[k + 1] \in {None} \cup Seen(u, k)
    PROVE  \A e \in 1..Height : u[e] # None => u[e] \in Seen(u, k)
<1>. DEFINE Back == {e \in 0..Height : e = 0 \/ u[e] \in {None} \cup Seen(u, k)}
<1>1. 0 \in Back
  OBVIOUS
<1>2. ASSUME NEW e \in 1..Height, e - 1 \in Back PROVE e \in Back
  <2>1. u[e] = ParentOf(u[e - 1])
    BY DEF Ancestry
  <2>2. CASE e <= k
    BY <2>2 DEF Seen
  <2>3. CASE e = k + 1
    BY <2>3
  <2>4. CASE e > k + 1 /\ u[e - 1] = None
    BY <2>1, <2>4 DEF ParentOf
  <2>5. CASE e > k + 1 /\ u[e - 1] # None
    <3>1. PICK d \in 1..k : u[e - 1] = u[d]
      BY <1>2, <2>5 DEF Seen
    <3>2. d + 1 \in 1..Height /\ u[d + 1] = ParentOf(u[d])
      BY DEF Ancestry
    <3>3. u[e] = u[d + 1]
      BY <2>1, <3>1, <3>2
    <3>4. d + 1 \in 1..k \/ d + 1 = k + 1
      OBVIOUS
    <3>5. u[d + 1] \in {None} \cup Seen(u, k)
      BY <3>4 DEF Seen
    <3>. QED
      BY <3>3, <3>5
  <2>. QED
    BY <2>2, <2>3, <2>4, <2>5
<1>3. 0..Height \subseteq Back
  <2>. HIDE DEF Back
  <2>. QED
    BY <1>1, <1>2, UpTo
<1>. QED
  BY <1>3

\* One more ancestor.
LEMMA NearestGrows ==
    ASSUME NEW u, NEW key, NEW k \in Nat, NEW v, IsNearest(v, u, k, key), u[k + 1] # None
    PROVE  IsNearest(IF v = None THEN Object(u[k + 1]).attributes[key] ELSE v, u, k + 1, key)
<1>1. k + 1 \in 1..(k + 1) /\ \A d \in 1..(k + 1) : d \in 1..k \/ d = k + 1
  OBVIOUS
<1>2. CASE v = None /\ \A d \in 1..k : ~HasAt(u, d, key)
  <2>1. CASE Has(u[k + 1], key)
    <3>1. HasAt(u, k + 1, key)
      BY <2>1 DEF HasAt
    <3>2. (k + 1) - 1 = k
      OBVIOUS
    <3>. QED
      BY <1>1, <1>2, <3>1, <3>2 DEF IsNearest
  <2>2. CASE ~Has(u[k + 1], key)
    <3>1. ~HasAt(u, k + 1, key) /\ Object(u[k + 1]).attributes[key] = None
      BY <2>2 DEF HasAt, Has
    <3>. QED
      BY <1>1, <1>2, <3>1 DEF IsNearest
  <2>. QED
    BY <2>1, <2>2
<1>3. CASE \E d \in 1..k : /\ HasAt(u, d, key) /\ v = Object(u[d]).attributes[key]
                           /\ \A e \in 1..(d - 1) : ~HasAt(u, e, key)
  <2>1. PICK d \in 1..k : /\ HasAt(u, d, key) /\ v = Object(u[d]).attributes[key]
                          /\ \A e \in 1..(d - 1) : ~HasAt(u, e, key)
    BY <1>3
  <2>2. v # None /\ d \in 1..(k + 1)
    BY <2>1 DEF HasAt, Has
  <2>. QED
    BY <2>1, <2>2 DEF IsNearest
<1>. QED
  BY <1>2, <1>3 DEF IsNearest

\* The loop starts before the first ancestor.
LEMMA ClimbStarts ==
    ASSUME NEW u, NEW n, n # None, Ancestry(u, n)
    PROVE  ClimbAt(u, n, 0, Foot(n))
<1>1. u[0] = n /\ Foot(n).next = Object(n).parent /\ Foot(n).met = {}
      /\ \A key \in InheritableKeys : Foot(n).got[key] = None
  BY DEF Ancestry, Foot
<1>2. Climbing(u, n, 0, Foot(n))
  BY <1>1 DEF Climbing, IsNearest
<1>3. Along(u, 0, Foot(n))
  BY <1>1 DEF Along, Seen
<1>. QED
  BY <1>2, <1>3 DEF ClimbAt

\* A round takes it to the next, or finds that there is none.
LEMMA ClimbGoesOn ==
    ASSUME NEW u, NEW n, Ancestry(u, n), Height \in Nat, NEW i \in 1..Height,
           NEW state \in Climbs, ClimbAt(u, n, i - 1, state)
    PROVE  ClimbAt(u, n, i, Climbed(n, state))
<1>1. PICK k \in 0..(i - 1) :
         Climbing(u, n, k, state) /\ (Over(u, k, state) \/ (k = i - 1 /\ Along(u, k, state)))
  BY DEF ClimbAt
<1>2. k \in 0..i
  OBVIOUS
<1>3. CASE Over(u, k, state)
  <2>1. Climbed(n, state) = state
    BY <1>3 DEF Over, Climbed
  <2>. QED
    BY <1>1, <1>2, <1>3, <2>1 DEF ClimbAt
<1>4. CASE k = i - 1 /\ Along(u, k, state)
  <2>1. /\ k + 1 = i /\ k \in 0..(Height - 1) /\ u[k] # None
        /\ u[i] = IF state.next # None /\ HasDictionary(state.next) THEN state.next ELSE None
    BY <1>1, <1>4 DEF Climbing, Along, Ancestry, ParentOf
  <2>2. CASE state.next = None \/ state.next \in state.met
    <3>1. u[k + 1] \in {None} \cup Seen(u, k)
      BY <1>4, <2>1, <2>2 DEF Along
    <3>2. Climbed(n, state) = state
      BY <2>2 DEF Climbed
    <3>3. Over(u, k, state)
      BY <2>1, <2>2, <3>1, LeadsBack DEF Over
    <3>. QED
      BY <1>1, <1>2, <3>2, <3>3 DEF ClimbAt
  <2>3. CASE ~(state.next = None \/ state.next \in state.met) /\ ~HasDictionary(state.next)
    <3>1. Climbed(n, state).got = state.got /\ Climbed(n, state).next = state.next
          /\ state.next \in Climbed(n, state).met
      BY <2>3 DEF Climbed, Climbs
    <3>2. u[k + 1] \in {None} \cup Seen(u, k)
      BY <2>1, <2>3
    <3>3. Over(u, k, Climbed(n, state))
      BY <2>1, <3>1, <3>2, LeadsBack DEF Over
    <3>4. Climbing(u, n, k, Climbed(n, state))
      BY <1>1, <3>1 DEF Climbing
    <3>. QED
      BY <1>2, <3>3, <3>4 DEF ClimbAt
  <2>4. CASE ~(state.next = None \/ state.next \in state.met) /\ HasDictionary(state.next)
    <3>1. u[i] = state.next /\ u[i] # None
      BY <2>1, <2>4
    <3>2. /\ Climbed(n, state).next = Object(u[i]).parent
          /\ Climbed(n, state).met = state.met \cup {u[i]}
          /\ \A key \in InheritableKeys : ~Has(n, key) =>
                Climbed(n, state).got[key] = IF state.got[key] = None THEN Object(u[i]).attributes[key]
                                             ELSE state.got[key]
      BY <2>4, <3>1 DEF Climbed
    <3>3. Seen(u, i) = Seen(u, k) \cup {u[i]}
      <4>1. \A d : d \in 1..i <=> d \in 1..k \/ d = i
        BY <2>1
      <4>. QED
        BY <4>1 DEF Seen
    <3>4. Along(u, i, Climbed(n, state))
      BY <1>4, <3>2, <3>3 DEF Along
    <3>5. Climbing(u, n, i, Climbed(n, state))
      <4>1. \A d \in 0..i : u[d] # None
        <5>1. \A d \in 0..i : d \in 0..k \/ d = i
          BY <2>1
        <5>. QED
          BY <1>1, <3>1, <5>1 DEF Climbing
      <4>2. ASSUME NEW key \in InheritableKeys, ~Has(n, key)
            PROVE  IsNearest(Climbed(n, state).got[key], u, i, key)
        <5>1. IsNearest(state.got[key], u, k, key)
          BY <1>1, <4>2 DEF Climbing
        <5>2. k \in Nat /\ u[k + 1] # None
          BY <2>1, <3>1
        <5>3. IsNearest(IF state.got[key] = None THEN Object(u[k + 1]).attributes[key] ELSE state.got[key],
                        u, k + 1, key)
          BY <5>1, <5>2, NearestGrows
        <5>. QED
          BY <2>1, <3>2, <4>2, <5>3
      <4>. QED
        BY <4>1, <4>2 DEF Climbing
    <3>. QED
      BY <3>4, <3>5 DEF ClimbAt
  <2>. QED
    BY <2>2, <2>3, <2>4
<1>. QED
  BY <1>1, <1>3, <1>4

\* After as many rounds as there are objects there is no ancestor left.
LEMMA ClimbIsEnough ==
    ASSUME NEW u, NEW n, Ancestry(u, n), n # None, Height \in Nat, NEW c, Rounds(c, n)
    PROVE  \A key \in InheritableKeys : ~Has(n, key) => IsNearest(c[Height].got[key], u, Height, key)
<1>. DEFINE Good == {i \in 0..Height : ClimbAt(u, n, i, c[i])}
<1>1. 0 \in Good
  BY ClimbStarts DEF Rounds
<1>2. ASSUME NEW i \in 1..Height, i - 1 \in Good PROVE i \in Good
  <2>1. c[i - 1] \in Climbs /\ c[i] = Climbed(n, c[i - 1])
    BY DEF Rounds
  <2>. QED
    BY <1>2, <2>1, ClimbGoesOn
<1>3. ClimbAt(u, n, Height, c[Height])
  <2>1. 0..Height \subseteq Good
    <3>. HIDE DEF Good
    <3>. QED
      BY <1>1, <1>2, UpTo
  <2>. QED
    BY <2>1
<1>4. PICK k \in 0..Height :
         /\ Climbing(u, n, k, c[Height])
         /\ Over(u, k, c[Height]) \/ (k = Height /\ Along(u, k, c[Height]))
  BY <1>3 DEF ClimbAt
<1>. SUFFICES ASSUME NEW key \in InheritableKeys, ~Has(n, key)
              PROVE  IsNearest(c[Height].got[key], u, Height, key)
  OBVIOUS
<1>. DEFINE v == c[Height].got[key]
<1>5. IsNearest(v, u, k, key)
  BY <1>4 DEF Climbing
<1>6. k = Height \/ \A e \in 1..Height : u[e] # None => u[e] \in Seen(u, k)
  BY <1>4 DEF Over
<1>. HIDE DEF v
<1>7. CASE v = None /\ \A d \in 1..k : ~HasAt(u, d, key)
  <2>1. ASSUME NEW e \in 1..Height, HasAt(u, e, key) PROVE FALSE
    BY <1>6, <1>7, <2>1 DEF Seen, HasAt
  <2>. QED
    BY <1>7, <2>1 DEF IsNearest, v
<1>8. CASE \E d \in 1..k : /\ HasAt(u, d, key) /\ v = Object(u[d]).attributes[key]
                           /\ \A e \in 1..(d - 1) : ~HasAt(u, e, key)
  BY <1>8 DEF IsNearest, v
<1>. QED
  BY <1>5, <1>7, <1>8 DEF IsNearest

\* The attribute of a parsed page is that of its nearest ancestor with one.
LEMMA ValueIsEffective ==
    ASSUME file \in Files, NEW n \in Numbers, n # None, NEW key \in InheritableKeys,
           Cardinality(Numbers) = Height, Height \in Nat
    PROVE  (IF Has(n, key) THEN Object(n).attributes[key] ELSE Inherited(n)[key]) = Effective(n, key)
<1>1. PICK u : Ancestry(u, n) /\ \A d \in 0..Height : Ancestor(n, d) = u[d]
  BY Ancestors
<1>2. PICK c : Rounds(c, n) /\ Inherited(n) = c[Height].got
  BY RoundsExist
<1>. DEFINE set == {d \in 0..Height : HasAt(u, d, key)}
            least == CHOOSE d \in set : \A e \in set : d <= e
<1>3. {d \in 0..Height : Ancestor(n, d) # None /\ Has(Ancestor(n, d), key)} = set
  BY <1>1 DEF HasAt
<1>4. Effective(n, key) = IF set = {} THEN None ELSE Object(Ancestor(n, least)).attributes[key]
  <2>. DEFINE other == {d \in 0..Height : Ancestor(n, d) # None /\ Has(Ancestor(n, d), key)}
  <2>1. Effective(n, key) = IF other = {} THEN None
          ELSE Object(Ancestor(n, CHOOSE d \in other : \A e \in other : d <= e)).attributes[key]
    BY DEF Effective, Height
  <2>2. other = set
    BY <1>3
  <2>. HIDE DEF other, set
  <2>. QED
    BY <2>1, <2>2
<1>5. ASSUME NEW d \in set, \A e \in set : d <= e
      PROVE  Effective(n, key) = Object(u[d]).attributes[key]
  <2>1. least \in set /\ \A e \in set : least <= e
    <3>. HIDE DEF set
    <3>. QED
      BY <1>5
  <2>2. least = d
    <3>. HIDE DEF least
    <3>. QED
      BY <1>5, <2>1
  <2>. HIDE DEF least, set
  <2>3. d \in 0..Height
    BY DEF set
  <2>. QED
    BY <1>1, <1>4, <1>5, <2>2, <2>3
<1>6. CASE Has(n, key)
  <2>1. 0 \in set /\ u[0] = n
    BY <1>1, <1>6 DEF Ancestry, HasAt
  <2>2. \A e \in set : 0 <= e
    OBVIOUS
  <2>. HIDE DEF set
  <2>. QED
    BY <1>5, <1>6, <2>1, <2>2
<1>7. CASE ~Has(n, key)
  <2>. DEFINE v == c[Height].got[key]
  <2>1. IsNearest(v, u, Height, key)
    BY <1>1, <1>2, <1>7, ClimbIsEnough
  <2>2. ~HasAt(u, 0, key)
    BY <1>1, <1>7 DEF Ancestry, HasAt
  <2>3. Inherited(n)[key] = v
    BY <1>2
  <2>. HIDE DEF v
  <2>4. CASE v = None /\ \A d \in 1..Height : ~HasAt(u, d, key)
    <3>1. set = {}
      BY <2>2, <2>4
    <3>. HIDE DEF set
    <3>. QED
      BY <1>4, <1>7, <2>3, <2>4, <3>1
  <2>5. CASE \E d \in 1..Height : /\ HasAt(u, d, key) /\ v = Object(u[d]).attributes[key]
                                  /\ \A e \in 1..(d - 1) : ~HasAt(u, e, key)
    <3>1. PICK d \in 1..Height : /\ HasAt(u, d, key) /\ v = Object(u[d]).attributes[key]
                                 /\ \A e \in 1..(d - 1) : ~HasAt(u, e, key)
      BY <2>5
    <3>2. d \in set
      BY <3>1
    <3>3. ASSUME NEW e \in set PROVE d <= e
      <4>1. e = 0 \/ e \in 1..(d - 1) \/ d <= e
        OBVIOUS
      <4>. QED
        BY <2>2, <3>1, <4>1
    <3>. HIDE DEF set
    <3>. QED
      BY <1>5, <1>7, <2>3, <3>1, <3>2, <3>3
  <2>. QED
    BY <2>1, <2>4, <2>5 DEF IsNearest
<1>. QED
  BY <1>6, <1>7

-----------------------------------------------------------------------------
(* What the calls are answered. *)

AnswerOf(question) ==
    IF question.op = "page_count" THEN Len(page_refs)
    ELSE IF question.index >= Len(page_refs) THEN None
    ELSE ParsedPage(page_refs[question.index + 1])

\* The last answer and the cached pages are what the index says.
AnswerInv ==
    /\ asked # None => asked.op \in {"page_count", "get_page"} /\ asked.index \in Nat
    /\ told # None => IF pc = "indexed"
                      THEN /\ told.asked.op \in {"page_count", "get_page"} /\ told.asked.index \in Nat
                           /\ told.answer = AnswerOf(told.asked)
                      ELSE pc = "idle" /\ PagesKids = None
    /\ pc # "indexed" => pages = {}
    /\ \A entry \in pages :
          /\ entry.index \in Nat /\ entry.index < Len(page_refs)
          /\ entry.page = ParsedPage(page_refs[entry.index + 1])

\* A page of a file, and what root it has, stay the same.
LEMMA SamePages ==
    ASSUME UNCHANGED file
    PROVE  PagesKids' = PagesKids /\ \A n : ParsedPage(n)' = ParsedPage(n)
<1>1. PagesKids' = PagesKids
  BY SMT DEF PagesKids, SearchedKids, Candidates, Kids, Numbers, Object, HasDictionary, Has, MadeUpKids,
     ValidPages, InAscendingOrder, LooksLikePage, Groups, FirstMadeUp
<1>2. ASSUME NEW n PROVE Inherited(n)' = Inherited(n)
  BY SMT DEF Inherited, Numbers, Object, HasDictionary, Has
<1>3. ASSUME NEW n PROVE ParsedPage(n)' = ParsedPage(n)
  BY <1>2, Zenon DEF ParsedPage, Has, Object
<1>. QED
  BY <1>1, <1>3

\* A step that leaves index, cache and the last answer as they are.
LEMMA AnswersKept ==
    ASSUME AnswerInv, UNCHANGED <<file, page_refs, pages, told>>,
           pc' = pc \/ (told = None /\ pages = {}),
           asked' # None => asked'.op \in {"page_count", "get_page"} /\ asked'.index \in Nat
    PROVE  AnswerInv'
<1>1. PagesKids' = PagesKids /\ \A n : ParsedPage(n)' = ParsedPage(n)
  BY SamePages
<1>2. \A question : AnswerOf(question)' = AnswerOf(question)
  BY <1>1 DEF AnswerOf
<1>. HIDE DEF AnswerOf
<1>. QED
  BY <1>1, <1>2 DEF AnswerInv

\* The first call, if the file has no root, is answered with an error, and so
\* will be all others.
LEMMA EnsureAnswers == ASSUME IInv, AnswerInv, EnsurePageTree PROVE AnswerInv'
<1>1. PagesKids' = PagesKids /\ \A n : ParsedPage(n)' = ParsedPage(n)
  BY SamePages DEF EnsurePageTree
<1>2. CASE PagesKids = None
  BY <1>1, <1>2 DEF EnsurePageTree, AnswerInv
<1>3. CASE PagesKids # None
  BY <1>1, <1>3, AnswersKept DEF EnsurePageTree, AnswerInv
<1>. QED
  BY <1>2, <1>3

\* While the index is made nothing has been answered, and nothing is cached.
LEMMA WalkAnswers == ASSUME IInv, AnswerInv, PopNode \/ FinishIndex PROVE AnswerInv'
<1>1. pc = "flatten" /\ told = None /\ pages = {}
  BY DEF PopNode, FinishIndex, AnswerInv
<1>2. CASE PopNode
  BY <1>1, <1>2 DEF PopNode, AnswerInv
<1>3. CASE FinishIndex
  BY <1>1, <1>3 DEF FinishIndex, AnswerInv
<1>. QED
  BY <1>2, <1>3

\* A page comes from the cache or is parsed, and goes into the cache.
LEMMA GetAnswers == ASSUME IInv, AnswerInv, GetPage PROVE AnswerInv'
<1>1. /\ pc = "indexed" /\ asked # None /\ asked.op = "get_page" /\ asked.index \in Nat
      /\ asked' = None /\ UNCHANGED <<file, pc, page_refs>>
  BY DEF GetPage, AnswerInv
<1>2. PICK page \in IF CachedPages(asked.index) # {} THEN {entry.page : entry \in CachedPages(asked.index)}
                   ELSE {IF asked.index >= Len(page_refs) THEN None
                         ELSE ParsedPage(page_refs[asked.index + 1])} :
          /\ told' = [asked |-> asked, answer |-> page]
          /\ pages' = IF page = None THEN pages ELSE pages \cup {[index |-> asked.index, page |-> page]}
  BY DEF GetPage
<1>3. PagesKids' = PagesKids /\ \A n : ParsedPage(n)' = ParsedPage(n)
  BY <1>1, SamePages
<1>4. \A question : AnswerOf(question)' = AnswerOf(question)
  BY <1>1, <1>3 DEF AnswerOf
<1>5. Len(page_refs) \in Nat
  BY DEF IInv, IndexInv
<1>6. page = AnswerOf(asked)
  <2>1. CASE CachedPages(asked.index) # {}
    <3>1. PICK entry \in pages : entry.index = asked.index /\ page = entry.page
      BY <1>2, <2>1 DEF CachedPages
    <3>2. entry.index < Len(page_refs) /\ entry.page = ParsedPage(page_refs[entry.index + 1])
      BY DEF AnswerInv
    <3>. QED
      BY <1>1, <1>5, <3>1, <3>2 DEF AnswerOf
  <2>2. CASE CachedPages(asked.index) = {}
    BY <1>1, <1>2, <2>2 DEF AnswerOf
  <2>. QED
    BY <2>1, <2>2
<1>7. told'.asked = asked /\ told'.answer = AnswerOf(asked)
  BY <1>2, <1>6
<1>8. ASSUME NEW entry \in pages'
      PROVE  /\ entry.index \in Nat /\ entry.index < Len(page_refs)
             /\ entry.page = ParsedPage(page_refs[entry.index + 1])
  <2>1. CASE entry \in pages
    BY <2>1 DEF AnswerInv
  <2>2. CASE entry \notin pages
    <3>1. page # None /\ entry = [index |-> asked.index, page |-> page]
      BY <1>2, <1>8, <2>2
    <3>2. asked.index < Len(page_refs) /\ page = ParsedPage(page_refs[asked.index + 1])
      BY <1>1, <1>5, <1>6, <3>1 DEF AnswerOf
    <3>. QED
      BY <1>1, <3>1, <3>2
  <2>. QED
    BY <2>1, <2>2
<1>9. PICK question : question = asked
  OBVIOUS
<1>10. /\ told'.asked = question /\ question.op = "get_page" /\ question.index \in Nat
       /\ told'.answer = AnswerOf(question)'
  BY <1>1, <1>4, <1>7, <1>9
<1>11. told'.answer = IF question.index >= Len(page_refs') THEN None
                      ELSE ParsedPage(page_refs[question.index + 1])'
  BY <1>10 DEF AnswerOf
<1>12. \A entry \in pages' :
          /\ entry.index \in Nat /\ entry.index < Len(page_refs')
          /\ entry.page = ParsedPage(page_refs[entry.index + 1])'
  BY <1>1, <1>3, <1>8
<1>. QED
  BY <1>1, <1>10, <1>11, <1>12 DEF AnswerInv, AnswerOf

\* The number of pages is that of the index.
LEMMA CountAnswers == ASSUME IInv, AnswerInv, PageCount PROVE AnswerInv'
<1>1. /\ pc = "indexed" /\ asked # None /\ asked.op = "page_count" /\ asked.index \in Nat
      /\ asked' = None /\ UNCHANGED <<file, pc, page_refs, pages>>
      /\ told' = [asked |-> asked, answer |-> Len(page_refs)]
  BY DEF PageCount, AnswerInv
<1>2. PagesKids' = PagesKids /\ \A n : ParsedPage(n)' = ParsedPage(n)
  BY <1>1, SamePages
<1>3. told'.asked = asked /\ told'.answer = Len(page_refs')
  BY <1>1
<1>4. \A entry \in pages' :
          /\ entry.index \in Nat /\ entry.index < Len(page_refs')
          /\ entry.page = ParsedPage(page_refs[entry.index + 1])'
  BY <1>1, <1>2 DEF AnswerInv
<1>. QED
  BY <1>1, <1>3, <1>4 DEF AnswerInv, AnswerOf

\* AnswerInv is an invariant, given the index.
THEOREM AnswerInvariance == Spec => [](IInv /\ AnswerInv)
<1>1. Init => AnswerInv
  BY DEF Init, AnswerInv
<1>2. ASSUME IInv, AnswerInv, [Next]_vars PROVE AnswerInv'
  <2>1. ASSUME NEW question \in Questions, Call(question) PROVE AnswerInv'
    <3>1. question.op \in {"page_count", "get_page"} /\ question.index \in Nat
      BY DEF Questions
    <3>. QED
      BY <1>2, <2>1, <3>1, AnswersKept DEF Call
  <2>2. CASE EnsurePageTree
    BY <1>2, <2>2, EnsureAnswers
  <2>3. CASE PopNode \/ FinishIndex
    BY <1>2, <2>3, WalkAnswers
  <2>4. CASE GetPage
    BY <1>2, <2>4, GetAnswers
  <2>5. CASE PageCount
    BY <1>2, <2>5, CountAnswers
  <2>6. CASE UNCHANGED vars
    BY <1>2, <2>6, AnswersKept DEF vars, AnswerInv
  <2>. QED
    BY <1>2, <2>1, <2>2, <2>3, <2>4, <2>5, <2>6 DEF Next, Step
<1>. QED
  BY <1>1, <1>2, Invariance, PTL DEF Spec

\* A page that can be parsed is a page, and has the attributes of the tree.
LEMMA ParsedIsEffective ==
    ASSUME file \in Files, NEW n \in Numbers, HasDictionary(n)
    PROVE  IF "short" \in {Effective(n, "MediaBox"), Effective(n, "CropBox")}
           THEN ParsedPage(n) = None
           ELSE /\ ParsedPage(n) # None
                /\ ParsedPage(n).obj_ref = n
                /\ Effective(n, "MediaBox") \notin {None, "odd"} =>
                      ParsedPage(n).media_box = Effective(n, "MediaBox")
                /\ Effective(n, "Rotate") \notin {None, "odd"} =>
                      ParsedPage(n).rotation = Effective(n, "Rotate")
                /\ Effective(n, "Resources") # "odd" => ParsedPage(n).resources = Effective(n, "Resources")
                /\ Effective(n, "CropBox") # "odd" => ParsedPage(n).crop_box = Effective(n, "CropBox")
<1>1. Numbers = 1..Height /\ Height \in Nat /\ Cardinality(Numbers) = Height
  BY ScannedFinite, FS_Interval DEF Numbers, Height
<1>2. n \in Nat /\ n # None
  BY <1>1, NoneAssumption
<1>. DEFINE Value(key) == IF Has(n, key) THEN Object(n).attributes[key] ELSE Inherited(n)[key]
            Proper(key) == IF Value(key) = "odd" THEN None ELSE Value(key)
            page == [obj_ref   |-> n,
                     media_box |-> IF Proper("MediaBox") = None THEN "letter" ELSE Proper("MediaBox"),
                     crop_box  |-> Proper("CropBox"),
                     rotation  |-> IF Proper("Rotate") = None THEN "upright" ELSE Proper("Rotate"),
                     resources |-> Proper("Resources")]
<1>3. \A key \in InheritableKeys : Value(key) = Effective(n, key)
  BY <1>1, <1>2, ValueIsEffective
<1>4. ParsedPage(n) = IF Value("MediaBox") = "short" \/ Value("CropBox") = "short" THEN None ELSE page
  BY Zenon DEF ParsedPage
<1>5. \A key \in InheritableKeys : Value(key) \in AttributeValues \cup {None}
  <2>. SUFFICES ASSUME NEW key \in InheritableKeys PROVE Value(key) \in AttributeValues \cup {None}
    OBVIOUS
  <2>1. ASSUME NEW m, HasDictionary(m) PROVE Object(m).attributes[key] \in AttributeValues
    BY <2>1 DEF AttributeValues, HasDictionary, Object, Numbers
  <2>2. CASE Has(n, key)
    BY <2>1, <2>2
  <2>3. CASE ~Has(n, key)
    <3>1. PICK c : Rounds(c, n) /\ Inherited(n) = c[Height].got
      BY <1>1, RoundsExist
    <3>2. c[Height] \in Climbs
      BY <1>1, <3>1 DEF Rounds
    <3>3. Inherited(n)[key] \in Values
      BY <3>1, <3>2 DEF Climbs
    <3>4. Values \subseteq AttributeValues \cup {None}
      <4>1. \A m \in {x \in Numbers : HasDictionary(x)}, k \in InheritableKeys :
               Object(m).attributes[k] \in AttributeValues
        BY DEF AttributeValues, HasDictionary, Object, Numbers
      <4>. QED
        BY <4>1 DEF Values
    <3>. QED
      BY <2>3, <3>3, <3>4
  <2>. QED
    BY <2>2, <2>3
<1>. HIDE DEF Value
<1>6. page \in Pages
  <2>1. \A key \in InheritableKeys : Proper(key) \in AttributeValues \cup {None}
    BY <1>5
  <2>. HIDE DEF Proper
  <2>2. "MediaBox" \in InheritableKeys /\ "CropBox" \in InheritableKeys /\ "Rotate" \in InheritableKeys
        /\ "Resources" \in InheritableKeys
    BY DEF InheritableKeys
  <2>. QED
    BY <1>2, <2>1, <2>2 DEF Pages
<1>7. page # None
  <2>. HIDE DEF page
  <2>. QED
    BY <1>6, NoneAssumption
<1>8. /\ Value("MediaBox") = Effective(n, "MediaBox") /\ Value("CropBox") = Effective(n, "CropBox")
      /\ Value("Rotate") = Effective(n, "Rotate") /\ Value("Resources") = Effective(n, "Resources")
  BY <1>3 DEF InheritableKeys
<1>. QED
  BY <1>4, <1>7, <1>8

\* Whatever was asked before and is cached, and even if parents form a cycle, a
\* page that is handed out has each attribute of its own or of its nearest
\* ancestor with one, and there is a page for each index below the count unless a
\* box of it is short of elements.
THEOREM AnswersFromTreeAlways == Spec => []AnswersFromTree
<1>1. ASSUME IInv, AnswerInv PROVE AnswersFromTree
  <2>. SUFFICES ASSUME told # None, pc = "indexed", told.asked.op # "page_count",
                       ~(told.asked.index >= Len(page_refs)), NEW n, n = page_refs[told.asked.index + 1]
                PROVE  IF "short" \in {Effective(n, "MediaBox"), Effective(n, "CropBox")}
                       THEN told.answer = None
                       ELSE /\ told.answer # None
                            /\ told.answer.obj_ref = n
                            /\ Effective(n, "MediaBox") \notin {None, "odd"} =>
                                  told.answer.media_box = Effective(n, "MediaBox")
                            /\ Effective(n, "Rotate") \notin {None, "odd"} =>
                                  told.answer.rotation = Effective(n, "Rotate")
                            /\ Effective(n, "Resources") # "odd" =>
                                  told.answer.resources = Effective(n, "Resources")
                            /\ Effective(n, "CropBox") # "odd" =>
                                  told.answer.crop_box = Effective(n, "CropBox")
    BY <1>1 DEF AnswersFromTree, AnswerInv, AnswerOf
  <2>1. told.asked.index \in Nat /\ told.answer = AnswerOf(told.asked) /\ Len(page_refs) \in Nat
    BY <1>1 DEF AnswerInv, IInv, IndexInv
  <2>2. told.answer = ParsedPage(n) /\ told.asked.index + 1 \in 1..Len(page_refs)
    BY <2>1 DEF AnswerOf
  <2>3. n \in Members(page_refs) /\ n \in visited
    BY <1>1, <2>2 DEF IInv, IndexInv, Members
  <2>4. IsLeaf(n)
    BY <1>1, <2>3 DEF IInv, IndexInv
  <2>5. HasDictionary(n) /\ n \in Numbers
    BY <2>4 DEF IsLeaf, HasDictionary
  <2>. QED
    BY <1>1, <2>2, <2>5, ParsedIsEffective DEF IInv
<1>. QED
  BY <1>1, AnswerInvariance, PTL

-----------------------------------------------------------------------------
(* The order of paths. *)

\* q begins with p.
Begins(p, q) == Len(p) <= Len(q) /\ \A i \in 1..Len(p) : p[i] = q[i]

\* The order of numbers is transitive.
LEMMA LessTransitive ==
    ASSUME NEW x \in Nat, NEW y \in Nat, NEW z \in Nat, x < y, y < z
    PROVE  x < z
OBVIOUS

\* The order of paths is transitive.
LEMMA BeforeTransitive ==
    ASSUME NEW p \in Seq(Nat), NEW q \in Seq(Nat), NEW r \in Seq(Nat), Before(p, q), Before(q, r)
    PROVE  Before(p, r)
<1>1. PICK i \in DOMAIN q : /\ i \in DOMAIN p => p[i] < q[i]
                            /\ \A m \in 1..(i - 1) : m \in DOMAIN p /\ p[m] = q[m]
  BY DEF Before
<1>2. PICK j \in DOMAIN r : /\ j \in DOMAIN q => q[j] < r[j]
                            /\ \A m \in 1..(j - 1) : m \in DOMAIN q /\ q[m] = r[m]
  BY DEF Before
<1>3. /\ DOMAIN p = 1..Len(p) /\ DOMAIN q = 1..Len(q) /\ DOMAIN r = 1..Len(r)
      /\ Len(p) \in Nat /\ Len(q) \in Nat /\ Len(r) \in Nat
      /\ \A m \in DOMAIN p : p[m] \in Nat
      /\ \A m \in DOMAIN q : q[m] \in Nat
      /\ \A m \in DOMAIN r : r[m] \in Nat
  OBVIOUS
<1>4. CASE i < j
  <2>1. i \in DOMAIN r /\ (i \in DOMAIN p => p[i] < r[i])
    <3>1. i \in 1..(j - 1) /\ i \in DOMAIN r
      BY <1>3, <1>4
    <3>. QED
      BY <1>1, <1>2, <3>1
  <2>2. ASSUME NEW m \in 1..(i - 1) PROVE m \in DOMAIN p /\ p[m] = r[m]
    <3>1. m \in 1..(j - 1)
      BY <1>3, <1>4
    <3>. QED
      BY <1>1, <1>2, <3>1
  <2>. QED
    BY <2>1, <2>2 DEF Before
<1>5. CASE ~(i < j)
  <2>1. ASSUME j \in DOMAIN p PROVE p[j] < r[j]
    <3>1. CASE i = j
      <4>1. p[j] < q[j] /\ q[j] < r[j]
        BY <1>1, <1>2, <2>1, <3>1
      <4>2. p[j] \in Nat /\ q[j] \in Nat /\ r[j] \in Nat
        BY <1>1, <1>3, <2>1, <3>1
      <4>. QED
        BY <4>1, <4>2, LessTransitive, Zenon
    <3>2. CASE i # j
      <4>1. j \in 1..(i - 1)
        BY <1>3, <1>5, <3>2
      <4>. QED
        BY <1>1, <1>2, <4>1
    <3>. QED
      BY <3>1, <3>2
  <2>2. ASSUME NEW m \in 1..(j - 1) PROVE m \in DOMAIN p /\ p[m] = r[m]
    <3>1. m \in 1..(i - 1)
      BY <1>3, <1>5
    <3>. QED
      BY <1>1, <1>2, <3>1
  <2>. QED
    BY <2>1, <2>2 DEF Before
<1>. QED
  BY <1>4, <1>5

\* A path is before the ones that go on from its end, which are ordered by their
\* last steps.
LEMMA BeforeAppend ==
    ASSUME NEW p \in Seq(Nat), NEW i \in Nat, NEW j \in Nat
    PROVE  /\ Append(p, i) \in Seq(Nat)
           /\ Before(p, Append(p, i))
           /\ i < j => Before(Append(p, i), Append(p, j))
<1>. DEFINE n == Len(p) + 1
<1>1. \A k \in Nat : /\ Append(p, k) \in Seq(Nat) /\ DOMAIN Append(p, k) = 1..n
                     /\ Append(p, k)[n] = k /\ \A m \in 1..(n - 1) : Append(p, k)[m] = p[m]
  OBVIOUS
<1>2. n \in 1..n /\ n \notin DOMAIN p /\ DOMAIN p = 1..(n - 1) /\ n - 1 < n /\ n \in Nat
  OBVIOUS
<1>. HIDE DEF n
<1>3. Before(p, Append(p, i))
  BY <1>1, <1>2 DEF Before
<1>4. i < j => Before(Append(p, i), Append(p, j))
  BY <1>1, <1>2 DEF Before
<1>. QED
  BY <1>1, <1>3, <1>4

\* A path that begins with one as long is the same.
LEMMA BeginsSame ==
    ASSUME NEW p \in Seq(Nat), NEW q \in Seq(Nat), Begins(p, q), Len(p) = Len(q)
    PROVE  p = q
<1>1. \A i \in 1..Len(p) : p[i] = q[i]
  BY DEF Begins
<1>. QED
  BY <1>1

\* A path that goes on is after its beginning.
LEMMA BeforeBegins ==
    ASSUME NEW p \in Seq(Nat), NEW q \in Seq(Nat), Begins(p, q)
    PROVE  p = q \/ Before(p, q)
<1>1. CASE Len(p) = Len(q)
  BY <1>1, BeginsSame
<1>2. CASE Len(p) # Len(q)
  <2>. DEFINE i == Len(p) + 1
  <2>1. i \in DOMAIN q /\ i \notin DOMAIN p /\ \A m \in 1..(i - 1) : m \in DOMAIN p /\ p[m] = q[m]
    BY <1>2 DEF Begins
  <2>. QED
    BY <2>1 DEF Before
<1>. QED
  BY <1>1, <1>2

\* What goes on from a path is before all that do not go on from it and are after it.
LEMMA BeforeGoesOn ==
    ASSUME NEW p \in Seq(Nat), NEW q \in Seq(Nat), NEW j \in Nat, Before(p, q), ~Begins(p, q)
    PROVE  Before(Append(p, j), q)
<1>1. PICK i \in DOMAIN q : /\ i \in DOMAIN p => p[i] < q[i]
                            /\ \A m \in 1..(i - 1) : m \in DOMAIN p /\ p[m] = q[m]
  BY DEF Before
<1>2. /\ DOMAIN p = 1..Len(p) /\ DOMAIN q = 1..Len(q) /\ Len(p) \in Nat /\ Len(q) \in Nat
      /\ DOMAIN Append(p, j) = 1..(Len(p) + 1)
      /\ \A m \in 1..Len(p) : Append(p, j)[m] = p[m]
  OBVIOUS
<1>3. i \in DOMAIN p
  <2>. SUFFICES ASSUME i \notin DOMAIN p PROVE FALSE
    OBVIOUS
  <2>1. Len(p) < i
    BY <1>2
  <2>2. Len(p) <= Len(q) /\ \A m \in 1..Len(p) : m \in 1..(i - 1)
    BY <1>2, <2>1
  <2>. QED
    BY <1>1, <2>2 DEF Begins
<1>4. i \in DOMAIN Append(p, j) /\ \A m \in 1..i : Append(p, j)[m] = p[m]
  BY <1>2, <1>3
<1>5. \A m \in 1..(i - 1) : m \in DOMAIN Append(p, j) /\ Append(p, j)[m] = q[m]
  BY <1>1, <1>2, <1>3, <1>4
<1>6. Append(p, j)[i] < q[i]
  BY <1>1, <1>2, <1>3, <1>4
<1>. QED
  BY <1>5, <1>6 DEF Before

-----------------------------------------------------------------------------
(* Paths *)

\* The kids of a node, where None is the root.
KidList(x) == IF x = None THEN root_kids ELSE IF IsInner(x) THEN KidsOf(x) ELSE <<>>

\* The node that a path has come to after i steps.
At(path, i) == IF i = 0 THEN None ELSE Walk(path)[i]

\* f has the nodes on a path, the root first.
Follows(f, path) ==
    /\ DOMAIN f = 0..Len(path)
    /\ f[0] = None
    /\ \A i \in 1..Len(path) :
          f[i] # None /\ path[i] \in DOMAIN KidList(f[i - 1]) /\ f[i] = KidList(f[i - 1])[path[i]]

\* As a recursive function has them.
IsTrail(f, path) ==
    f = [i \in 0..Len(path) |->
           LET kids == IF i = 1 THEN root_kids
                       ELSE IF f[i - 1] # None /\ IsInner(f[i - 1]) THEN KidsOf(f[i - 1])
                       ELSE <<>>
           IN  IF i > 0 /\ path[i] \in DOMAIN kids THEN kids[path[i]] ELSE None]

\* A walk is part of the trail.
LEMMA WalkIsTrail ==
    ASSUME NEW path
    PROVE  Walk(path) = [i \in 1..Len(path) |-> (CHOOSE g : IsTrail(g, path))[i]]
BY SMT DEF Walk, IsTrail

\* Two functions that follow a path, or have the recursive definition, are the same.
LEMMA TrailOnlyOne ==
    ASSUME NEW path, Len(path) \in Nat, NEW f, NEW g, Follows(f, path), IsTrail(g, path)
    PROVE  \A i \in 0..Len(path) : g[i] = f[i]
<1>. DEFINE Same == {i \in 0..Len(path) : g[i] = f[i]}
<1>1. \A i \in 0..Len(path) :
        g[i] = LET kids == IF i = 1 THEN root_kids
                           ELSE IF g[i - 1] # None /\ IsInner(g[i - 1]) THEN KidsOf(g[i - 1])
                           ELSE <<>>
               IN  IF i > 0 /\ path[i] \in DOMAIN kids THEN kids[path[i]] ELSE None
  BY DEF IsTrail
<1>2. 0 \in Same
  BY <1>1 DEF Follows
<1>3. ASSUME NEW i \in 1..Len(path), i - 1 \in Same PROVE i \in Same
  <2>1. i \in 0..Len(path) /\ i > 0 /\ g[i - 1] = f[i - 1]
    BY <1>3
  <2>2. CASE i = 1
    <3>1. KidList(f[i - 1]) = root_kids
      BY <2>2 DEF Follows, KidList
    <3>2. f[i] = root_kids[path[i]] /\ path[i] \in DOMAIN root_kids
      BY <3>1 DEF Follows
    <3>3. g[i] = IF path[i] \in DOMAIN root_kids THEN root_kids[path[i]] ELSE None
      BY <1>1, <2>1, <2>2
    <3>. QED
      BY <2>1, <3>2, <3>3
  <2>3. CASE i # 1
    <3>1. i - 1 \in 1..Len(path)
      BY <2>3
    <3>2. f[i - 1] # None
      BY <3>1 DEF Follows
    <3>3. KidList(f[i - 1]) = IF IsInner(f[i - 1]) THEN KidsOf(f[i - 1]) ELSE <<>>
      BY <3>2 DEF KidList
    <3>4. f[i] = KidList(f[i - 1])[path[i]] /\ path[i] \in DOMAIN KidList(f[i - 1])
      BY DEF Follows
    <3>. DEFINE kids == IF IsInner(f[i - 1]) THEN KidsOf(f[i - 1]) ELSE <<>>
    <3>5. g[i] = IF path[i] \in DOMAIN kids THEN kids[path[i]] ELSE None
      BY <1>1, <2>1, <2>3, <3>2
    <3>. HIDE DEF kids
    <3>6. KidList(f[i - 1]) = kids
      BY <3>3 DEF kids
    <3>. QED
      BY <2>1, <3>4, <3>5, <3>6
  <2>. QED
    BY <2>2, <2>3
<1>. HIDE DEF Same
<1>4. 0..Len(path) \subseteq Same
  BY <1>2, <1>3, UpTo
<1>. QED
  BY <1>4 DEF Same

\* What follows a path is its walk.
LEMMA WalkOf ==
    ASSUME NEW path, Len(path) \in Nat, NEW f, Follows(f, path)
    PROVE  /\ Walk(path) = [i \in 1..Len(path) |-> f[i]]
           /\ \A i \in 0..Len(path) : At(path, i) = f[i]
<1>. DEFINE part == [i \in 0..Len(path) |-> f[i]]
<1>1. IsTrail(part, path)
  <2>1. ASSUME NEW i \in 0..Len(path)
        PROVE  part[i] = LET kids == IF i = 1 THEN root_kids
                                     ELSE IF part[i - 1] # None /\ IsInner(part[i - 1]) THEN KidsOf(part[i - 1])
                                     ELSE <<>>
                         IN  IF i > 0 /\ path[i] \in DOMAIN kids THEN kids[path[i]] ELSE None
    <3>. DEFINE kids == IF i = 1 THEN root_kids
                        ELSE IF part[i - 1] # None /\ IsInner(part[i - 1]) THEN KidsOf(part[i - 1])
                        ELSE <<>>
    <3>1. CASE i = 0
      BY <3>1 DEF Follows
    <3>2. CASE i # 0
      <4>1. i \in 1..Len(path) /\ i - 1 \in 0..Len(path) /\ i > 0
        BY <3>2
      <4>2. part[i] = f[i] /\ part[i - 1] = f[i - 1]
        BY <4>1
      <4>3. kids = KidList(f[i - 1])
        <5>1. CASE i = 1
          <6>1. f[i - 1] = None
            BY <5>1 DEF Follows
          <6>. QED
            BY <5>1, <6>1 DEF KidList
        <5>2. CASE i # 1
          <6>1. i - 1 \in 1..Len(path)
            BY <4>1, <5>2
          <6>2. f[i - 1] # None
            BY <6>1 DEF Follows
          <6>. QED
            BY <4>2, <5>2, <6>2 DEF KidList
        <5>. QED
          BY <5>1, <5>2
      <4>4. f[i] = KidList(f[i - 1])[path[i]] /\ path[i] \in DOMAIN KidList(f[i - 1])
        BY <4>1 DEF Follows
      <4>. HIDE DEF kids, part
      <4>5. part[i] = IF i > 0 /\ path[i] \in DOMAIN kids THEN kids[path[i]] ELSE None
        BY <4>1, <4>2, <4>3, <4>4
      <4>. QED
        BY <4>5 DEF kids
    <3>. QED
      BY <3>1, <3>2
  <2>2. part = [i \in 0..Len(path) |-> part[i]]
    OBVIOUS
  <2>. HIDE DEF part
  <2>. QED
    BY <2>1, <2>2 DEF IsTrail
<1>. DEFINE trail == CHOOSE g : IsTrail(g, path)
<1>2. IsTrail(trail, path)
  <2>. HIDE DEF part
  <2>. QED
    BY <1>1
<1>3. Walk(path) = [i \in 1..Len(path) |-> trail[i]]
  BY WalkIsTrail
<1>. HIDE DEF trail
<1>4. \A i \in 0..Len(path) : trail[i] = f[i]
  BY <1>2, TrailOnlyOne
<1>5. Walk(path) = [i \in 1..Len(path) |-> f[i]]
  BY <1>3, <1>4
<1>. QED
  BY <1>5 DEF At, Follows

\* The kids from which the i-th step of a path is taken, that has come to x.
KidsAt(i, x) ==
    IF i = 1 THEN root_kids
    ELSE IF x # None /\ IsInner(x) THEN KidsOf(x)
    ELSE <<>>
Chosen(kids, j) == IF j \in DOMAIN kids THEN kids[j] ELSE None

\* What is chosen is a node, or there is nothing to choose.
LEMMA ChosenType == ASSUME NEW i, NEW x, NEW j PROVE Chosen(KidsAt(i, x), j) \in Nodes \cup {None}
<1>. SUFFICES ASSUME j \in DOMAIN KidsAt(i, x) PROVE KidsAt(i, x)[j] \in Nodes
  BY DEF Chosen
<1>1. CASE i = 1
  BY <1>1 DEF KidsAt, Nodes, Members
<1>2. CASE i # 1 /\ x # None /\ IsInner(x)
  <2>1. KidsAt(i, x)[j] \in Members(KidsOf(x))
    BY <1>2 DEF KidsAt, Members
  <2>2. x \in Numbers \cup MadeUp
    BY <1>2 DEF IsInner, HasDictionary
  <2>. QED
    BY <1>2, <2>1, <2>2 DEF Nodes
<1>3. CASE i # 1 /\ ~(x # None /\ IsInner(x))
  BY <1>3 DEF KidsAt
<1>. QED
  BY <1>1, <1>2, <1>3

\* A walk on which nothing is missing follows its path.
LEMMA WalkFollows ==
    ASSUME NEW path, Len(path) \in Nat, None \notin Members(Walk(path))
    PROVE  /\ DOMAIN Walk(path) = 1..Len(path)
           /\ \A i \in 1..Len(path) : Walk(path)[i] \in Nodes
           /\ Follows([i \in 0..Len(path) |-> At(path, i)], path)
<1>. DEFINE S == Nodes \cup {None}
            m == Len(path)
            h == [i \in 1..m |-> [x \in S |-> Chosen(KidsAt(i, x), path[i])]]
<1>1. h \in [1..m -> [S -> S]]
  BY ChosenType
<1>2. None \in S
  OBVIOUS
<1>3. PICK f : Iterated(f, S, None, h, m)
  <2>. HIDE DEF h, S, m
  <2>. QED
    BY <1>1, <1>2, Iterates DEF m
<1>4. \A i \in 1..m : i - 1 \in 0..m /\ f[i - 1] \in S
  <2>1. \A i \in 1..m : i - 1 \in 0..m
    OBVIOUS
  <2>2. f \in [0..m -> S]
    BY <1>3 DEF Iterated
  <2>. QED
    BY <2>1, <2>2
<1>5. f[0] = None /\ \A i \in 1..m : f[i] = Chosen(KidsAt(i, f[i - 1]), path[i])
  BY <1>3, <1>4 DEF Iterated
<1>6. IsTrail(f, path)
  <2>1. f = [i \in 0..m |-> f[i]]
    BY <1>3 DEF Iterated
  <2>2. ASSUME NEW i \in 0..m
        PROVE  f[i] = LET kids == IF i = 1 THEN root_kids
                                  ELSE IF f[i - 1] # None /\ IsInner(f[i - 1]) THEN KidsOf(f[i - 1])
                                  ELSE <<>>
                      IN  IF i > 0 /\ path[i] \in DOMAIN kids THEN kids[path[i]] ELSE None
    BY <1>5 DEF Chosen, KidsAt
  <2>. QED
    BY <2>1, <2>2 DEF IsTrail
<1>. DEFINE trail == CHOOSE g : IsTrail(g, path)
<1>7. IsTrail(trail, path)
  <2>. HIDE DEF h, S, m
  <2>. QED
    BY <1>6
<1>8. Walk(path) = [i \in 1..m |-> trail[i]]
  BY WalkIsTrail
<1>. HIDE DEF trail
<1>9. trail[0] = None /\ \A i \in 1..m : trail[i] = Chosen(KidsAt(i, trail[i - 1]), path[i])
  <2>1. \A i \in 0..m : trail[i] =
           LET kids == IF i = 1 THEN root_kids
                       ELSE IF trail[i - 1] # None /\ IsInner(trail[i - 1]) THEN KidsOf(trail[i - 1])
                       ELSE <<>>
           IN  IF i > 0 /\ path[i] \in DOMAIN kids THEN kids[path[i]] ELSE None
    BY <1>7 DEF IsTrail
  <2>2. 0 \in 0..m /\ ~(0 > 0) /\ \A i \in 1..m : i \in 0..m /\ i > 0
    OBVIOUS
  <2>. HIDE DEF h, S, m
  <2>. QED
    BY <2>1, <2>2 DEF Chosen, KidsAt
<1>10. \A i \in 1..m : trail[i] # None
  BY <1>8 DEF Members
<1>11. \A i \in 1..m : trail[i] \in Nodes
  BY <1>9, <1>10, ChosenType
<1>12. \A i \in 0..m : At(path, i) = trail[i]
  BY <1>8, <1>9 DEF At
<1>13. \A i \in 1..m : i - 1 \in 0..m /\ i \in 0..m /\ KidsAt(i, trail[i - 1]) = KidList(trail[i - 1])
  <2>. SUFFICES ASSUME NEW i \in 1..m PROVE KidsAt(i, trail[i - 1]) = KidList(trail[i - 1])
    OBVIOUS
  <2>1. CASE i = 1
    BY <1>9, <2>1 DEF KidsAt, KidList
  <2>2. CASE i # 1
    <3>1. trail[i - 1] # None
      BY <1>10, <2>2
    <3>. QED
      BY <2>2, <3>1 DEF KidsAt, KidList
  <2>. QED
    BY <2>1, <2>2
<1>. DEFINE at == [i \in 0..m |-> At(path, i)]
<1>14. ASSUME NEW i \in 1..m
       PROVE  at[i] # None /\ path[i] \in DOMAIN KidList(at[i - 1]) /\ at[i] = KidList(at[i - 1])[path[i]]
  <2>1. at[i] = trail[i] /\ at[i - 1] = trail[i - 1]
    BY <1>12, <1>13
  <2>2. trail[i] = Chosen(KidList(trail[i - 1]), path[i]) /\ trail[i] # None
    BY <1>9, <1>10, <1>13
  <2>. HIDE DEF at
  <2>. QED
    BY <2>1, <2>2 DEF Chosen
<1>15. Follows(at, path)
  <2>1. DOMAIN at = 0..m /\ at[0] = None
    BY DEF At
  <2>. HIDE DEF at
  <2>. QED
    BY <1>14, <2>1 DEF Follows
<1>. QED
  BY <1>8, <1>11, <1>15

\* A path from the root on which no node comes twice.
Way(q) ==
    /\ q \in Seq(Nat)
    /\ \A i \in 1..Len(q) :
          At(q, i) # None /\ q[i] \in DOMAIN KidList(At(q, i - 1)) /\ At(q, i) = KidList(At(q, i - 1))[q[i]]
    /\ \A i, j \in 1..Len(q) : At(q, i) = At(q, j) => i = j

End(q) == At(q, Len(q))

\* What follows a path and has no node twice makes it a way.
LEMMA WayMade ==
    ASSUME NEW q \in Seq(Nat), NEW f, Follows(f, q), \A i, j \in 1..Len(q) : f[i] = f[j] => i = j
    PROVE  Way(q) /\ \A i \in 0..Len(q) : At(q, i) = f[i]
<1>1. Len(q) \in Nat
  OBVIOUS
<1>2. \A i \in 0..Len(q) : At(q, i) = f[i]
  BY <1>1, WalkOf
<1>3. \A i \in 1..Len(q) : i \in 0..Len(q) /\ i - 1 \in 0..Len(q)
  OBVIOUS
<1>4. \A i \in 1..Len(q) :
         At(q, i) # None /\ q[i] \in DOMAIN KidList(At(q, i - 1)) /\ At(q, i) = KidList(At(q, i - 1))[q[i]]
  BY <1>2, <1>3 DEF Follows
<1>5. \A i, j \in 1..Len(q) : At(q, i) = At(q, j) => i = j
  BY <1>2, <1>3
<1>. QED
  BY <1>2, <1>4, <1>5 DEF Way

\* The beginning of a way is one.
LEMMA WayBegins ==
    ASSUME NEW q, Way(q), NEW p \in Seq(Nat), Begins(p, q)
    PROVE  Way(p) /\ \A i \in 0..Len(p) : At(p, i) = At(q, i)
<1>. DEFINE f == [i \in 0..Len(p) |-> At(q, i)]
<1>1. /\ Len(p) \in Nat /\ Len(q) \in Nat /\ Len(p) <= Len(q) /\ \A i \in 1..Len(p) : p[i] = q[i]
  BY DEF Way, Begins
<1>2. \A i \in 1..Len(p) : i \in 1..Len(q) /\ i \in 0..Len(p) /\ i - 1 \in 0..Len(p)
  BY <1>1
<1>3. DOMAIN f = 0..Len(p) /\ \A i \in 0..Len(p) : f[i] = At(q, i)
  OBVIOUS
<1>4. f[0] = None
  BY <1>1 DEF At
<1>. HIDE DEF f
<1>5. \A i \in 1..Len(p) : f[i] # None /\ p[i] \in DOMAIN KidList(f[i - 1]) /\ f[i] = KidList(f[i - 1])[p[i]]
  BY <1>1, <1>2, <1>3 DEF Way
<1>6. Follows(f, p)
  BY <1>3, <1>4, <1>5 DEF Follows
<1>7. \A i, j \in 1..Len(p) : f[i] = f[j] => i = j
  BY <1>2, <1>3 DEF Way
<1>8. Way(p) /\ \A i \in 0..Len(p) : At(p, i) = f[i]
  BY <1>6, <1>7, WayMade
<1>. QED
  BY <1>3, <1>8

\* A way goes on to a kid of its end that it has not met.
LEMMA WayGoesOn ==
    ASSUME NEW q, Way(q), NEW j \in Nat, j \in DOMAIN KidList(End(q)), KidList(End(q))[j] # None,
           \A i \in 1..Len(q) : At(q, i) # KidList(End(q))[j]
    PROVE  /\ Way(Append(q, j)) /\ End(Append(q, j)) = KidList(End(q))[j]
           /\ \A i \in 0..Len(q) : At(Append(q, j), i) = At(q, i)
<1>. DEFINE n == KidList(End(q))[j]
            m == Len(q)
            f == [i \in 0..(m + 1) |-> IF i = m + 1 THEN n ELSE At(q, i)]
            p == Append(q, j)
<1>1. q \in Seq(Nat) /\ m \in Nat
  BY DEF Way
<1>2. p \in Seq(Nat) /\ Len(p) = m + 1 /\ p[m + 1] = j /\ \A i \in 1..m : p[i] = q[i]
  BY <1>1
<1>3. DOMAIN f = 0..(m + 1) /\ f[m + 1] = n /\ f[m] = End(q) /\ \A i \in 0..m : f[i] = At(q, i)
  BY <1>1 DEF End
<1>. HIDE DEF f, p, m
<1>4. f[0] = None
  <2>1. 0 \in 0..m /\ At(q, 0) = None
    BY <1>1 DEF At
  <2>. QED
    BY <1>3, <2>1
<1>5. ASSUME NEW i \in 1..(m + 1)
      PROVE  f[i] # None /\ p[i] \in DOMAIN KidList(f[i - 1]) /\ f[i] = KidList(f[i - 1])[p[i]]
  <2>1. CASE i = m + 1
    <3>1. i - 1 = m
      BY <1>1, <2>1
    <3>. QED
      BY <1>2, <1>3, <2>1, <3>1
  <2>2. CASE i # m + 1
    <3>1. i \in 1..m /\ i \in 0..m /\ i - 1 \in 0..m
      BY <1>1, <2>2
    <3>2. p[i] = q[i] /\ f[i] = At(q, i) /\ f[i - 1] = At(q, i - 1)
      BY <1>2, <1>3, <3>1
    <3>. QED
      BY <3>1, <3>2 DEF Way, m
  <2>. QED
    BY <2>1, <2>2
<1>6. Follows(f, p)
  BY <1>2, <1>3, <1>4, <1>5 DEF Follows
<1>7. ASSUME NEW i \in 1..(m + 1), NEW k \in 1..(m + 1), f[i] = f[k] PROVE i = k
  <2>1. \A l \in 1..(m + 1) : l # m + 1 => l \in 1..m /\ f[l] = At(q, l)
    BY <1>1, <1>3
  <2>2. \A l \in 1..m : At(q, l) # n
    BY DEF m
  <2>3. \A l, o \in 1..m : At(q, l) = At(q, o) => l = o
    BY DEF Way, m
  <2>. HIDE DEF n
  <2>. QED
    BY <1>3, <1>7, <2>1, <2>2, <2>3
<1>8. Way(p) /\ \A i \in 0..(m + 1) : At(p, i) = f[i]
  BY <1>2, <1>6, <1>7, WayMade
<1>9. \A i \in 0..m : At(p, i) = At(q, i)
  BY <1>1, <1>3, <1>8
<1>10. End(p) = n
  BY <1>1, <1>2, <1>3, <1>8 DEF End
<1>. QED
  BY <1>8, <1>9, <1>10 DEF p, m

-----------------------------------------------------------------------------
(* The order in which nodes are met *)

\* The kids of nodes are sequences of nodes.
Tree == None \notin Nodes /\ \A x : KidList(x) \in Seq(Nodes)

\* dp has of each node that is met a way of nodes that are met, ...
WaysHome(dp, met) ==
    /\ dp[None] = <<>>
    /\ \A n \in met : n # None /\ Way(dp[n]) /\ End(dp[n]) = n /\ \A i \in 1..Len(dp[n]) : At(dp[n], i) \in met

\* ... which is before all others.
Soonest(dp, met) == \A n \in met, q \in Seq(Nat) : Way(q) /\ End(q) = n => q = dp[n] \/ Before(dp[n], q)

\* sp has of each node on the stack a path to it from a node that is met, in order, ...
Hung(path, n, dp, met) ==
    \E x \in met \cup {None} : \E j \in DOMAIN KidList(x) : path = Append(dp[x], j) /\ n = KidList(x)[j]

Waiting(sp, dp, st, met) ==
    /\ sp \in Seq(Seq(Nat)) /\ st \in Seq(Nodes) /\ Len(sp) = Len(st)
    /\ \A k, l \in 1..Len(st) : k < l => Before(sp[k], sp[l])
    /\ \A k \in 1..Len(st) : Hung(sp[k], st[k], dp, met)

\* ... after all that are met, ...
Later(sp, dp, st, met) == \A n \in met, k \in 1..Len(st) : Before(dp[n], sp[k])

\* ... and no kid of a node that is met is lost.
NoneLost(sp, dp, st, met) ==
    \A x \in met \cup {None} : \A j \in DOMAIN KidList(x) :
       \/ KidList(x)[j] \in met
       \/ \E k \in 1..Len(st) : st[k] = KidList(x)[j] /\ sp[k] = Append(dp[x], j)

Ordered(sp, dp, st, met) ==
    WaysHome(dp, met) /\ Soonest(dp, met) /\ Waiting(sp, dp, st, met) /\ Later(sp, dp, st, met)
    /\ NoneLost(sp, dp, st, met)

\* The way to a node that is not met begins with what waits on the stack, or comes
\* after it.
LEMMA Frontier ==
    ASSUME Tree, NEW sp, NEW dp, NEW st, NEW met, Ordered(sp, dp, st, met),
           NEW q \in Seq(Nat), Way(q), End(q) \notin met \cup {None}
    PROVE  \E k \in 1..Len(st) : st[k] \notin met /\ (sp[k] = q \/ Before(sp[k], q))
<1>. DEFINE S == {i \in 0..Len(q) : At(q, i) \notin met \cup {None}}
<1>1. Len(q) \in Nat /\ Len(q) \in S /\ S \in SUBSET Nat
  BY DEF End
<1>2. PICK i \in S : \A l \in S : ~(l < i)
  <2>. HIDE DEF S
  <2>. QED
    BY <1>1, LeastExists
<1>3. i \in 1..Len(q) /\ i - 1 \in 0..Len(q) /\ At(q, i) \notin met /\ i - 1 < i
  BY <1>1, <1>2 DEF At
<1>4. At(q, i - 1) \in met \cup {None}
  BY <1>2, <1>3
<1>. DEFINE u  == At(q, i - 1)
            j  == q[i]
            qu == SubSeq(q, 1, i - 1)
<1>5. j \in DOMAIN KidList(u) /\ At(q, i) = KidList(u)[j] /\ j \in Nat
  BY <1>3 DEF Way
<1>6. PICK k \in 1..Len(st) : st[k] = At(q, i) /\ sp[k] = Append(dp[u], j)
  <2>. HIDE DEF u, j
  <2>. QED
    BY <1>3, <1>4, <1>5 DEF Ordered, NoneLost, u
<1>7. qu \in Seq(Nat) /\ Len(qu) = i - 1 /\ \A l \in 1..(i - 1) : qu[l] = q[l]
  BY <1>3
<1>8. Begins(qu, q)
  BY <1>1, <1>3, <1>7 DEF Begins
<1>9. Way(qu) /\ End(qu) = u /\ \A l \in 0..(i - 1) : At(qu, l) = At(q, l)
  <2>. HIDE DEF qu
  <2>. QED
    BY <1>3, <1>7, <1>8, WayBegins DEF End
<1>10. CASE dp[u] = qu
  <2>1. Append(qu, j) \in Seq(Nat) /\ Begins(Append(qu, j), q)
    <3>1. Len(Append(qu, j)) = i /\ \A l \in 1..i : Append(qu, j)[l] = q[l]
      BY <1>3, <1>5, <1>7
    <3>. QED
      BY <1>3, <1>5, <1>7, <3>1 DEF Begins
  <2>2. Append(qu, j) = q \/ Before(Append(qu, j), q)
    BY <2>1, BeforeBegins
  <2>. QED
    BY <1>3, <1>6, <1>10, <2>2
<1>11. CASE dp[u] # qu
  <2>1. u # None
    <3>. SUFFICES ASSUME u = None PROVE dp[u] = qu
      BY <1>11
    <3>1. i - 1 \notin 1..Len(q)
      BY DEF Way
    <3>2. i - 1 = 0
      BY <1>3, <3>1
    <3>3. qu = <<>>
      BY <1>7, <3>2
    <3>. QED
      BY <3>3 DEF Ordered, WaysHome
  <2>2. u \in met /\ Way(dp[u]) /\ End(dp[u]) = u /\ Before(dp[u], qu)
    <3>. HIDE DEF u, qu
    <3>. QED
      BY <1>4, <1>7, <1>9, <1>11, <2>1 DEF Ordered, WaysHome, Soonest, u
  <2>3. dp[u] \in Seq(Nat) /\ Len(dp[u]) \in Nat
    BY <2>2 DEF Way
  <2>4. ~Begins(dp[u], qu)
    <3>. SUFFICES ASSUME Begins(dp[u], qu) PROVE FALSE
      OBVIOUS
    <3>. HIDE DEF u, qu
    <3>1. \A l \in 0..Len(dp[u]) : At(dp[u], l) = At(qu, l)
      BY <1>9, <2>3, WayBegins
    <3>2. At(qu, Len(dp[u])) = At(qu, Len(qu))
      BY <1>9, <2>2, <2>3, <3>1 DEF End
    <3>3. Len(dp[u]) # 0
      BY <2>1, <2>2 DEF End, At
    <3>4. Len(dp[u]) \in 1..Len(qu) /\ Len(qu) \in 1..Len(qu)
      BY <1>7, <2>3, <3>3 DEF Begins
    <3>5. Len(dp[u]) = Len(qu)
      BY <1>9, <3>2, <3>4 DEF Way
    <3>6. dp[u] = qu
      BY <1>7, <2>3, <3>5, BeginsSame
    <3>. QED
      BY <1>11, <3>6
  <2>. HIDE DEF u, qu, j
  <2>5. Before(Append(dp[u], j), qu)
    BY <1>5, <1>7, <2>2, <2>3, <2>4, BeforeGoesOn
  <2>6. qu = q \/ Before(qu, q)
    BY <1>7, <1>8, BeforeBegins
  <2>7. Append(dp[u], j) \in Seq(Nat)
    BY <1>5, <2>3
  <2>8. Before(Append(dp[u], j), q)
    BY <1>7, <2>5, <2>6, <2>7, BeforeTransitive
  <2>. QED
    BY <1>3, <1>6, <2>8
<1>. QED
  BY <1>10, <1>11

\* A node on the stack that is met is dropped.
LEMMA DropKeeps ==
    ASSUME NEW sp, NEW dp, NEW st, NEW met, Ordered(sp, dp, st, met), st # <<>>, Head(st) \in met
    PROVE  Ordered(Tail(sp), dp, Tail(st), met)
<1>. DEFINE m == Len(st)
            rest == Tail(st)
            after == Tail(sp)
<1>1. Waiting(sp, dp, st, met) /\ Later(sp, dp, st, met) /\ NoneLost(sp, dp, st, met)
  BY DEF Ordered
<1>2. sp \in Seq(Seq(Nat)) /\ st \in Seq(Nodes) /\ Len(sp) = m /\ m \in Nat /\ m > 0
  BY <1>1 DEF Waiting
<1>3. /\ rest \in Seq(Nodes) /\ Len(rest) = m - 1 /\ \A k \in 1..(m - 1) : rest[k] = st[k + 1]
      /\ after \in Seq(Seq(Nat)) /\ Len(after) = m - 1 /\ \A k \in 1..(m - 1) : after[k] = sp[k + 1]
      /\ Head(st) = st[1]
  BY <1>2
<1>4. \A k \in 1..(m - 1) : k + 1 \in 1..m
  BY <1>2
<1>. HIDE DEF rest, after, m
<1>5. Waiting(after, dp, rest, met)
  <2>1. \A k, l \in 1..(m - 1) : k < l => Before(after[k], after[l])
    <3>. SUFFICES ASSUME NEW k \in 1..(m - 1), NEW l \in 1..(m - 1), k < l PROVE Before(sp[k + 1], sp[l + 1])
      BY <1>3
    <3>1. k + 1 < l + 1
      BY <1>2
    <3>. QED
      BY <1>1, <1>4, <3>1 DEF Waiting, m
  <2>2. \A k \in 1..(m - 1) : Hung(after[k], rest[k], dp, met)
    BY <1>1, <1>3, <1>4 DEF Waiting, m
  <2>. QED
    BY <1>3, <2>1, <2>2 DEF Waiting
<1>6. Later(after, dp, rest, met)
  BY <1>1, <1>3, <1>4 DEF Later, m
<1>7. NoneLost(after, dp, rest, met)
  <2>. SUFFICES ASSUME NEW x \in met \cup {None}, NEW j \in DOMAIN KidList(x), KidList(x)[j] \notin met
                PROVE  \E k \in 1..(m - 1) : rest[k] = KidList(x)[j] /\ after[k] = Append(dp[x], j)
    BY <1>3 DEF NoneLost
  <2>1. PICK k \in 1..m : st[k] = KidList(x)[j] /\ sp[k] = Append(dp[x], j)
    BY <1>1 DEF NoneLost, m
  <2>2. k # 1
    BY <1>3, <2>1
  <2>3. k - 1 \in 1..(m - 1) /\ (k - 1) + 1 = k
    BY <1>2, <2>2
  <2>. QED
    BY <1>3, <2>1, <2>3
<1>. QED
  BY <1>5, <1>6, <1>7 DEF Ordered, rest, after

\* Two sequences, one behind the other.
LEMMA Joined ==
    ASSUME NEW S, NEW s \in Seq(S), NEW t \in Seq(S)
    PROVE  /\ s \o t \in Seq(S) /\ Len(s \o t) = Len(s) + Len(t)
           /\ \A i \in 1..(Len(s) + Len(t)) : (s \o t)[i] = IF i <= Len(s) THEN s[i] ELSE t[i - Len(s)]
OBVIOUS

\* Sequence v is t with s in the place of its head.
InPlaceOfHead(v, s, t) ==
    /\ Len(v) = Len(s) + Len(t) - 1
    /\ \A k \in 1..Len(s) : v[k] = s[k]
    /\ \A k \in 2..Len(t) : v[Len(s) + k - 1] = t[k]

\* A sequence is put in the place of the head of another.
LEMMA HeadReplaced ==
    ASSUME NEW S, NEW s \in Seq(S), NEW t \in Seq(S), t # <<>>
    PROVE  s \o Tail(t) \in Seq(S) /\ InPlaceOfHead(s \o Tail(t), s, t)
<1>. DEFINE r == Tail(t)
            c == Len(s)
            m == Len(t)
<1>1. /\ c \in Nat /\ m \in Nat /\ m > 0 /\ r \in Seq(S) /\ Len(r) = m - 1
      /\ \A k \in 1..(m - 1) : r[k] = t[k + 1]
  OBVIOUS
<1>. HIDE DEF r, m
<1>2. /\ s \o r \in Seq(S) /\ Len(s \o r) = c + (m - 1)
      /\ \A k \in 1..(c + (m - 1)) : (s \o r)[k] = IF k <= c THEN s[k] ELSE r[k - c]
  <2>1. /\ s \o r \in Seq(S) /\ Len(s \o r) = c + Len(r)
        /\ \A k \in 1..(c + Len(r)) : (s \o r)[k] = IF k <= c THEN s[k] ELSE r[k - c]
    BY <1>1, Joined
  <2>. HIDE DEF c
  <2>2. Len(r) = m - 1
    BY <1>1
  <2>. QED
    BY <2>1, <2>2, Zenon
<1>. HIDE DEF c
<1>3. \A k \in 1..c : k \in 1..(c + (m - 1)) /\ k <= c
  BY <1>1
<1>4. ASSUME NEW k \in 2..m PROVE (s \o r)[c + k - 1] = t[k]
  <2>1. /\ c + k - 1 \in 1..(c + (m - 1)) /\ ~(c + k - 1 <= c) /\ c + k - 1 - c = k - 1
        /\ k - 1 \in 1..(m - 1) /\ (k - 1) + 1 = k
    BY <1>1
  <2>. DEFINE i == c + k - 1
  <2>2. i \in 1..(c + (m - 1)) /\ ~(i <= c) /\ i - c = k - 1
    BY <1>1
  <2>. HIDE DEF i
  <2>3. (s \o r)[i] = r[k - 1]
    BY <1>2, <2>2, Zenon
  <2>. QED
    BY <1>1, <2>1, <2>3 DEF i
<1>5. c + (m - 1) = c + m - 1
  BY <1>1
<1>. QED
  BY <1>2, <1>3, <1>4, <1>5 DEF InPlaceOfHead, r, c, m

\* The paths that go on from p to each of n kids.
Onward(p, n) == [j \in 1..n |-> Append(p, j)]

\* A node that is met leaves the stack to its kids.
LEMMA VisitKeeps ==
    ASSUME Tree, NEW sp, NEW dp, NEW st, NEW met, Ordered(sp, dp, st, met), st # <<>>, Head(st) \notin met,
           NEW spn, NEW dpn, NEW stn,
           spn = Onward(sp[1], Len(KidList(Head(st)))) \o Tail(sp),
           stn = KidList(Head(st)) \o Tail(st),
           dpn = [x \in met \cup {None, Head(st)} |-> IF x = Head(st) THEN sp[1] ELSE dp[x]]
    PROVE  Ordered(spn, dpn, stn, met \cup {Head(st)})
<1>. DEFINE n == Head(st)
            m == Len(st)
            p == sp[1]
            kids == KidList(n)
            c == Len(kids)
            fresh == Onward(p, c)
            now == met \cup {n}
<1>1. Waiting(sp, dp, st, met) /\ Later(sp, dp, st, met) /\ NoneLost(sp, dp, st, met)
      /\ WaysHome(dp, met) /\ Soonest(dp, met)
  BY DEF Ordered
<1>2. sp \in Seq(Seq(Nat)) /\ st \in Seq(Nodes) /\ Len(sp) = m /\ Len(st) = m /\ m \in Nat /\ m > 0
  BY <1>1 DEF Waiting
<1>3. n = st[1] /\ n \in Nodes /\ n # None /\ p \in Seq(Nat) /\ 1 \in 1..m
  <2>1. n = st[1] /\ n \in Nodes /\ p \in Seq(Nat) /\ 1 \in 1..m
    BY <1>2
  <2>. QED
    BY <2>1 DEF Tree
<1>4. kids \in Seq(Nodes) /\ c \in Nat /\ DOMAIN kids = 1..c
  <2>1. kids \in Seq(Nodes)
    BY DEF Tree
  <2>. QED
    BY <2>1
<1>5. dpn[n] = p /\ \A x \in met \cup {None} : x # n /\ dpn[x] = dp[x]
  <2>1. \A x \in met \cup {None} : x # n
    BY <1>3
  <2>. QED
    BY <2>1
<1>6. \A k \in 1..c : k \in Nat /\ fresh[k] = Append(p, k) /\ Append(p, k) \in Seq(Nat) /\ Before(p, Append(p, k))
  <2>1. \A k \in 1..c : k \in Nat /\ fresh[k] = Append(p, k)
    BY DEF Onward
  <2>. QED
    BY <1>3, <2>1, BeforeAppend
<1>7. fresh \in Seq(Seq(Nat)) /\ Len(fresh) = c
  BY <1>4, <1>6 DEF Onward
<1>8. /\ Len(spn) = c + m - 1 /\ Len(stn) = c + m - 1
      /\ spn \in Seq(Seq(Nat)) /\ stn \in Seq(Nodes)
      /\ \A k \in 1..c : spn[k] = fresh[k] /\ stn[k] = kids[k]
      /\ \A k \in 2..m : spn[c + k - 1] = sp[k] /\ stn[c + k - 1] = st[k]
  <2>1. spn = fresh \o Tail(sp) /\ stn = kids \o Tail(st) /\ Len(kids) = c /\ sp # <<>>
    BY <1>2
  <2>. HIDE DEF kids, fresh, c, m, n, p
  <2>2. /\ stn \in Seq(Nodes) /\ Len(stn) = c + m - 1
        /\ \A k \in 1..c : stn[k] = kids[k]
        /\ \A k \in 2..m : stn[c + k - 1] = st[k]
    <3>1. stn \in Seq(Nodes) /\ InPlaceOfHead(stn, kids, st)
      BY <1>2, <1>4, <2>1, HeadReplaced
    <3>. QED
      BY <1>2, <2>1, <3>1 DEF InPlaceOfHead
  <2>3. /\ spn \in Seq(Seq(Nat)) /\ Len(spn) = c + m - 1
        /\ \A k \in 1..c : spn[k] = fresh[k]
        /\ \A k \in 2..m : spn[c + k - 1] = sp[k]
    <3>1. spn \in Seq(Seq(Nat)) /\ InPlaceOfHead(spn, fresh, sp)
      BY <1>2, <1>7, <2>1, HeadReplaced
    <3>. QED
      BY <1>2, <1>7, <2>1, <3>1 DEF InPlaceOfHead
  <2>. QED
    BY <2>2, <2>3
<1>. HIDE DEF fresh, c, m
<1>b. \A k \in 2..m : k \in 1..m
  BY <1>2
<1>9. /\ \A k \in 1..c : k \in 1..(c + m - 1) /\ spn[k] = Append(p, k) /\ stn[k] = kids[k]
      /\ \A k \in 2..m : c + k - 1 \in 1..(c + m - 1) /\ spn[c + k - 1] = sp[k] /\ stn[c + k - 1] = st[k]
      /\ \A k \in 1..(c + m - 1) : k \in 1..c \/ (k - c + 1 \in 2..m /\ spn[k] = sp[k - c + 1] /\ stn[k] = st[k - c + 1])
  <2>. HIDE DEF kids, n, p
  <2>1. /\ \A k \in 1..c : k \in 1..(c + m - 1)
        /\ \A k \in 2..m : c + k - 1 \in 1..(c + m - 1)
        /\ \A k \in 1..(c + m - 1) : k \in 1..c \/ (k - c + 1 \in 2..m /\ c + (k - c + 1) - 1 = k)
    BY <1>2, <1>4
  <2>. QED
    BY <1>6, <1>8, <2>1
\* The way of n.
<1>a. PICK x \in met \cup {None} : \E j \in DOMAIN KidList(x) : p = Append(dp[x], j) /\ n = KidList(x)[j]
  <2>1. Hung(sp[1], st[1], dp, met)
    BY <1>1, <1>3 DEF Waiting, m
  <2>. QED
    BY <1>3, <2>1 DEF Hung
<1>10. PICK j \in DOMAIN KidList(x) : p = Append(dp[x], j) /\ n = KidList(x)[j]
  BY <1>a
<1>11. /\ Way(dp[x]) /\ End(dp[x]) = x /\ dp[x] \in Seq(Nat)
       /\ \A i \in 1..Len(dp[x]) : At(dp[x], i) \in met
  <2>1. CASE x = None
    <3>1. dp[x] = <<>> /\ <<>> \in Seq(Nat) /\ Len(<<>>) = 0
      BY <1>1, <2>1 DEF WaysHome
    <3>2. Way(<<>>) /\ End(<<>>) = None
      BY <3>1 DEF Way, End, At
    <3>. QED
      BY <2>1, <3>1, <3>2
  <2>2. CASE x # None
    <3>1. x \in met
      BY <2>2
    <3>. QED
      BY <1>1, <3>1 DEF WaysHome, Way
  <2>. QED
    BY <2>1, <2>2
<1>12. j \in Nat
  <2>1. KidList(x) \in Seq(Nodes)
    BY DEF Tree
  <2>. QED
    BY <2>1
<1>13. Way(p) /\ End(p) = n /\ Len(p) = Len(dp[x]) + 1 /\ \A i \in 0..Len(dp[x]) : At(p, i) = At(dp[x], i)
  <2>1. \A i \in 1..Len(dp[x]) : At(dp[x], i) # KidList(x)[j]
    BY <1>10, <1>11
  <2>2. KidList(x)[j] # None /\ KidList(x)[j] = n
    BY <1>3, <1>10
  <2>3. Len(p) = Len(dp[x]) + 1
    BY <1>10, <1>11, <1>12
  <2>. HIDE DEF n, p
  <2>. QED
    BY <1>10, <1>11, <1>12, <2>1, <2>2, <2>3, WayGoesOn
<1>14. \A i \in 1..Len(p) : At(p, i) \in now
  <2>. SUFFICES ASSUME NEW i \in 1..Len(p) PROVE At(p, i) \in now
    OBVIOUS
  <2>1. CASE i = Len(p)
    BY <1>13, <2>1 DEF End
  <2>2. CASE i # Len(p)
    <3>1. i \in 1..Len(dp[x]) /\ i \in 0..Len(dp[x])
      BY <1>11, <1>13, <2>2
    <3>. QED
      BY <1>11, <1>13, <3>1
  <2>. QED
    BY <2>1, <2>2
<1>15. WaysHome(dpn, now)
  <2>. HIDE DEF n, p
  <2>1. dpn[None] = <<>>
    BY <1>1, <1>5 DEF WaysHome
  <2>2. ASSUME NEW y \in now
        PROVE  y # None /\ Way(dpn[y]) /\ End(dpn[y]) = y /\ \A i \in 1..Len(dpn[y]) : At(dpn[y], i) \in now
    <3>1. CASE y = n
      BY <1>3, <1>5, <1>13, <1>14, <3>1
    <3>2. CASE y # n
      BY <1>1, <1>5, <3>2 DEF WaysHome
    <3>. QED
      BY <3>1, <3>2
  <2>. HIDE DEF now
  <2>. QED
    BY <2>1, <2>2 DEF WaysHome
<1>16. Soonest(dpn, now)
  <2>. SUFFICES ASSUME NEW y \in now, NEW q \in Seq(Nat), Way(q), End(q) = y
                PROVE  q = dpn[y] \/ Before(dpn[y], q)
    BY DEF Soonest
  <2>1. CASE y = n
    <3>1. PICK k \in 1..m : st[k] \notin met /\ (sp[k] = q \/ Before(sp[k], q))
      BY <1>3, <2>1, Frontier DEF m
    <3>2. CASE k = 1
      BY <1>5, <2>1, <3>1, <3>2
    <3>3. CASE k # 1
      <4>1. Before(p, sp[k]) /\ sp[k] \in Seq(Nat)
        <5>1. 1 < k /\ sp[k] \in Seq(Nat)
          BY <1>2, <3>3
        <5>. QED
          BY <1>1, <1>3, <5>1 DEF Waiting, m
      <4>. HIDE DEF p, n
      <4>2. Before(p, q)
        BY <1>3, <3>1, <4>1, BeforeTransitive
      <4>. QED
        BY <1>5, <2>1, <4>2
    <3>. QED
      BY <3>2, <3>3
  <2>2. CASE y # n
    BY <1>1, <1>5, <2>2 DEF Soonest
  <2>. QED
    BY <2>1, <2>2
\* The kids of n come before what waits already, which does not go on from n.
<1>17. ASSUME NEW k \in 2..m PROVE Before(p, sp[k]) /\ sp[k] \in Seq(Nat) /\ ~Begins(p, sp[k])
  <2>1. k \in 1..m /\ 1 < k
    BY <1>2
  <2>2. Before(p, sp[k]) /\ sp[k] \in Seq(Nat)
    BY <1>1, <1>2, <1>3, <2>1 DEF Waiting, m
  <2>a. PICK y \in met \cup {None} : \E i \in DOMAIN KidList(y) : sp[k] = Append(dp[y], i) /\ st[k] = KidList(y)[i]
    BY <1>1, <2>1 DEF Waiting, Hung, m
  <2>3. PICK i \in DOMAIN KidList(y) : sp[k] = Append(dp[y], i) /\ st[k] = KidList(y)[i]
    BY <2>a
  <2>4. i \in Nat
    <3>1. KidList(y) \in Seq(Nodes)
      BY DEF Tree
    <3>. QED
      BY <3>1
  <2>5. Way(dp[y]) /\ dp[y] \in Seq(Nat) /\ \A l \in 1..Len(dp[y]) : At(dp[y], l) \in met
    <3>1. CASE y = None
      <4>1. dp[y] = <<>> /\ <<>> \in Seq(Nat) /\ Len(<<>>) = 0
        BY <1>1, <3>1 DEF WaysHome
      <4>2. Way(<<>>)
        BY <4>1 DEF Way
      <4>. QED
        BY <4>1, <4>2
    <3>2. CASE y # None
      BY <1>1, <3>2 DEF WaysHome, Way
    <3>. QED
      BY <3>1, <3>2
  <2>6. ~Begins(p, sp[k])
    <3>. SUFFICES ASSUME Begins(p, sp[k]) PROVE FALSE
      OBVIOUS
    <3>. HIDE DEF p, n
    <3>1. /\ Len(p) \in Nat /\ Len(p) >= 1 /\ Len(dp[y]) \in Nat /\ Len(sp[k]) = Len(dp[y]) + 1
          /\ Len(p) <= Len(sp[k])
          /\ \A l \in 1..Len(p) : p[l] = sp[k][l]
          /\ \A l \in 1..Len(dp[y]) : sp[k][l] = dp[y][l]
      <4>1. Len(p) \in Nat /\ Len(dp[x]) \in Nat /\ Len(dp[y]) \in Nat
        BY <1>3, <1>11, <2>5
      <4>2. Len(sp[k]) = Len(dp[y]) + 1 /\ \A l \in 1..Len(dp[y]) : sp[k][l] = dp[y][l]
        BY <2>3, <2>4, <2>5
      <4>3. Len(p) <= Len(sp[k]) /\ \A l \in 1..Len(p) : p[l] = sp[k][l]
        BY DEF Begins
      <4>. QED
        <5>1. Len(p) = Len(dp[x]) + 1
          BY <1>13
        <5>2. Len(p) >= 1
          BY <4>1, <5>1
        <5>. QED
          BY <4>1, <4>2, <4>3, <5>2
    <3>2. CASE Len(p) <= Len(dp[y])
      <4>1. Begins(p, dp[y])
        BY <3>1, <3>2 DEF Begins
      <4>2. At(p, Len(p)) = At(dp[y], Len(p))
        BY <1>3, <2>5, <3>1, <4>1, WayBegins
      <4>3. Len(p) \in 1..Len(dp[y])
        BY <3>1, <3>2
      <4>4. n \in met
        BY <1>13, <2>5, <4>2, <4>3 DEF End
      <4>. QED
        BY <4>4 DEF n
    <3>3. CASE ~(Len(p) <= Len(dp[y]))
      <4>1. Len(p) = Len(sp[k])
        BY <3>1, <3>3
      <4>2. p = sp[k]
        BY <1>3, <2>2, <4>1, BeginsSame
      <4>. QED
        BY <1>3, <2>2, <4>2 DEF Before
    <3>. QED
      BY <3>2, <3>3
  <2>. QED
    BY <2>2, <2>6
<1>18. \A k \in 2..m, i \in 1..c : Before(Append(p, i), sp[k])
  <2>. HIDE DEF p
  <2>. QED
    BY <1>3, <1>6, <1>17, BeforeGoesOn
<1>19. Waiting(spn, dpn, stn, now)
  <2>1. ASSUME NEW k \in 1..Len(stn), NEW l \in 1..Len(stn), k < l PROVE Before(spn[k], spn[l])
    <3>0. k \in 1..(c + m - 1) /\ l \in 1..(c + m - 1)
      BY <1>8
    <3>1. CASE k \in 1..c /\ l \in 1..c
      <4>. HIDE DEF p
      <4>1. Before(Append(p, k), Append(p, l))
        BY <1>3, <1>6, <2>1, <3>1, BeforeAppend
      <4>. QED
        BY <1>9, <3>1, <4>1
    <3>2. CASE k \in 1..c /\ l \notin 1..c
      BY <1>9, <1>18, <3>0, <3>2
    <3>3. CASE k \notin 1..c
      <4>1. l \notin 1..c
        BY <1>4, <2>1, <3>0, <3>3
      <4>2. k - c + 1 < l - c + 1 /\ k - c + 1 \in 1..m /\ l - c + 1 \in 1..m
        BY <1>2, <1>4, <1>9, <2>1, <3>0, <3>3, <4>1
      <4>3. Before(sp[k - c + 1], sp[l - c + 1])
        BY <1>1, <4>2 DEF Waiting, m
      <4>. QED
        BY <1>9, <3>0, <3>3, <4>1, <4>3
    <3>. QED
      BY <3>1, <3>2, <3>3
  <2>2. ASSUME NEW k \in 1..Len(stn) PROVE Hung(spn[k], stn[k], dpn, now)
    <3>0. k \in 1..(c + m - 1)
      BY <1>8
    <3>1. CASE k \in 1..c
      <4>1. spn[k] = Append(dpn[n], k) /\ stn[k] = KidList(n)[k] /\ k \in DOMAIN KidList(n)
        BY <1>4, <1>5, <1>9, <3>1
      <4>. HIDE DEF n
      <4>. QED
        BY <4>1 DEF Hung
    <3>2. CASE k \notin 1..c
      <4>0. k - c + 1 \in 2..m /\ spn[k] = sp[k - c + 1] /\ stn[k] = st[k - c + 1]
        BY <1>9, <3>0, <3>2
      <4>1. k - c + 1 \in 1..m /\ spn[k] = sp[k - c + 1] /\ stn[k] = st[k - c + 1]
        BY <1>b, <4>0
      <4>2. Hung(spn[k], stn[k], dp, met)
        BY <1>1, <4>1 DEF Waiting, m
      <4>a. PICK y \in met \cup {None} :
               \E i \in DOMAIN KidList(y) : spn[k] = Append(dp[y], i) /\ stn[k] = KidList(y)[i]
        BY <4>2 DEF Hung
      <4>3. PICK i \in DOMAIN KidList(y) : spn[k] = Append(dp[y], i) /\ stn[k] = KidList(y)[i]
        BY <4>a
      <4>4. dpn[y] = dp[y] /\ y \in now \cup {None}
        BY <1>5
      <4>. HIDE DEF n, now
      <4>. QED
        BY <4>3, <4>4 DEF Hung
    <3>. QED
      BY <3>1, <3>2
  <2>3. Len(spn) = Len(stn)
    BY <1>8
  <2>. HIDE DEF now, n
  <2>. QED
    BY <1>8, <2>1, <2>2, <2>3 DEF Waiting
<1>20. Later(spn, dpn, stn, now)
  <2>. SUFFICES ASSUME NEW y \in now, NEW k \in 1..Len(stn) PROVE Before(dpn[y], spn[k])
    BY DEF Later
  <2>0. k \in 1..(c + m - 1)
    BY <1>8
  <2>1. CASE k \in 1..c
    <3>1. spn[k] = Append(p, k) /\ Before(p, Append(p, k)) /\ Append(p, k) \in Seq(Nat)
      BY <1>6, <1>9, <2>1
    <3>2. CASE y = n
      BY <1>5, <3>1, <3>2
    <3>3. CASE y # n
      <4>1. y \in met /\ dpn[y] = dp[y]
        BY <1>5, <3>3
      <4>2. Before(dp[y], p) /\ dp[y] \in Seq(Nat)
        BY <1>1, <1>3, <4>1 DEF Later, WaysHome, Way, m
      <4>. HIDE DEF p
      <4>3. Before(dp[y], Append(p, k))
        BY <1>3, <3>1, <4>2, BeforeTransitive
      <4>. QED
        BY <3>1, <4>1, <4>3
    <3>. QED
      BY <3>2, <3>3
  <2>2. CASE k \notin 1..c
    <3>0. k - c + 1 \in 2..m /\ spn[k] = sp[k - c + 1]
      BY <1>9, <2>0, <2>2
    <3>1. k - c + 1 \in 2..m /\ k - c + 1 \in 1..m /\ spn[k] = sp[k - c + 1]
      BY <1>b, <3>0
    <3>2. CASE y = n
      BY <1>5, <1>17, <3>1, <3>2
    <3>3. CASE y # n
      <4>1. y \in met /\ dpn[y] = dp[y]
        BY <1>5, <3>3
      <4>. QED
        BY <1>1, <3>1, <4>1 DEF Later, m
    <3>. QED
      BY <3>2, <3>3
  <2>. QED
    BY <2>1, <2>2
<1>21. NoneLost(spn, dpn, stn, now)
  <2>. HIDE DEF now
  <2>. SUFFICES ASSUME NEW y \in now \cup {None}, NEW i \in DOMAIN KidList(y), KidList(y)[i] \notin now
                PROVE  \E k \in 1..Len(stn) : stn[k] = KidList(y)[i] /\ spn[k] = Append(dpn[y], i)
    BY Zenon DEF NoneLost
  <2>. USE DEF now
  <2>1. CASE y = n
    <3>1. i \in 1..c /\ i \in 1..Len(stn) /\ stn[i] = KidList(y)[i] /\ spn[i] = Append(dpn[y], i)
      BY <1>4, <1>5, <1>8, <1>9, <2>1
    <3>. QED
      BY <3>1
  <2>2. CASE y # n
    <3>1. y \in met \cup {None} /\ dpn[y] = dp[y]
      BY <1>5, <2>2
    <3>2. PICK k \in 1..m : st[k] = KidList(y)[i] /\ sp[k] = Append(dp[y], i)
      BY <1>1, <3>1 DEF NoneLost, m
    <3>3. k # 1
      BY <1>3, <3>2
    <3>4. k \in 2..m
      BY <1>2, <3>3
    <3>5. c + k - 1 \in 1..Len(stn) /\ stn[c + k - 1] = KidList(y)[i] /\ spn[c + k - 1] = Append(dpn[y], i)
      BY <1>8, <1>9, <3>1, <3>2, <3>4
    <3>. QED
      BY <3>5
  <2>. QED
    BY <2>1, <2>2
<1>. QED
  BY <1>15, <1>16, <1>19, <1>20, <1>21 DEF Ordered

-----------------------------------------------------------------------------
(* Ways while the tree stays *)

\* A kid of an inner node is a node.
LEMMA KidsAreNodes ==
    ASSUME NEW n, IsInner(n)
    PROVE  Members(KidsOf(n)) \subseteq Nodes
<1>1. n \in {m \in Numbers \cup MadeUp : IsInner(m)}
  BY DEF IsInner, HasDictionary
<1>. QED
  BY <1>1 DEF Nodes

\* The members of a sequence of numbers are numbers.
LEMMA MembersOfNumbers ==
    ASSUME NEW s \in Seq(Nat)
    PROVE  Members(s) \subseteq Nat
BY DEF Members

\* What is in the files is a tree of sequences.
LEMMA TreeIf == file \in Files /\ root_kids \in Seq(Nat) => Tree /\ Nodes \subseteq Nat
<1>. SUFFICES ASSUME file \in Files, root_kids \in Seq(Nat) PROVE Tree /\ Nodes \subseteq Nat
  OBVIOUS
<1>1. ASSUME NEW n, IsInner(n) PROVE Members(KidsOf(n)) \subseteq Nat /\ KidsOf(n) \in Seq(Nodes)
  <2>1. KidsOf(n) \in Seq(Nat) /\ KidsOf(n) \in Seq(Members(KidsOf(n)))
    BY <1>1, KidsOfType
  <2>. QED
    BY <1>1, <2>1, KidsAreNodes, MembersOfNumbers
<1>2. Members(root_kids) \subseteq Nat /\ Members(root_kids) \subseteq Nodes
  BY MembersOfNumbers DEF Nodes
<1>3. Nodes \subseteq Nat
  BY <1>1, <1>2 DEF Nodes
<1>4. None \notin Nodes
  BY <1>3, NoneAssumption
<1>5. root_kids \in Seq(Nodes)
  <2>1. root_kids \in Seq(Members(root_kids))
    BY SequenceOfMembers
  <2>. QED
    BY <1>2, <2>1
<1>6. ASSUME NEW x PROVE KidList(x) \in Seq(Nodes)
  <2>1. CASE x = None
    BY <1>5, <2>1 DEF KidList
  <2>2. CASE x # None /\ IsInner(x)
    BY <1>1, <2>2 DEF KidList
  <2>3. CASE x # None /\ ~IsInner(x)
    BY <2>3 DEF KidList
  <2>. QED
    BY <2>1, <2>2, <2>3
<1>. QED
  BY <1>3, <1>4, <1>6 DEF Tree

\* A way is what it has come to.
LEMMA WayFollows ==
    \A q : Way(q) => \E f : Follows(f, q) /\ \A i \in 0..Len(q) : At(q, i) = f[i]
<1>. SUFFICES ASSUME NEW q, Way(q) PROVE \E f : Follows(f, q) /\ \A i \in 0..Len(q) : At(q, i) = f[i]
  OBVIOUS
<1>. DEFINE f == [i \in 0..Len(q) |-> At(q, i)]
<1>1. q \in Seq(Nat) /\ Len(q) \in Nat
  BY DEF Way
<1>2. \A i \in 1..Len(q) : i \in 0..Len(q) /\ i - 1 \in 0..Len(q)
  BY <1>1
<1>3. DOMAIN f = 0..Len(q) /\ \A i \in 0..Len(q) : f[i] = At(q, i)
  OBVIOUS
<1>4. f[0] = None
  BY <1>1 DEF At
<1>. HIDE DEF f
<1>5. \A i \in 1..Len(q) : f[i] # None /\ q[i] \in DOMAIN KidList(f[i - 1]) /\ f[i] = KidList(f[i - 1])[q[i]]
  BY <1>2, <1>3 DEF Way
<1>6. Follows(f, q)
  BY <1>3, <1>4, <1>5 DEF Follows
<1>. QED
  BY <1>3, <1>6

\* What follows a path has come to the same nodes.
LEMMA FollowsIsAt ==
    \A q \in Seq(Nat) : \A f : Follows(f, q) => \A i \in 0..Len(q) : At(q, i) = f[i]
<1>. SUFFICES ASSUME NEW q \in Seq(Nat), NEW f, Follows(f, q) PROVE \A i \in 0..Len(q) : At(q, i) = f[i]
  OBVIOUS
<1>1. Len(q) \in Nat
  OBVIOUS
<1>. QED
  BY <1>1, WalkOf

\* A step that leaves the tree as it is leaves the ways to its nodes as they are.
LEMMA SameWays ==
    ASSUME UNCHANGED <<file, root_kids>>
    PROVE  /\ \A x : KidList(x)' = KidList(x)
           /\ \A q : Way(q)' <=> Way(q)
           /\ \A q : Way(q) => \A i \in 0..Len(q) : At(q, i)' = At(q, i)
<1>1. \A x : KidList(x)' = KidList(x)
  BY SameTree DEF KidList
<1>2. \A f, q : Follows(f, q)' <=> Follows(f, q)
  BY <1>1 DEF Follows
<1>3. (\A q \in Seq(Nat) : \A f : Follows(f, q) => \A i \in 0..Len(q) : At(q, i) = f[i])'
  BY FollowsIsAt, PTL
<1>4. (\A q : Way(q) => \E f : Follows(f, q) /\ \A i \in 0..Len(q) : At(q, i) = f[i])'
  BY WayFollows, PTL
<1>5. ASSUME NEW q, Way(q) PROVE \A i \in 0..Len(q) : At(q, i)' = At(q, i)
  <2>1. PICK f : Follows(f, q) /\ \A i \in 0..Len(q) : At(q, i) = f[i]
    BY <1>5, WayFollows
  <2>2. q \in Seq(Nat)
    BY <1>5 DEF Way
  <2>. QED
    BY <1>2, <1>3, <2>1, <2>2
<1>6. ASSUME NEW q, Way(q)' PROVE \A i \in 0..Len(q) : At(q, i)' = At(q, i)
  <2>1. PICK f : Follows(f, q)' /\ \A i \in 0..Len(q) : At(q, i)' = f[i]
    BY <1>4, <1>6
  <2>2. q \in Seq(Nat)
    BY <1>6 DEF Way
  <2>. QED
    BY <1>2, <2>1, <2>2, FollowsIsAt
<1>7. ASSUME NEW q, q \in Seq(Nat), \A i \in 0..Len(q) : At(q, i)' = At(q, i) PROVE Way(q)' <=> Way(q)
  <2>1. \A i \in 1..Len(q) : i \in 0..Len(q) /\ i - 1 \in 0..Len(q)
    BY <1>7
  <2>. QED
    BY <1>1, <1>7, <2>1 DEF Way
<1>8. ASSUME NEW q PROVE Way(q)' <=> Way(q)
  <2>1. CASE Way(q)
    <3>1. q \in Seq(Nat)
      BY <2>1 DEF Way
    <3>. QED
      BY <1>5, <1>7, <2>1, <3>1
  <2>2. CASE Way(q)'
    <3>1. q \in Seq(Nat)
      BY <2>2 DEF Way
    <3>. QED
      BY <1>6, <1>7, <2>2, <3>1
  <2>. QED
    BY <2>1, <2>2
<1>. QED
  BY <1>1, <1>5, <1>8

-----------------------------------------------------------------------------
(* The order of the pages *)

\* The pages found so far are in the order of the ways to them.
InOrder(dp) == \A i, j \in DOMAIN page_refs : i < j => Before(dp[page_refs[i]], dp[page_refs[j]])

OrderInv ==
    pc # "idle" =>
       /\ root_kids \in Seq(Nat)
       /\ \E sp, dp : Ordered(sp, dp, stack, visited) /\ InOrder(dp)

\* What is known of the order depends on the tree and on what is met and waits.
LEMMA OrderedNext ==
    ASSUME UNCHANGED <<file, root_kids>>, NEW sp, NEW dp, NEW st, NEW met,
           Ordered(sp, dp, st, met), stack' = st, visited' = met
    PROVE  Ordered(sp, dp, stack, visited)'
<1>1. /\ \A x : KidList(x)' = KidList(x)
      /\ \A q : Way(q)' <=> Way(q)
      /\ \A q : Way(q) => \A i \in 0..Len(q) : At(q, i)' = At(q, i)
      /\ Nodes' = Nodes
  BY SameWays, SameTree
<1>2. ASSUME NEW q, Way(q) PROVE End(q)' = End(q) /\ \A i \in 1..Len(q) : At(q, i)' = At(q, i)
  <2>1. q \in Seq(Nat)
    BY <1>2 DEF Way
  <2>2. Len(q) \in 0..Len(q) /\ \A i \in 1..Len(q) : i \in 0..Len(q)
    BY <2>1
  <2>. QED
    BY <1>1, <1>2, <2>2 DEF End
<1>3. WaysHome(dp, visited)'
  <2>1. WaysHome(dp, met)
    BY DEF Ordered
  <2>. QED
    BY <1>1, <1>2, <2>1 DEF WaysHome
<1>4. Soonest(dp, visited)'
  <2>1. Soonest(dp, met)
    BY DEF Ordered
  <2>. QED
    BY <1>1, <1>2, <2>1 DEF Soonest
<1>5. Waiting(sp, dp, stack, visited)'
  <2>1. Waiting(sp, dp, st, met)
    BY DEF Ordered
  <2>. QED
    BY <1>1, <2>1 DEF Waiting, Hung
<1>6. Later(sp, dp, stack, visited)'
  <2>1. Later(sp, dp, st, met)
    BY DEF Ordered
  <2>. QED
    BY <2>1 DEF Later
<1>7. NoneLost(sp, dp, stack, visited)'
  <2>1. NoneLost(sp, dp, st, met)
    BY DEF Ordered
  <2>. QED
    BY <1>1, <2>1 DEF NoneLost
<1>. QED
  BY <1>3, <1>4, <1>5, <1>6, <1>7 DEF Ordered

\* A node that is met leaves the order as it is, also if it is a page.
LEMMA PopOrders == ASSUME IInv, OrderInv, PopNode PROVE OrderInv'
<1>. DEFINE n    == Head(stack)
            kids == IF IsInner(n) THEN KidsOf(n) ELSE <<>>
<1>1. pc = "flatten" /\ pc' = "flatten" /\ stack # <<>> /\ UNCHANGED <<file, root_kids>>
  BY DEF PopNode
<1>2. PICK sp : \E dp : Ordered(sp, dp, stack, visited) /\ InOrder(dp)
  BY <1>1 DEF OrderInv
<1>3. PICK dp : Ordered(sp, dp, stack, visited) /\ InOrder(dp)
  BY <1>2
<1>4. root_kids' \in Seq(Nat) /\ root_kids \in Seq(Nat) /\ file \in Files
  BY <1>1 DEF OrderInv, IInv
<1>5. Tree
  BY <1>4, TreeIf
<1>6. page_refs \in Seq(visited) /\ DOMAIN page_refs = 1..Len(page_refs) /\ Len(page_refs) \in Nat
      /\ \A i \in DOMAIN page_refs : page_refs[i] \in visited
  BY DEF IInv, IndexInv
<1>7. CASE n \in visited
  <2>1. stack' = Tail(stack) /\ UNCHANGED <<visited, page_refs>>
    BY <1>7 DEF PopNode
  <2>. DEFINE rest == Tail(stack)
  <2>2. Ordered(Tail(sp), dp, rest, visited)
    BY <1>1, <1>3, <1>7, DropKeeps
  <2>3. stack' = rest /\ visited' = visited
    BY <2>1
  <2>. HIDE DEF rest
  <2>4. Ordered(Tail(sp), dp, stack, visited)'
    BY <1>1, <2>2, <2>3, OrderedNext
  <2>5. InOrder(dp)'
    BY <1>3, <2>1 DEF InOrder
  <2>. QED
    BY <1>4, <2>4, <2>5 DEF OrderInv
<1>8. CASE n \notin visited
  <2>1. /\ visited' = visited \cup {n}
        /\ page_refs' = IF IsLeaf(n) THEN Append(page_refs, n) ELSE page_refs
        /\ stack' = kids \o Tail(stack)
    BY <1>8 DEF PopNode
  <2>2. Waiting(sp, dp, stack, visited) /\ Later(sp, dp, stack, visited)
    BY <1>3 DEF Ordered
  <2>3. n = stack[1] /\ n # None /\ 1 \in 1..Len(stack)
    <3>1. stack \in Seq(Nodes)
      BY <2>2 DEF Waiting
    <3>2. n = stack[1] /\ n \in Nodes /\ 1 \in 1..Len(stack)
      BY <1>1, <3>1
    <3>. QED
      BY <1>5, <3>2 DEF Tree
  <2>4. kids = KidList(n)
    BY <2>3 DEF KidList
  <2>. DEFINE spn == Onward(sp[1], Len(KidList(Head(stack)))) \o Tail(sp)
              dpn == [x \in visited \cup {None, Head(stack)} |-> IF x = Head(stack) THEN sp[1] ELSE dp[x]]
              stn == KidList(Head(stack)) \o Tail(stack)
  <2>5. Ordered(spn, dpn, stn, visited \cup {Head(stack)})
    <3>. HIDE DEF kids
    <3>. QED
      BY <1>1, <1>3, <1>5, <1>8, VisitKeeps
  <2>6. dpn[n] = sp[1] /\ \A x \in visited : dpn[x] = dp[x]
    BY <1>8
  <2>7. stack' = stn /\ visited' = visited \cup {Head(stack)}
    BY <2>1, <2>4
  <2>. HIDE DEF spn, dpn, stn
  <2>8. PICK spf : spf = spn
    OBVIOUS
  <2>9. PICK dpf : dpf = dpn
    OBVIOUS
  <2>10. Ordered(spf, dpf, stack, visited)'
    BY <1>1, <2>5, <2>7, <2>8, <2>9, OrderedNext
  <2>11. ASSUME NEW i \in DOMAIN page_refs', NEW j \in DOMAIN page_refs', i < j
        PROVE  Before(dpn[page_refs'[i]], dpn[page_refs'[j]])
    <3>1. ASSUME i \in DOMAIN page_refs, j \in DOMAIN page_refs,
                 page_refs'[i] = page_refs[i], page_refs'[j] = page_refs[j]
          PROVE  Before(dpn[page_refs'[i]], dpn[page_refs'[j]])
      <4>1. Before(dp[page_refs[i]], dp[page_refs[j]])
        BY <1>3, <2>11, <3>1 DEF InOrder
      <4>2. dpn[page_refs[i]] = dp[page_refs[i]] /\ dpn[page_refs[j]] = dp[page_refs[j]]
        BY <1>6, <2>6, <3>1
      <4>. QED
        BY <3>1, <4>1, <4>2
    <3>2. CASE ~IsLeaf(n)
      BY <2>1, <3>1, <3>2
    <3>3. CASE IsLeaf(n)
      <4>. HIDE DEF n
      <4>1. page_refs' = Append(page_refs, n)
        BY <2>1, <3>3
      <4>. DEFINE m == Len(page_refs)
      <4>2. /\ DOMAIN page_refs' = 1..(m + 1) /\ page_refs'[m + 1] = n
            /\ \A k \in 1..m : page_refs'[k] = page_refs[k]
        BY <1>6, <4>1
      <4>3. m \in Nat /\ DOMAIN page_refs = 1..m
        BY <1>6
      <4>. HIDE DEF m
      <4>4. i \in 1..m
        BY <2>11, <4>2, <4>3
      <4>5. CASE j \in 1..m
        BY <3>1, <4>2, <4>3, <4>4, <4>5
      <4>6. CASE j \notin 1..m
        <5>1. j = m + 1
          BY <4>2, <4>3, <4>6
        <5>2. page_refs'[i] = page_refs[i] /\ page_refs[i] \in visited
          BY <1>6, <4>2, <4>3, <4>4
        <5>3. Before(dp[page_refs[i]], sp[1])
          BY <2>2, <2>3, <5>2 DEF Later
        <5>4. page_refs'[j] = n
          BY <4>2, <5>1
        <5>. QED
          BY <2>6, <5>2, <5>3, <5>4
      <4>. QED
        BY <4>5, <4>6
    <3>. QED
      BY <3>2, <3>3
  <2>12. InOrder(dpf)'
    BY <2>11, <2>9 DEF InOrder
  <2>. QED
    BY <1>4, <2>10, <2>12 DEF OrderInv
<1>. QED
  BY <1>7, <1>8

\* The kids of the root wait in their order.
LEMMA OrderStarts ==
    file \in Files /\ root_kids \in Seq(Nat) /\ stack = root_kids /\ visited = {}
      => \E sp, dp : Ordered(sp, dp, stack, visited)
<1>. SUFFICES ASSUME file \in Files, root_kids \in Seq(Nat)
              PROVE  \E sp, dp : Ordered(sp, dp, root_kids, {})
  OBVIOUS
<1>. DEFINE m  == Len(root_kids)
            sp == Onward(<<>>, m)
            dp == [x \in {None} |-> <<>>]
<1>1. m \in Nat /\ DOMAIN root_kids = 1..m /\ root_kids \in Seq(Nodes)
  <2>1. root_kids = KidList(None) /\ \A x : KidList(x) \in Seq(Nodes)
    BY TreeIf DEF KidList, Tree
  <2>. QED
    BY <2>1
<1>2. \A k \in 1..m : sp[k] = Append(<<>>, k) /\ sp[k] \in Seq(Nat)
  <2>1. <<>> \in Seq(Nat)
    OBVIOUS
  <2>. QED
    BY <1>1, <2>1, BeforeAppend DEF Onward
<1>3. sp \in Seq(Seq(Nat)) /\ Len(sp) = m
  <2>1. sp = [k \in 1..m |-> sp[k]]
    BY DEF Onward
  <2>. HIDE DEF sp, m
  <2>. QED
    BY <1>1, <1>2, <2>1
<1>4. dp[None] = <<>>
  OBVIOUS
<1>. HIDE DEF sp, dp, m
<1>5. WaysHome(dp, {}) /\ Soonest(dp, {}) /\ Later(sp, dp, root_kids, {})
  BY <1>4 DEF WaysHome, Soonest, Later
<1>6. KidList(None) = root_kids
  BY DEF KidList
<1>7. Waiting(sp, dp, root_kids, {})
  <2>1. ASSUME NEW k \in 1..m, NEW l \in 1..m, k < l PROVE Before(sp[k], sp[l])
    <3>1. <<>> \in Seq(Nat) /\ k \in Nat /\ l \in Nat
      OBVIOUS
    <3>2. Before(Append(<<>>, k), Append(<<>>, l))
      BY <2>1, <3>1, BeforeAppend
    <3>. QED
      BY <1>2, <3>2
  <2>2. ASSUME NEW k \in 1..m PROVE Hung(sp[k], root_kids[k], dp, {})
    <3>1. sp[k] = Append(dp[None], k) /\ k \in DOMAIN KidList(None) /\ root_kids[k] = KidList(None)[k]
      BY <1>1, <1>2, <1>4, <1>6
    <3>. QED
      BY <3>1 DEF Hung
  <2>. QED
    BY <1>1, <1>3, <2>1, <2>2 DEF Waiting, m
<1>8. NoneLost(sp, dp, root_kids, {})
  BY <1>1, <1>2, <1>4, <1>6 DEF NoneLost, m
<1>. QED
  BY <1>5, <1>7, <1>8 DEF Ordered

\* The order is that of the kids of the root when they are found.
LEMMA EnsureOrders == ASSUME IInv, OrderInv, EnsurePageTree PROVE OrderInv'
<1>1. pc = "idle" /\ file \in Files /\ visited = {} /\ root_kids = None
  BY DEF IInv, EnsurePageTree
<1>2. UNCHANGED <<file, visited, page_refs>>
  BY DEF EnsurePageTree
<1>3. CASE PagesKids = None
  BY <1>1, <1>3 DEF EnsurePageTree, OrderInv
<1>4. CASE PagesKids # None
  <2>1. pc' = "flatten" /\ root_kids' = PagesKids /\ stack' = PagesKids
    BY <1>4 DEF EnsurePageTree
  <2>2. PagesKids \in Seq(Nat)
    BY <1>1, <1>4, PagesKidsType
  <2>3. (file \in Files /\ root_kids \in Seq(Nat) /\ stack = root_kids /\ visited = {}
           => \E sp, dp : Ordered(sp, dp, stack, visited))'
    BY OrderStarts, PTL
  <2>4. (\E sp, dp : Ordered(sp, dp, stack, visited))'
    BY <1>1, <1>2, <2>1, <2>2, <2>3
  <2>5. DOMAIN page_refs' = {}
    <3>1. page_refs \in Seq({})
      BY <1>1 DEF IInv, IndexInv
    <3>. QED
      BY <1>2, <3>1
  <2>6. \A dp : InOrder(dp)'
    BY <2>5 DEF InOrder
  <2>. QED
    BY <2>1, <2>2, <2>4, <2>6 DEF OrderInv
<1>. QED
  BY <1>3, <1>4

\* Other steps leave the order as it is.
LEMMA OthersOrder ==
    ASSUME OrderInv, UNCHANGED <<file, root_kids, stack, visited, page_refs>>, pc' = pc \/ pc # "idle"
    PROVE  OrderInv'
<1>1. CASE pc = "idle"
  BY <1>1 DEF OrderInv
<1>2. CASE pc # "idle"
  <2>1. PICK sp : \E dp : Ordered(sp, dp, stack, visited) /\ InOrder(dp)
    BY <1>2 DEF OrderInv
  <2>2. PICK dp : Ordered(sp, dp, stack, visited) /\ InOrder(dp)
    BY <2>1
  <2>3. Ordered(sp, dp, stack, visited)'
    BY <2>2, OrderedNext
  <2>4. InOrder(dp)'
    BY <2>2 DEF InOrder
  <2>. QED
    BY <1>2, <2>3, <2>4 DEF OrderInv
<1>. QED
  BY <1>1, <1>2

\* The walk meets nodes in the order of the document.
THEOREM OrderInvariance == Spec => [](IInv /\ OrderInv)
<1>1. Init => OrderInv
  BY DEF Init, OrderInv
<1>2. IInv /\ OrderInv /\ [Next]_vars => OrderInv'
  <2>. SUFFICES ASSUME IInv, OrderInv, [Next]_vars PROVE OrderInv'
    OBVIOUS
  <2>1. ASSUME NEW question \in Questions, Call(question) PROVE OrderInv'
    BY <2>1, OthersOrder DEF Call
  <2>2. CASE EnsurePageTree
    BY <2>2, EnsureOrders
  <2>3. CASE PopNode
    BY <2>3, PopOrders
  <2>4. CASE FinishIndex
    BY <2>4, OthersOrder DEF FinishIndex
  <2>5. CASE GetPage
    BY <2>5, OthersOrder DEF GetPage
  <2>6. CASE PageCount
    BY <2>6, OthersOrder DEF PageCount
  <2>7. CASE UNCHANGED vars
    BY <2>7, OthersOrder DEF vars
  <2>. QED
    BY <2>1, <2>2, <2>3, <2>4, <2>5, <2>6, <2>7 DEF Next, Step
<1>. QED
  BY <1>1, <1>2, Invariance, PTL DEF Spec

-----------------------------------------------------------------------------
(* All paths *)

\* A finite set of numbers that is not empty has a greatest.
LEMMA GreatestExists ==
    ASSUME NEW S \in SUBSET Nat, S # {}, IsFiniteSet(S)
    PROVE  \E k \in S : \A l \in S : l <= k
<1>. DEFINE c == Cardinality(S)
            Low(n) == {m \in S : m < n}
<1>1. c \in Nat /\ c # 0
  BY FS_CardinalityType, FS_EmptySet
<1>2. c \in 1..c
  BY <1>1
<1>3. PICK n \in S : Cardinality(Low(n)) = c - 1
  <2>1. \E n \in S : Cardinality({m \in S : m < n}) = c - 1
    BY <1>2, RanksExist
  <2>. QED
    BY <2>1
<1>4. Low(n) \subseteq S \ {n} /\ n \in Nat
  OBVIOUS
<1>5. IsFiniteSet(S \ {n}) /\ Cardinality(S \ {n}) = c - 1
  BY FS_RemoveElement
<1>6. Low(n) = S \ {n}
  <2>. HIDE DEF Low, c
  <2>. QED
    BY <1>3, <1>4, <1>5, FS_Subset
<1>7. ASSUME NEW l \in S PROVE l <= n
  <2>1. CASE l = n
    BY <1>4, <2>1
  <2>2. CASE l # n
    <3>1. l \in Low(n)
      BY <1>6, <2>2
    <3>2. l < n /\ l \in Nat
      BY <3>1
    <3>. QED
      BY <1>4, <3>2
  <2>. QED
    BY <2>1, <2>2
<1>. QED
  BY <1>7

\* A function of a finite set has finitely many values.
LEMMA FiniteImage ==
    ASSUME NEW S, IsFiniteSet(S), NEW f
    PROVE  IsFiniteSet({f[x] : x \in S})
<1>. DEFINE T == {f[x] : x \in S}
            g == [x \in S |-> f[x]]
<1>1. g \in [S -> T] /\ \A t \in T : \E x \in S : g[x] = t
  OBVIOUS
<1>. HIDE DEF T, g
<1>2. g \in Surjection(S, T)
  BY <1>1 DEF Surjection
<1>3. IsFiniteSet(T)
  BY <1>2, FS_Surjection
<1>. QED
  BY <1>3 DEF T

\* A sequence has finitely many members.
LEMMA MembersFinite ==
    ASSUME NEW S, NEW s \in Seq(S)
    PROVE  IsFiniteSet(Members(s)) /\ Len(s) \in Nat
<1>1. DOMAIN s = 1..Len(s) /\ Len(s) \in Nat
  OBVIOUS
<1>2. IsFiniteSet(DOMAIN s)
  BY <1>1, FS_Interval
<1>. QED
  BY <1>1, <1>2, FiniteImage DEF Members

InnerNodes == {m \in Numbers \cup MadeUp : IsInner(m)}

\* There are finitely many nodes with kids.
LEMMA InnerFinite ==
    ASSUME file \in Files
    PROVE  IsFiniteSet(InnerNodes)
<1>1. IsFiniteSet(Numbers)
  <2>1. Numbers = 1..Len(file.objects) /\ Len(file.objects) \in Nat
    BY ScannedFinite DEF Numbers
  <2>. QED
    BY <2>1, FS_Interval
<1>2. IsFiniteSet(MadeUp)
  <2>1. FirstMadeUp \in Int /\ FirstMadeUp + Groups - 1 \in Int
    BY ScannedFinite, ValidPagesType, SizesAssumption DEF FirstMadeUp, Groups
  <2>2. IsFiniteSet(FirstMadeUp..(FirstMadeUp + Groups - 1))
    BY <2>1, FS_Interval
  <2>. QED
    BY <2>2, FS_EmptySet DEF MadeUp
<1>3. IsFiniteSet(Numbers \cup MadeUp)
  BY <1>1, <1>2, FS_Union
<1>. QED
  BY <1>3, FS_Subset DEF InnerNodes

\* There are finitely many nodes.
LEMMA NodesFinite ==
    ASSUME file \in Files, root_kids \in Seq(Nat)
    PROVE  IsFiniteSet(Nodes)
<1>. DEFINE f == [n \in InnerNodes |-> Members(KidsOf(n))]
            sets == {f[n] : n \in InnerNodes}
<1>1. IsFiniteSet(sets)
  <2>. HIDE DEF f
  <2>. QED
    BY InnerFinite, FiniteImage
<1>2. \A n \in InnerNodes : IsFiniteSet(f[n])
  BY KidsOfType, MembersFinite DEF InnerNodes
<1>3. \A set \in sets : IsFiniteSet(set)
  <2>. HIDE DEF f
  <2>. QED
    BY <1>2
<1>4. Nodes = Members(root_kids) \cup UNION sets
  BY DEF Nodes, InnerNodes
<1>. HIDE DEF sets
<1>5. IsFiniteSet(UNION sets)
  BY <1>1, <1>3, FS_UNION
<1>6. IsFiniteSet(Members(root_kids))
  BY MembersFinite
<1>. QED
  BY <1>4, <1>5, <1>6, FS_Union

\* MostKids is a number, and no node has more kids.
LEMMA MostKidsIs ==
    ASSUME file \in Files, root_kids \in Seq(Nat)
    PROVE  MostKids \in Nat /\ \A x : Len(KidList(x)) <= MostKids
<1>. DEFINE f == [n \in InnerNodes |-> Len(KidsOf(n))]
            others == {f[n] : n \in InnerNodes}
            lengths == {Len(root_kids)} \cup others
<1>1. IsFiniteSet(others)
  <2>. HIDE DEF f
  <2>. QED
    BY InnerFinite, FiniteImage
<1>2. \A n \in InnerNodes : f[n] = Len(KidsOf(n)) /\ f[n] \in Nat
  BY KidsOfType, MembersFinite DEF InnerNodes
<1>3. others \in SUBSET Nat
  BY <1>2
<1>4. MostKids = CHOOSE k \in lengths : \A l \in lengths : l <= k
  BY DEF MostKids, InnerNodes
<1>5. Len(root_kids) \in Nat
  OBVIOUS
<1>6. \A n \in InnerNodes : Len(KidsOf(n)) \in lengths
  <2>. HIDE DEF f
  <2>. QED
    BY <1>2
<1>. HIDE DEF others
<1>7. lengths \in SUBSET Nat /\ lengths # {} /\ IsFiniteSet(lengths) /\ Len(root_kids) \in lengths
  BY <1>1, <1>3, <1>5, FS_Singleton, FS_Union
<1>. HIDE DEF lengths
<1>8. \E k \in lengths : \A l \in lengths : l <= k
  BY <1>7, GreatestExists
<1>9. MostKids \in lengths /\ \A l \in lengths : l <= MostKids
  BY <1>4, <1>8
<1>10. ASSUME NEW x PROVE Len(KidList(x)) <= MostKids
  <2>1. CASE x = None
    BY <1>7, <1>9, <2>1 DEF KidList
  <2>2. CASE x # None /\ IsInner(x)
    <3>1. x \in InnerNodes
      BY <2>2 DEF InnerNodes, IsInner, HasDictionary
    <3>. QED
      BY <1>6, <1>9, <2>2, <3>1 DEF KidList
  <2>3. CASE x # None /\ ~IsInner(x)
    <3>1. Len(KidList(x)) = 0 /\ MostKids \in Nat
      BY <1>7, <1>9, <2>3 DEF KidList
    <3>. QED
      BY <3>1
  <2>. QED
    BY <2>1, <2>2, <2>3
<1>. QED
  BY <1>7, <1>9, <1>10

\* A way that is not empty is one of the paths.
LEMMA WaysArePaths ==
    ASSUME file \in Files, root_kids \in Seq(Nat), NEW q, Way(q), Len(q) # 0
    PROVE  q \in Paths /\ Walk(q)[Len(q)] = End(q)
<1>. DEFINE m == Len(q)
<1>1. q \in Seq(Nat) /\ m \in Nat /\ m # 0 /\ DOMAIN q = 1..m
  BY DEF Way
<1>2. DOMAIN Walk(q) = 1..m
  BY WalkIsTrail
<1>3. \A i \in 1..m : Walk(q)[i] = At(q, i)
  BY <1>1 DEF At
<1>4. None \notin Members(Walk(q)) /\ \A i, j \in DOMAIN Walk(q) : Walk(q)[i] = Walk(q)[j] => i = j
  <2>1. \A i \in 1..m : At(q, i) # None
    BY DEF Way
  <2>2. \A i, j \in 1..m : At(q, i) = At(q, j) => i = j
    BY DEF Way
  <2>. HIDE DEF m
  <2>3. None \notin Members(Walk(q))
    BY <1>2, <1>3, <2>1 DEF Members
  <2>. QED
    BY <1>2, <1>3, <2>2, <2>3
<1>5. Tree
  BY TreeIf
<1>6. ASSUME NEW i \in 1..m PROVE q[i] \in 1..MostKids /\ Walk(q)[i] \in Nodes
  <2>. DEFINE x == At(q, i - 1)
  <2>1. q[i] \in DOMAIN KidList(x) /\ At(q, i) = KidList(x)[q[i]]
    BY DEF Way
  <2>2. KidList(x) \in Seq(Nodes) /\ Len(KidList(x)) <= MostKids /\ MostKids \in Nat
    BY <1>5, MostKidsIs DEF Tree
  <2>. HIDE DEF x
  <2>. QED
    BY <1>3, <2>1, <2>2
<1>7. q \in [1..m -> 1..MostKids]
  <2>1. q = [i \in 1..m |-> q[i]]
    BY <1>1
  <2>. HIDE DEF m
  <2>. QED
    BY <1>6, <2>1
<1>8. m \in 1..Cardinality(Nodes)
  <2>. DEFINE w == [i \in 1..m |-> Walk(q)[i]]
  <2>1. w \in [1..m -> Nodes]
    BY <1>6
  <2>2. \A i, j \in 1..m : w[i] = w[j] => i = j
    BY <1>2, <1>4
  <2>. HIDE DEF w, m
  <2>3. w \in Injection(1..m, Nodes)
    BY <2>1, <2>2 DEF Injection, IsInjective
  <2>4. IsFiniteSet(Nodes) /\ Cardinality(Nodes) \in Nat
    BY NodesFinite, FS_CardinalityType
  <2>5. Cardinality(1..m) <= Cardinality(Nodes)
    BY <2>3, <2>4, FS_Injection
  <2>6. Cardinality(1..m) = m
    <3>1. 1 \in Int /\ m \in Int /\ ~(1 > m) /\ m - 1 + 1 = m
      BY <1>1
    <3>2. Cardinality(1..m) = IF 1 > m THEN 0 ELSE m - 1 + 1
      BY <3>1, FS_Interval
    <3>. QED
      BY <3>1, <3>2
  <2>. QED
    BY <1>1, <2>4, <2>5, <2>6
<1>9. q \in Paths
  <2>1. q \in UNION {[1..k -> 1..MostKids] : k \in 1..Cardinality(Nodes)}
    <3>. HIDE DEF m
    <3>. QED
      BY <1>7, <1>8
  <2>. QED
    BY <1>4, <2>1 DEF Paths
<1>10. Walk(q)[m] = End(q)
  BY <1>1, <1>3 DEF End
<1>. QED
  BY <1>9, <1>10

\* Each path is a way.
LEMMA PathsAreWays ==
    ASSUME NEW q \in Paths
    PROVE  Way(q) /\ Len(q) # 0 /\ Walk(q)[Len(q)] = End(q)
<1>1. PICK k \in 1..Cardinality(Nodes) : q \in [1..k -> 1..MostKids]
  BY DEF Paths
<1>2. k \in Nat /\ k # 0
  BY <1>1
<1>3. q \in Seq(Nat) /\ Len(q) = k
  <2>1. q \in [1..k -> Nat]
    BY <1>1
  <2>. QED
    BY <1>2, <2>1
<1>4. None \notin Members(Walk(q)) /\ \A i, j \in DOMAIN Walk(q) : Walk(q)[i] = Walk(q)[j] => i = j
  BY DEF Paths
<1>. DEFINE f == [i \in 0..k |-> At(q, i)]
<1>5. DOMAIN Walk(q) = 1..k /\ Follows(f, q)
  BY <1>2, <1>3, <1>4, WalkFollows
<1>6. \A i \in 1..k : f[i] = Walk(q)[i]
  BY <1>2 DEF At
<1>7. \A i, j \in 1..k : f[i] = f[j] => i = j
  BY <1>4, <1>5, <1>6
<1>. HIDE DEF f
<1>8. Way(q)
  BY <1>3, <1>5, <1>7, WayMade
<1>. QED
  BY <1>2, <1>3, <1>8 DEF End, At

\* The pages of an index come in the order of the document: before a page that the
\* index has later, or has not, comes each that it has before.
THEOREM PagesInOrderAlways == Spec => []PagesInDocumentOrder
<1>1. IInv /\ OrderInv => PagesInDocumentOrder
  <2>. SUFFICES ASSUME IInv, OrderInv, pc = "indexed" PROVE PagesInDocumentOrder
    BY DEF PagesInDocumentOrder
  <2>. DEFINE Arrival(q) == [node |-> Walk(q)[Len(q)], path |-> q]
              arrivals == {Arrival(q) : q \in Paths}
  <2>1. file \in Files /\ root_kids \in Seq(Nat) /\ Tree
    BY TreeIf DEF IInv, OrderInv
  <2>2. PICK sp : \E dp : Ordered(sp, dp, stack, visited) /\ InOrder(dp)
    BY DEF OrderInv
  <2>3. PICK dp : Ordered(sp, dp, stack, visited) /\ InOrder(dp)
    BY <2>2
  <2>4. /\ \A i \in DOMAIN page_refs : page_refs[i] \in visited
        /\ \A n \in visited : IsLeaf(n) <=> n \in Members(page_refs)
        /\ DOMAIN page_refs = 1..Len(page_refs) /\ Len(page_refs) \in Nat
    BY DEF IInv, IndexInv
  <2>5. ASSUME NEW n \in visited
        PROVE  dp[n] \in Seq(Nat) /\ \E b \in arrivals : b.node = n /\ b.path = dp[n]
    <3>1. n # None /\ Way(dp[n]) /\ End(dp[n]) = n
      BY <2>3 DEF Ordered, WaysHome
    <3>2. Len(dp[n]) # 0
      BY <3>1 DEF End, At
    <3>3. dp[n] \in Paths /\ Walk(dp[n])[Len(dp[n])] = n
      BY <2>1, <3>1, <3>2, WaysArePaths
    <3>4. Arrival(dp[n]) \in arrivals /\ Arrival(dp[n]).node = n /\ Arrival(dp[n]).path = dp[n]
      BY <3>3
    <3>. QED
      BY <3>1, <3>4 DEF Way
  <2>6. ASSUME NEW q \in Paths, NEW i \in DOMAIN page_refs, IsLeaf(End(q)),
               \A j \in 1..i : End(q) # page_refs[j]
        PROVE  Before(dp[page_refs[i]], q)
    <3>. DEFINE n == page_refs[i]
                a == End(q)
    <3>1. Way(q) /\ Len(q) # 0 /\ q \in Seq(Nat) /\ n \in visited
      BY <2>4, PathsAreWays DEF Way
    <3>2. a # None
      <4>1. Len(q) \in 1..Len(q)
        BY <3>1
      <4>. QED
        BY <3>1, <4>1 DEF Way, End
    <3>3. dp[n] \in Seq(Nat)
      BY <2>5, <3>1
    <3>4. CASE a \in visited
      <4>1. PICK j \in DOMAIN page_refs : page_refs[j] = a
        BY <2>4, <2>6, <3>4 DEF Members
      <4>2. i < j
        BY <2>4, <2>6, <4>1
      <4>3. Before(dp[n], dp[a]) /\ dp[a] \in Seq(Nat)
        BY <2>3, <2>5, <3>4, <4>1, <4>2 DEF InOrder
      <4>4. q = dp[a] \/ Before(dp[a], q)
        BY <2>3, <3>1, <3>4 DEF Ordered, Soonest
      <4>. QED
        BY <3>1, <3>3, <4>3, <4>4, BeforeTransitive
    <3>5. CASE a \notin visited
      <4>1. PICK k \in 1..Len(stack) : sp[k] = q \/ Before(sp[k], q)
        BY <2>1, <2>3, <3>1, <3>2, <3>5, Frontier
      <4>2. Before(dp[n], sp[k])
        BY <2>3, <3>1 DEF Ordered, Later
      <4>3. sp[k] \in Seq(Nat)
        BY <2>3 DEF Ordered, Waiting
      <4>. QED
        BY <3>1, <3>3, <4>1, <4>2, <4>3, BeforeTransitive
    <3>. QED
      BY <3>4, <3>5
  <2>7. ASSUME NEW a \in arrivals
        PROVE  a.path \in Paths /\ a.node = End(a.path)
    <3>1. PICK q \in Paths : a = Arrival(q)
      OBVIOUS
    <3>. QED
      BY <3>1, PathsAreWays
  <2>. HIDE DEF arrivals
  <2>8. ASSUME NEW i \in DOMAIN page_refs
        PROVE  /\ \E b \in arrivals : b.node = page_refs[i]
               /\ \A a \in arrivals :
                     IsLeaf(a.node) /\ (\A j \in 1..i : a.node # page_refs[j])
                       => \E b \in arrivals : b.node = page_refs[i] /\ Before(b.path, a.path)
    <3>1. PICK b \in arrivals : b.node = page_refs[i] /\ b.path = dp[page_refs[i]]
      BY <2>4, <2>5
    <3>2. ASSUME NEW a \in arrivals, IsLeaf(a.node), \A j \in 1..i : a.node # page_refs[j]
          PROVE  Before(b.path, a.path)
      BY <2>6, <2>7, <3>1, <3>2
    <3>. QED
      BY <3>1, <3>2
  <2>. QED
    BY <2>8 DEF PagesInDocumentOrder, arrivals
<1>. QED
  BY <1>1, OrderInvariance, PTL

\* Page i of a document is page i of its tree, with the attributes it inherits,
\* for every file and whatever is asked before.
THEOREM PagesAsInTreeAlways == Spec => []PagesAsInTree
BY PagesInOrderAlways, AnswersFromTreeAlways, PTL DEF PagesAsInTree
=============================================================================
