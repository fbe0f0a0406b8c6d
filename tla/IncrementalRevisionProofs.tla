---------------------- MODULE IncrementalRevisionProofs ----------------------
(***************************************************************************)
(* Theorems about IncrementalRevision, for every number space, history     *)
(* bound, set of sound base files and set of references.                   *)
(*                                                                         *)
(* The inductive invariant IInv relates the open session to the file it    *)
(* was opened on: numbers are allocated from /Size up, what is staged      *)
(* stands for live or allocated numbers only, and refers to nothing else.  *)
(***************************************************************************)
EXTENDS IncrementalRevision, TLAPS, FiniteSetTheorems

\* The file between updates.
FileInv ==
    /\ Root \in Readable
    /\ Planned(view) \subseteq used
    /\ NoDanglingReference
    /\ SizeCoversNumbers
    /\ RetiredStaysFree
    /\ Root \notin everRetired /\ everRetired \subseteq used

\* Without a session nothing is staged.
ClosedInv ==
    session = None =>
        /\ allocated = {} /\ writes = Empty /\ catalog = None
        /\ retired = {} /\ plan = Empty

\* What an update may refer to.
Citable == Live \cup allocated \cup everRetired

\* The session against the file it was opened on.
SessionInv ==
    session # None =>
        /\ length < MaxRevisions
        /\ size <= next_id /\ (~damaged => size = newest.size)
        /\ \A n \in allocated : size <= n /\ n < next_id
        /\ retired \subseteq Live /\ Root \notin retired
        /\ known \subseteq Live \cup allocated
        /\ Planned(plan) \subseteq Live
        /\ \A n \in Planned(plan) : plan[n].refs \subseteq Citable

\* What has been staged.
StagedInv ==
    /\ Written \subseteq Live \cup allocated /\ Written \cap retired = {}
    /\ \A n \in Written : writes[n].kind = "obj" /\ writes[n].refs \subseteq Citable
    /\ catalog # None =>
          /\ session = "editor" /\ catalog.kind = "obj" /\ catalog.refs \subseteq Citable
    /\ session = "editor" => writes[Root] = None

IInv == TypeOK /\ FileInv /\ ClosedInv /\ SessionInv /\ StagedInv

(***************************************************************************)
(* Initial states.                                                         *)
(***************************************************************************)
\* Every sound base file satisfies the invariant.
THEOREM InitEstablishes == Init => IInv
<1>. SUFFICES ASSUME Init PROVE IInv
  OBVIOUS
<1>. USE RootAssumption, MaxRevisionsAssumption, NoneAssumption DEF Numbers
<1>1. PICK b \in Bases : newest = b.revision /\ damaged = b.damaged
  BY DEF Init
<1>2. newest \in Revision /\ damaged \in BOOLEAN /\ view \in [Numbers -> Definition \cup {None}]
  BY <1>1, BasesAssumption DEF Init, Revision
<1>3. TypeOK
  BY <1>2 DEF Init, TypeOK, Planned, Empty
<1>4. FileInv
  BY <1>1, SoundBases DEF Init, FileInv, Readable, Live, NoDanglingReference, SizeCoversNumbers,
     RetiredStaysFree, Planned, ViewSize
<1>5. ClosedInv /\ SessionInv /\ StagedInv
  BY DEF Init, ClosedInv, SessionInv, StagedInv, Written, Planned, Empty
<1>. QED
  BY <1>3, <1>4, <1>5 DEF IInv

(***************************************************************************)
(* Opening a session.                                                      *)
(***************************************************************************)
\* There are at most MaxNumber numbers in use.
LEMMA LiveCount == Live # {} => Cardinality(Live) \in Numbers
<1>. SUFFICES ASSUME Live # {} PROVE Cardinality(Live) \in Numbers
  OBVIOUS
<1>1. IsFiniteSet(Numbers) /\ Cardinality(Numbers) = MaxNumber
  BY FS_Interval, RootAssumption DEF Numbers
<1>2. Live \subseteq Numbers
  BY DEF Live, InUse
<1>3. IsFiniteSet(Live) /\ Cardinality(Live) <= MaxNumber
  BY <1>1, <1>2, FS_Subset
<1>4. Cardinality(Live) \in Nat /\ Cardinality(Live) # 0
  BY <1>3, FS_CardinalityType, FS_EmptySet
<1>. QED
  BY <1>3, <1>4, RootAssumption DEF Numbers

\* A new session allocates from /Size and has staged nothing.
LEMMA FromReaderKeeps ==
  ASSUME IInv, NEW kind \in {"editor", "direct", "recover"}, FromReader(kind)
  PROVE  /\ size' \in Numbers /\ next_id' \in Numbers /\ form' \in {"table", "stream"}
         /\ size' <= next_id' /\ (~damaged' => size' = newest'.size)
         /\ allocated' = {} /\ writes' = Empty /\ catalog' = None
         /\ session' = kind /\ FileInv'
<1>1. ViewSize \in Numbers
  BY LiveCount DEF IInv, TypeOK, ViewSize, FromReader, Revision, Numbers
<1>2. FileInv'
  BY DEF IInv, FileInv, FromReader, file, Readable, Live, NoDanglingReference,
     SizeCoversNumbers, RetiredStaysFree, ViewSize
<1>3. allocated = {} /\ writes = Empty /\ catalog = None
  BY NoneAssumption DEF IInv, ClosedInv, FromReader
<1>. QED
  BY <1>1, <1>2, <1>3 DEF FromReader, IInv, TypeOK, Revision, file, ViewSize, Numbers

\* An IncrementalEditor opens on what the reader sees of the file.
LEMMA OpenEditorKeeps == ASSUME IInv, OpenEditor PROVE IInv'
<1>. USE DEF OpenEditor
<1>1. FromReader("editor")
  OBVIOUS
<1>2. TypeOK'
  BY <1>1, FromReaderKeeps, RootAssumption DEF IInv, TypeOK, FromReader, file, Numbers, Live, InUse, Empty
<1>3. SessionInv' /\ ClosedInv' /\ FileInv'
  BY <1>1, FromReaderKeeps, NoneAssumption DEF IInv, SessionInv, ClosedInv, FromReader, file,
     Live, InUse, Planned, Empty
<1>4. StagedInv'
  BY <1>1, FromReaderKeeps, RootAssumption DEF StagedInv, Written, Planned, Empty
<1>. QED
  BY <1>2, <1>3, <1>4 DEF IInv

\* An IncrementalUpdate opened directly.
LEMMA OpenDirectKeeps == ASSUME IInv, OpenDirect PROVE IInv'
<1>. USE DEF OpenDirect
<1>1. FromReader("direct")
  OBVIOUS
<1>2. TypeOK'
  BY <1>1, FromReaderKeeps, RootAssumption DEF IInv, TypeOK, FromReader, file, Numbers, Live, InUse, Empty
<1>3. SessionInv' /\ ClosedInv' /\ FileInv'
  BY <1>1, FromReaderKeeps, NoneAssumption DEF IInv, SessionInv, ClosedInv, FromReader, file,
     Live, InUse, Planned, Empty
<1>4. StagedInv'
  BY <1>1, FromReaderKeeps, RootAssumption DEF StagedInv, Written, Planned, Empty
<1>. QED
  BY <1>2, <1>3, <1>4 DEF IInv

\* What a recovery plans to write stands for live numbers and cites live ones;
\* what it retires cannot be read.
LEMMA RecoveryPlans ==
  ASSUME IInv, OpenRecovery
  PROVE  /\ plan' \in [Numbers -> Definition \cup {None}]
         /\ Planned(plan') \subseteq Live
         /\ \A n \in Planned(plan') : plan'[n].refs \subseteq Live \cup everRetired
         /\ retired' \subseteq Live /\ Root \notin retired'
<1>1. PICK r \in Readable :
          \E index \in SUBSET (view[r].refs \ {r, Root}) :
          \E pages \in SUBSET (Readable \ ({r, Root} \cup index)), refs \in RefSets :
             PlanRecovery(r, index, pages, refs)
  BY Zenon DEF OpenRecovery
<1>2. PICK index \in SUBSET (view[r].refs \ {r, Root}) :
          \E pages \in SUBSET (Readable \ ({r, Root} \cup index)), refs \in RefSets :
             PlanRecovery(r, index, pages, refs)
  BY Zenon, <1>1
<1>3. PICK pages \in SUBSET Readable, refs \in RefSets : PlanRecovery(r, index, pages, refs)
  BY <1>2
<1>4. /\ index \subseteq Live /\ refs \subseteq Readable
      /\ retired' = Retirable(Walked(r, index), index)
      /\ plan' = [n \in Numbers |-> IF n \in index THEN Obj(refs)
                                    ELSE IF n \in {r} \cup pages THEN Obj(view[n].refs)
                                    ELSE None]
  BY <1>3 DEF PlanRecovery
<1>5. Root \in Walked(r, index)
  BY DEF Walked, Reached
<1>6. Readable \subseteq Live /\ Live \subseteq Numbers
  BY DEF Readable, HasBody, Live, InUse
<1>7. \A n \in Readable : view[n] \in Definition /\ view[n].refs \subseteq Live \cup everRetired
  BY DEF IInv, TypeOK, FileInv, NoDanglingReference, Readable, HasBody, InUse
<1>8. \A n \in Readable : view[n].refs \subseteq Numbers
  BY <1>7 DEF Definition
<1>9. plan' \in [Numbers -> Definition \cup {None}]
  BY <1>4, <1>6, <1>8 DEF Obj, Definition
<1>10. Planned(plan') \subseteq Live
  BY <1>4, <1>6, NoneAssumption DEF Planned
<1>11. \A n \in Planned(plan') : plan'[n].refs \subseteq Live \cup everRetired
  BY <1>4, <1>6, <1>7 DEF Planned, Obj
<1>. QED
  BY <1>4, <1>5, <1>6, <1>9, <1>10, <1>11 DEF Retirable

\* An update that recovery plans from a damaged base.
LEMMA OpenRecoveryKeeps == ASSUME IInv, OpenRecovery PROVE IInv'
<1>1. FromReader("recover")
  BY DEF OpenRecovery
<1>2. PendingXRefId(form', next_id') \subseteq Numbers
  BY <1>1, FromReaderKeeps DEF PendingXRefId
<1>3. Inventoried' \subseteq Numbers
  BY <1>2, RecoveryPlans DEF Inventoried, Planned, Live, InUse
<1>4. report' \in Inventory
  BY <1>3 DEF OpenRecovery, Inventory
<1>5. TypeOK'
  BY <1>1, <1>4, FromReaderKeeps, RecoveryPlans
     DEF IInv, TypeOK, FromReader, OpenRecovery, file, Live, InUse, Empty
<1>6. SessionInv' /\ ClosedInv' /\ FileInv'
  BY <1>1, FromReaderKeeps, RecoveryPlans, NoneAssumption
     DEF IInv, SessionInv, ClosedInv, FromReader, OpenRecovery, file, Live, Citable
<1>7. StagedInv'
  BY <1>1, FromReaderKeeps DEF StagedInv, Written, Planned, Empty
<1>. QED
  BY <1>5, <1>6, <1>7 DEF IInv

(***************************************************************************)
(* Staging.                                                                *)
(***************************************************************************)
\* No staging step touches the file, so its invariant stays.
LEMMA FileStays == ASSUME IInv, UNCHANGED file PROVE FileInv'
  BY DEF IInv, FileInv, file, Readable, Live, NoDanglingReference, SizeCoversNumbers,
     RetiredStaysFree, ViewSize

\* A number is allocated above everything used and allocated so far.
LEMMA AllocateIdKeeps == ASSUME IInv, AllocateId PROVE IInv'
<1>. USE DEF AllocateId, Staging
<1>1. TypeOK'
  BY RootAssumption DEF IInv, TypeOK, file, Numbers
<1>2. FileInv'
  BY FileStays
<1>3. SessionInv'
  <2>1. session # None /\ size \in Nat /\ next_id \in Nat /\ UNCHANGED <<Live, session, size, length>>
    BY NoneAssumption DEF IInv, TypeOK, file, Live, Numbers
  <2>2. size <= next_id' /\ \A n \in allocated' : size <= n /\ n < next_id'
    <3>1. \A n \in allocated : n \in Nat /\ size <= n /\ n < next_id
      BY <2>1 DEF IInv, TypeOK, SessionInv, Numbers
    <3>. QED
      BY <2>1, <3>1 DEF IInv, SessionInv
  <2>3. known' \subseteq Live \cup allocated' /\ Citable \subseteq Citable'
    BY <2>1 DEF IInv, SessionInv, file, Citable
  <2>. QED
    BY <2>1, <2>2, <2>3 DEF IInv, SessionInv, file
<1>5. ClosedInv'
  BY NoneAssumption DEF IInv, ClosedInv
<1>4. StagedInv'
  BY DEF IInv, StagedInv, file, Live, Citable, Written
<1>. QED
  BY <1>1, <1>2, <1>3, <1>4, <1>5 DEF IInv

\* Every kind of session replaces through Replace, for numbers and references
\* that the invariant admits.
LEMMA ReplaceKeeps ==
  ASSUME IInv, session # None, NEW n \in Live \cup allocated, NEW refs \in SUBSET Numbers,
         refs \subseteq Citable, session = "editor" => n # Root, Replace(n, refs)
  PROVE  IInv'
<1>. USE DEF Replace, reading
<1>1. Obj(refs) \in Definition /\ Obj(refs).kind = "obj" /\ Obj(refs).refs = refs
  BY DEF Obj, Definition
<1>2. n \in Numbers /\ n \notin retired
  BY DEF IInv, TypeOK, Live, InUse
<1>3. writes' \in [Numbers -> Definition \cup {None}] /\ Written' = Written \cup {n}
  BY <1>1, <1>2, NoneAssumption DEF IInv, TypeOK, Written, Planned
<1>4. TypeOK'
  BY <1>3 DEF IInv, TypeOK, file
<1>5. FileInv'
  BY FileStays
<1>6. SessionInv' /\ ClosedInv'
  BY DEF IInv, SessionInv, ClosedInv, file, Live, Citable
<1>7. StagedInv'
  <2>1. \A m \in Written' : writes'[m].kind = "obj" /\ writes'[m].refs \subseteq Citable
    BY <1>1, <1>2, <1>3 DEF IInv, TypeOK, StagedInv
  <2>2. session = "editor" => writes'[Root] = None
    BY <1>2 DEF IInv, TypeOK, StagedInv
  <2>. QED
    BY <1>2, <1>3, <2>1, <2>2 DEF IInv, StagedInv, file, Live, Citable
<1>. QED
  BY <1>4, <1>5, <1>6, <1>7 DEF IInv

\* The editor replaces an object; its references are live or allocated.
LEMMA EditorReplaceKeeps ==
  ASSUME IInv, NEW n \in Numbers, NEW refs \in RefSets, EditorReplace(n, refs)
  PROVE  IInv'
  BY ReplaceKeeps, RefSetsAssumption, NoneAssumption
     DEF EditorReplace, Staging, IInv, SessionInv, Citable

\* A direct update replaces an object.
LEMMA DirectReplaceKeeps ==
  ASSUME IInv, NEW n \in Numbers, NEW refs \in RefSets, DirectReplace(n, refs)
  PROVE  IInv'
  BY ReplaceKeeps, RefSetsAssumption, NoneAssumption DEF DirectReplace, Staging, Citable

\* Recovery replaces an object as planned.
LEMMA RecoveryReplaceKeeps ==
  ASSUME IInv, NEW n \in Numbers, RecoveryReplace(n)
  PROVE  IInv'
<1>1. session # None /\ n \in Live /\ plan[n].refs \subseteq Citable
  BY NoneAssumption DEF RecoveryReplace, Staging, IInv, SessionInv, Planned
<1>2. plan[n].refs \in SUBSET Numbers
  BY DEF RecoveryReplace, IInv, TypeOK, Definition
<1>. QED
  BY <1>1, <1>2, ReplaceKeeps DEF RecoveryReplace, Staging

\* The editor stages a changed catalog.
LEMMA EditCatalogKeeps ==
  ASSUME IInv, NEW kept \in SUBSET Numbers, NEW refs \in RefSets, EditCatalog(kept, refs)
  PROVE  IInv'
<1>. USE DEF EditCatalog, Staging, reading
<1>1. kept \subseteq Citable /\ refs \subseteq Citable
  BY NoneAssumption DEF IInv, FileInv, NoDanglingReference, SessionInv, StagedInv, Citable
<1>2. Obj(kept \cup refs) \in Definition /\ Obj(kept \cup refs).kind = "obj"
      /\ Obj(kept \cup refs).refs = kept \cup refs
  BY RefSetsAssumption DEF Obj, Definition
<1>3. TypeOK'
  BY <1>2 DEF IInv, TypeOK, file
<1>4. FileInv'
  BY FileStays
<1>5. SessionInv' /\ ClosedInv'
  BY NoneAssumption DEF IInv, SessionInv, ClosedInv, file, Live, Citable
<1>6. StagedInv'
  BY <1>1, <1>2 DEF IInv, StagedInv, file, Live, Citable, Written
<1>. QED
  BY <1>3, <1>4, <1>5, <1>6 DEF IInv

(***************************************************************************)
(* Ending.                                                                 *)
(***************************************************************************)
\* A closed session leaves nothing behind.
LEMMA ClosedKeeps == ASSUME IInv, Closed PROVE ClosedInv' /\ SessionInv' /\ StagedInv'
  BY NoneAssumption DEF Closed, ClosedInv, SessionInv, StagedInv, Written, Planned, Empty

\* An update that is dropped leaves the file alone.
LEMMA AbandonKeeps == ASSUME IInv, Abandon PROVE IInv'
<1>1. TypeOK'
  BY RootAssumption DEF Abandon, Closed, IInv, TypeOK, file, Numbers, Empty
<1>2. FileInv'
  BY FileStays DEF Abandon
<1>. QED
  BY <1>1, <1>2, ClosedKeeps DEF Abandon, IInv

\* What finish writes: a definition for everything staged, and only for live,
\* allocated or retired numbers.
LEMMA ChangesFacts ==
  ASSUME IInv, session # None
  PROVE  /\ Changes \in [Numbers -> Definition \cup {None}]
         /\ Planned(Changes) \subseteq Live \cup allocated
         /\ Written \cup retired \subseteq Planned(Changes)
         /\ \A n \in Planned(Changes) : \/ n \in retired /\ Changes[n] = Free
                                        \/ /\ n \notin retired /\ Changes[n].kind = "obj"
                                           /\ Changes[n].refs \subseteq Citable
<1>. USE NoneAssumption DEF IInv
<1>1. Free \in Definition
  BY DEF Free, Definition
<1>2. Changes \in [Numbers -> Definition \cup {None}]
  BY <1>1 DEF TypeOK, Changes
<1>3. Root \in Live /\ Root \notin retired
  BY DEF FileInv, Readable, HasBody, Live, SessionInv
<1>4. \A n \in Numbers : Changes[n] = IF n = Root /\ catalog # None THEN catalog
                                      ELSE IF n \in retired THEN Free ELSE writes[n]
  BY DEF Changes
<1>5. Written \subseteq Live \cup allocated /\ retired \subseteq Live /\ Written \cap retired = {}
  BY DEF StagedInv, SessionInv
<1>6. Written \subseteq Numbers /\ retired \subseteq Numbers
  BY DEF TypeOK, Written, Planned
<1>7. Planned(Changes) \subseteq Live \cup allocated
  BY <1>3, <1>4, <1>5 DEF Planned, Written
<1>8. Written \cup retired \subseteq Planned(Changes)
  BY <1>1, <1>3, <1>4, <1>5, <1>6 DEF Planned, Written
<1>9. \A n \in Planned(Changes) : \/ n \in retired /\ Changes[n] = Free
                                  \/ /\ n \notin retired /\ Changes[n].kind = "obj"
                                     /\ Changes[n].refs \subseteq Citable
  BY <1>3, <1>4 DEF StagedInv, Planned, Written
<1>. QED
  BY <1>2, <1>7, <1>8, <1>9

\* What one more revision makes of the file.
LEMMA RevisionFacts ==
  ASSUME IInv, Finish, ~(Written = {} /\ catalog = None)
  PROVE  /\ newest' \in Revision /\ view' \in [Numbers -> Definition \cup {None}]
         /\ used' = used \cup Planned(Changes) \cup PendingXRefId(form, next_id)
         /\ \A n \in Numbers : n \in PendingXRefId(form, next_id) =>
               view'[n] = [kind |-> "store", refs |-> {Root}]
         /\ \A n \in Numbers \ PendingXRefId(form, next_id) :
               view'[n] = IF Changes[n] = None \/ (damaged /\ Changes[n] = Free)
                          THEN view[n] ELSE Changes[n]
         /\ size <= newest'.size /\ next_id <= newest'.size
         /\ (form = "stream" => next_id < newest'.size)
         /\ PendingXRefId(form, next_id) \subseteq {next_id}
<1>. DEFINE xref == PendingXRefId(form, next_id)
            store == [kind |-> "store", refs |-> {Root}]
<1>. USE NoneAssumption, RootAssumption
<1>1. session # None /\ newest' = NewRevision /\ view' = Resolved(NewRevision.defs)
      /\ used' = used \cup Planned(NewRevision.defs)
      /\ (form = "stream" => next_id < MaxNumber)
  BY DEF Finish
<1>2. size \in Numbers /\ next_id \in Numbers /\ form \in {"table", "stream"}
      /\ view \in [Numbers -> Definition \cup {None}]
  BY DEF IInv, TypeOK
<1>3. xref \subseteq Numbers /\ xref \subseteq {next_id} /\ store \in Definition
  BY <1>2 DEF PendingXRefId, Definition, Numbers
<1>4. /\ Changes \in [Numbers -> Definition \cup {None}]
      /\ \A n \in Numbers : Changes[n] # None => Changes[n] = Free \/ Changes[n].kind = "obj"
  BY <1>1, ChangesFacts DEF Planned
<1>5. NewRevision.defs = [n \in Numbers |-> IF n \in xref THEN store ELSE Changes[n]]
  BY DEF NewRevision
<1>6. NewRevision.defs \in [Numbers -> Definition \cup {None}]
  BY <1>3, <1>4, <1>5
<1>7. NewRevision.size = IF form = "stream" THEN next_id + 1
                         ELSE IF next_id > size THEN next_id ELSE size
  BY DEF NewRevision
<1>8. NewRevision.size \in Numbers /\ size <= NewRevision.size /\ next_id <= NewRevision.size
      /\ (form = "stream" => next_id < NewRevision.size)
  <2>1. size <= next_id
    BY <1>1 DEF IInv, SessionInv
  <2>. QED
    BY <1>1, <1>2, <1>7, <2>1 DEF Numbers
<1>9. NewRevision \in Revision
  BY <1>2, <1>6, <1>8 DEF NewRevision, Revision, Numbers
<1>10. view' \in [Numbers -> Definition \cup {None}]
  BY <1>1, <1>2, <1>6 DEF Resolved
<1>11. Planned(NewRevision.defs) = Planned(Changes) \cup xref
  BY <1>3, <1>5 DEF Planned
<1>12. \A n \in Numbers : n \in xref => view'[n] = store
  BY <1>1, <1>3, <1>5 DEF Resolved
<1>13. \A n \in Numbers \ xref :
          view'[n] = IF Changes[n] = None \/ (damaged /\ Changes[n] = Free)
                     THEN view[n] ELSE Changes[n]
  <2>1. Free.kind = "free"
    BY DEF Free
  <2>. QED
    BY <1>1, <1>4, <1>5, <2>1 DEF Resolved
<1>. QED
  BY <1>1, <1>3, <1>8, <1>9, <1>10, <1>11, <1>12, <1>13

\* Finishing takes nothing out of use but what it retires.
LEMMA NumbersStayInUse ==
  ASSUME IInv, Finish, ~(Written = {} /\ catalog = None)
  PROVE  /\ everRetired' = everRetired \cup retired
         /\ Citable \subseteq Live' \cup everRetired'
         /\ Root \in Readable'
<1>. DEFINE xref == PendingXRefId(form, next_id)
<1>. USE NoneAssumption, RootAssumption
<1>1. session # None /\ everRetired' = everRetired \cup retired /\ allocated \subseteq Written
  BY DEF Finish, Complete
<1>2. /\ \A n \in Numbers : n \in xref => view'[n] = [kind |-> "store", refs |-> {Root}]
      /\ \A n \in Numbers \ xref :
            view'[n] = IF Changes[n] = None \/ (damaged /\ Changes[n] = Free)
                       THEN view[n] ELSE Changes[n]
      /\ view' \in [Numbers -> Definition \cup {None}]
  BY RevisionFacts
<1>3. \A n \in Numbers : n \in Live' <=> view'[n] # None /\ view'[n].kind # "free"
  BY DEF Live, InUse
<1>4. \A n \in Numbers : n \in Live <=> view[n] # None /\ view[n].kind # "free"
  BY DEF Live, InUse
<1>5. \A n \in Numbers : Changes[n] # None =>
         \/ n \in retired /\ Changes[n] = Free
         \/ n \notin retired /\ Changes[n].kind = "obj"
  BY <1>1, ChangesFacts DEF Planned
<1>6. [kind |-> "store", refs |-> {Root}] # None
  BY DEF Definition
<1>7. Free # None /\ Free.kind = "free"
  BY DEF Free, Definition
<1>8. ASSUME NEW n \in Live PROVE n \in Live' \cup retired
  <2>1. n \in Numbers
    BY DEF Live, InUse
  <2>2. CASE n \in xref
    BY <1>2, <1>3, <1>6, <2>1, <2>2
  <2>3. CASE n \notin xref
    BY <1>2, <1>3, <1>4, <1>5, <2>1, <2>3
  <2>. QED
    BY <2>2, <2>3
<1>9. ASSUME NEW n \in allocated PROVE n \in Live'
  <2>1. n \in Numbers /\ Changes[n] # None /\ n \notin retired
    BY <1>1, ChangesFacts DEF IInv, TypeOK, StagedInv, Planned
  <2>2. CASE n \in xref
    BY <1>2, <1>3, <1>6, <2>1, <2>2
  <2>3. CASE n \notin xref
    BY <1>2, <1>3, <1>5, <1>7, <2>1, <2>3
  <2>. QED
    BY <2>2, <2>3
<1>10. Root \in Readable'
  <2>1. Root \in Readable /\ Root \notin retired
    BY <1>1 DEF IInv, FileInv, SessionInv
  <2>2. Root \in Live' /\ view'[Root].kind # "absent"
    <3>1. CASE Root \in xref
      BY <1>2, <1>3, <1>6, <3>1
    <3>2. CASE Root \notin xref
      BY <1>2, <1>3, <1>4, <1>5, <2>1, <3>2 DEF Readable, HasBody, Live
    <3>. QED
      BY <3>1, <3>2
  <2>. QED
    BY <2>2 DEF Readable, HasBody, Live
<1>. QED
  BY <1>1, <1>8, <1>9, <1>10 DEF Citable

\* What the new revision makes visible refers to numbers in use.
LEMMA FinishLeavesNoneDangling ==
  ASSUME IInv, Finish, ~(Written = {} /\ catalog = None)
  PROVE  NoDanglingReference'
<1>. DEFINE xref == PendingXRefId(form, next_id)
<1>. USE NoneAssumption, RootAssumption
<1>0. session # None
  BY DEF Finish
<1>1. SUFFICES ASSUME NEW n \in Readable' PROVE view'[n].refs \subseteq Live' \cup everRetired'
  BY DEF NoDanglingReference
<1>2. n \in Numbers /\ view'[n] # None /\ view'[n].kind \notin {"free", "absent"}
  BY DEF Readable, HasBody, InUse
<1>3. Citable \subseteq Live' \cup everRetired' /\ Root \in Live'
  BY NumbersStayInUse DEF Readable, HasBody, Live
<1>4. CASE n \in xref
  BY <1>2, <1>3, <1>4, RevisionFacts
<1>5. CASE n \notin xref /\ view'[n] = view[n]
  <2>1. n \in Readable
    BY <1>2, <1>5 DEF Readable, HasBody, InUse
  <2>2. view[n].refs \subseteq Citable
    BY <2>1 DEF IInv, FileInv, NoDanglingReference, Citable
  <2>. QED
    BY <1>3, <1>5, <2>2
<1>6. CASE n \notin xref /\ view'[n] # view[n]
  <2>1. Changes[n] # None /\ view'[n] = Changes[n]
    BY <1>2, <1>6, RevisionFacts
  <2>2. Changes[n].refs \subseteq Citable
    <3>1. n \in Planned(Changes)
      BY <1>2, <2>1 DEF Planned
    <3>2. Changes[n].kind # "free"
      BY <1>2, <2>1
    <3>. QED
      BY <1>0, <3>1, <3>2, ChangesFacts DEF Free
  <2>. QED
    BY <1>3, <2>1, <2>2
<1>. QED
  BY <1>4, <1>5, <1>6

\* /Size and the free entries after a finish on a file whose trailer is sound.
LEMMA FinishNumbers ==
  ASSUME IInv, Finish, ~(Written = {} /\ catalog = None)
  PROVE  SizeCoversNumbers' /\ RetiredStaysFree'
<1>. DEFINE xref == PendingXRefId(form, next_id)
<1>. USE NoneAssumption, RootAssumption
<1>. SUFFICES ASSUME ~damaged PROVE SizeCoversNumbers' /\ RetiredStaysFree'
  BY DEF Finish, SizeCoversNumbers, RetiredStaysFree
<1>1. session # None /\ UNCHANGED damaged /\ everRetired' = everRetired \cup retired
  BY DEF Finish
<1>2. /\ size \in Nat /\ next_id \in Nat /\ newest'.size \in Nat
      /\ size = newest.size /\ size <= next_id
      /\ size <= newest'.size /\ next_id <= newest'.size
      /\ (form = "stream" => next_id < newest'.size)
  BY <1>1, RevisionFacts DEF IInv, TypeOK, SessionInv, Revision, Numbers
<1>3. \A n \in used : n \in Nat /\ n < size
  BY <1>2 DEF IInv, TypeOK, FileInv, SizeCoversNumbers, ViewSize, Numbers
<1>4. \A n \in allocated : n \in Nat /\ size <= n /\ n < next_id
  BY <1>1 DEF IInv, TypeOK, SessionInv, Numbers
<1>5. Live \subseteq used
  BY DEF Live, InUse, IInv, FileInv, Planned
<1>6. xref \subseteq {next_id} /\ (xref # {} => form = "stream")
  BY DEF PendingXRefId
<1>7. SizeCoversNumbers'
  <2>1. used' = used \cup Planned(Changes) \cup xref /\ Planned(Changes) \subseteq Live \cup allocated
    BY <1>1, RevisionFacts, ChangesFacts
  <2>2. \A n \in used' : n < newest'.size
    BY <1>2, <1>3, <1>4, <1>5, <1>6, <2>1
  <2>. QED
    BY <2>2 DEF SizeCoversNumbers, ViewSize
<1>8. ASSUME NEW n \in everRetired PROVE view'[n] = Free
  <2>1. n \in Numbers /\ n \in used /\ view[n] = Free
    BY DEF IInv, TypeOK, FileInv, RetiredStaysFree
  <2>2. n \notin xref /\ n \notin allocated
    BY <1>2, <1>3, <1>4, <1>6, <2>1
  <2>3. n \notin Live
    BY <2>1 DEF Live, InUse, Free
  <2>4. Changes[n] = None
    BY <1>1, <2>1, <2>2, <2>3, ChangesFacts DEF Planned
  <2>. QED
    BY <2>1, <2>2, <2>4, RevisionFacts
<1>9. ASSUME NEW n \in retired PROVE view'[n] = Free
  <2>1. n \in Numbers /\ n \in Live
    BY <1>1 DEF IInv, TypeOK, SessionInv
  <2>2. n \notin xref
    BY <1>2, <1>3, <1>5, <1>6, <2>1
  <2>3. Changes[n] = Free
    BY <1>1, ChangesFacts
  <2>4. Free # None
    BY DEF Free, Definition
  <2>. QED
    BY <2>1, <2>2, <2>3, <2>4, RevisionFacts
<1>. QED
  BY <1>1, <1>7, <1>8, <1>9 DEF RetiredStaysFree

\* finish appends the revision, or nothing when nothing is staged.
LEMMA FinishKeeps == ASSUME IInv, Finish PROVE IInv'
<1>. USE NoneAssumption, RootAssumption
<1>0. Closed /\ session # None
  BY DEF Finish
<1>1. CASE Written = {} /\ catalog = None
  <2>1. UNCHANGED file
    BY <1>1 DEF Finish
  <2>2. TypeOK'
    BY <1>0, <2>1 DEF Closed, IInv, TypeOK, file, Numbers, Empty
  <2>. QED
    BY <1>0, <2>1, <2>2, FileStays, ClosedKeeps DEF IInv
<1>2. CASE ~(Written = {} /\ catalog = None)
  <2>. DEFINE xref == PendingXRefId(form, next_id)
  <2>1. length' = length + 1 /\ UNCHANGED damaged /\ everRetired' = everRetired \cup retired
    BY <1>2 DEF Finish
  <2>2. length < MaxRevisions /\ retired \subseteq Live /\ Root \notin retired
    BY <1>0 DEF IInv, SessionInv
  <2>3. Live \subseteq Planned(view) /\ Planned(view) \subseteq used /\ Live \subseteq Numbers
    BY DEF Live, InUse, Planned, IInv, FileInv
  <2>4. used' = used \cup Planned(Changes) \cup xref /\ xref \subseteq {next_id}
    BY <1>2, RevisionFacts
  <2>5. used' \subseteq Numbers
    BY <2>4 DEF IInv, TypeOK, Planned
  <2>6. TypeOK'
    <3>1. length' \in 1..MaxRevisions
      BY <2>1, <2>2, MaxRevisionsAssumption DEF IInv, TypeOK
    <3>2. view' \in [Numbers -> Definition \cup {None}] /\ newest' \in Revision
      BY <1>2, RevisionFacts
    <3>3. everRetired' \subseteq Numbers
      BY <2>1, <2>2, <2>3 DEF IInv, TypeOK
    <3>. QED
      BY <1>0, <2>1, <2>5, <3>1, <3>2, <3>3 DEF Closed, IInv, TypeOK, Numbers, Empty
  <2>7. Planned(view') \subseteq used'
    <3>1. SUFFICES ASSUME NEW n \in Numbers, view'[n] # None PROVE n \in used'
      BY DEF Planned
    <3>2. CASE n \in xref
      BY <2>4, <3>2
    <3>3. CASE n \notin xref
      <4>1. view[n] # None \/ Changes[n] # None
        BY <1>2, <3>1, <3>3, RevisionFacts
      <4>. QED
        BY <2>3, <2>4, <4>1 DEF Planned
    <3>. QED
      BY <3>2, <3>3
  <2>8. Root \notin everRetired' /\ everRetired' \subseteq used'
    BY <2>1, <2>2, <2>3, <2>4 DEF IInv, FileInv
  <2>9. FileInv'
    BY <1>2, <2>7, <2>8, NumbersStayInUse, FinishLeavesNoneDangling, FinishNumbers DEF FileInv
  <2>. QED
    BY <1>0, <2>6, <2>9, ClosedKeeps DEF IInv
<1>. QED
  BY <1>1, <1>2

(***************************************************************************)
(* The theorems.                                                           *)
(***************************************************************************)
LEMMA StutterKeeps == ASSUME IInv, UNCHANGED vars PROVE IInv'
<1>. USE DEF vars, file, reading
<1>1. TypeOK'
  BY DEF IInv, TypeOK
<1>2. FileInv'
  BY FileStays
<1>3. SessionInv' /\ ClosedInv' /\ StagedInv'
  BY DEF IInv, SessionInv, ClosedInv, StagedInv, Live, Citable, Written
<1>. QED
  BY <1>1, <1>2, <1>3 DEF IInv

\* No step of any session breaks the invariant.
LEMMA StepPreserves == IInv /\ [Next]_vars => IInv'
<1>. SUFFICES ASSUME IInv, [Next]_vars PROVE IInv'
  OBVIOUS
<1>1. CASE OpenEditor \/ OpenDirect \/ OpenRecovery
  BY <1>1, OpenEditorKeeps, OpenDirectKeeps, OpenRecoveryKeeps
<1>2. CASE AllocateId
  BY <1>2, AllocateIdKeeps
<1>3. CASE \E n \in Numbers, refs \in RefSets : EditorReplace(n, refs)
  BY <1>3, EditorReplaceKeeps
<1>4. CASE \E n \in Numbers, refs \in RefSets : DirectReplace(n, refs)
  BY <1>4, DirectReplaceKeeps
<1>5. CASE \E n \in Numbers : RecoveryReplace(n)
  BY <1>5, RecoveryReplaceKeeps
<1>6. CASE \E kept \in SUBSET Numbers, refs \in RefSets : EditCatalog(kept, refs)
  BY <1>6, EditCatalogKeeps
<1>7. CASE Finish
  BY <1>7, FinishKeeps
<1>8. CASE Abandon
  BY <1>8, AbandonKeeps
<1>9. CASE UNCHANGED vars
  BY <1>9, StutterKeeps
<1>. QED
  BY Zenon, <1>1, <1>2, <1>3, <1>4, <1>5, <1>6, <1>7, <1>8, <1>9 DEF Next

\* The file and an open session agree, whatever updates a file has been through.
THEOREM Invariance == Spec => []IInv
  BY InitEstablishes, StepPreserves, PTL DEF Spec

\* Every variable keeps its type.
THEOREM TypeCorrect == Spec => []TypeOK
<1>1. IInv => TypeOK
  BY DEF IInv
<1>. QED
  BY <1>1, Invariance, PTL

\* finish: the new trailer's /Size exceeds every number of every revision.
THEOREM SizeCovers == Spec => []SizeCoversNumbers
<1>1. IInv => SizeCoversNumbers
  BY DEF IInv, FileInv
<1>. QED
  BY <1>1, Invariance, PTL

\* allocate_id: a number handed out was never used by any revision.
THEOREM NumbersAreFresh == Spec => []FreshIds
<1>1. IInv => FreshIds
  <2>. SUFFICES ASSUME IInv, ~damaged, session # None
                PROVE  (allocated \cup PendingXRefId(form, next_id)) \cap used = {}
    BY DEF FreshIds
  <2>1. \A n \in used : n \in Nat /\ n < size
    <3>1. size = newest.size /\ ViewSize = newest.size
      BY DEF IInv, SessionInv, ViewSize
    <3>. QED
      BY <3>1 DEF IInv, TypeOK, FileInv, SizeCoversNumbers, Numbers
  <2>2. \A n \in allocated \cup PendingXRefId(form, next_id) : n \in Nat /\ size <= n
    BY DEF IInv, TypeOK, SessionInv, PendingXRefId, Numbers
  <2>3. size \in Nat
    BY DEF IInv, TypeOK, Numbers
  <2>. QED
    BY <2>1, <2>2, <2>3
<1>. QED
  BY <1>1, Invariance, PTL

\* validate_object and finish: no revision makes a reference to nothing visible.
THEOREM NothingDangles == Spec => []NoDanglingReference
<1>1. IInv => NoDanglingReference
  BY DEF IInv, FileInv
<1>. QED
  BY <1>1, Invariance, PTL

\* retire_unreachable: what was retired stays free in all later revisions.
THEOREM RetiredForever == Spec => []RetiredStaysFree
<1>1. IInv => RetiredStaysFree
  BY DEF IInv, FileInv
<1>. QED
  BY <1>1, Invariance, PTL

(***************************************************************************)
(* The inventory of a recovery.                                            *)
(***************************************************************************)
\* A recovery stages nothing but its plan, allocates nothing and keeps the
\* report it made when it opened.
RecoveryInv ==
    session = "recover" =>
        /\ report = [changed |-> Inventoried]
        /\ catalog = None /\ Written \subseteq Planned(plan)

\* It stays with what it has said, until it ends.
LEMMA RecoveryKeeps == IInv /\ RecoveryInv /\ [Next]_vars => RecoveryInv'
<1>. SUFFICES ASSUME IInv, RecoveryInv, [Next]_vars, session' = "recover"
              PROVE  /\ report' = [changed |-> Inventoried'] /\ catalog' = None
                     /\ Written' \subseteq Planned(plan)'
  BY DEF RecoveryInv
<1>1. CASE OpenEditor \/ OpenDirect
  BY <1>1 DEF OpenEditor, OpenDirect, FromReader
<1>2. CASE OpenRecovery
  <2>1. FromReader("recover") /\ report' = [changed |-> Inventoried']
    BY <1>2 DEF OpenRecovery
  <2>2. writes' = Empty /\ catalog' = None
    BY <2>1, FromReaderKeeps
  <2>3. Written' = {}
    BY <2>2 DEF Written, Planned, Empty
  <2>. QED
    BY <2>1, <2>2, <2>3
<1>3. CASE AllocateId \/ Finish \/ Abandon
  BY <1>3, NoneAssumption DEF AllocateId, Staging, Finish, Abandon, Closed
<1>4. CASE \/ \E n \in Numbers, refs \in RefSets : EditorReplace(n, refs)
           \/ \E n \in Numbers, refs \in RefSets : DirectReplace(n, refs)
           \/ \E kept \in SUBSET Numbers, refs \in RefSets : EditCatalog(kept, refs)
  BY <1>4 DEF EditorReplace, DirectReplace, EditCatalog, Staging, Replace
<1>5. ASSUME NEW n \in Numbers, RecoveryReplace(n)
      PROVE  /\ report' = [changed |-> Inventoried'] /\ catalog' = None
             /\ Written' \subseteq Planned(plan)'
  <2>1. /\ session = "recover" /\ plan[n] # None /\ plan' = plan /\ form' = form /\ next_id' = next_id
        /\ retired' = retired /\ report' = report /\ catalog' = catalog
        /\ writes' = [writes EXCEPT ![n] = Obj(plan[n].refs)]
    BY <1>5 DEF RecoveryReplace, Replace, Staging, reading
  <2>2. Inventoried' = Inventoried
    BY <2>1 DEF Inventoried, Planned, PendingXRefId
  <2>3. Written' \subseteq Written \cup {n}
    BY <2>1 DEF Written, Planned, IInv, TypeOK
  <2>4. Planned(plan)' = Planned(plan) /\ n \in Planned(plan)
    BY <2>1 DEF Planned
  <2>. QED
    BY <2>1, <2>2, <2>3, <2>4 DEF RecoveryInv
<1>6. CASE UNCHANGED vars
  BY <1>6 DEF vars, reading, RecoveryInv, Inventoried, Written, Planned, PendingXRefId
<1>. QED
  BY Zenon, <1>1, <1>2, <1>3, <1>4, <1>5, <1>6 DEF Next

\* Only finish makes a revision, and what it defines is what was reported.
LEMMA RevisionIsInventoried ==
  ASSUME IInv, RecoveryInv, Finish, session = "recover", length' # length
  PROVE  report.changed = Planned(newest'.defs)
<1>1. newest' = NewRevision /\ Complete
  BY DEF Finish, file
<1>2. Planned(plan) = Written /\ report.changed = Inventoried /\ catalog = None
  BY <1>1 DEF Complete, RecoveryInv
<1>3. Planned(Changes) = Written \cup retired
  <2>1. \A n \in Numbers : Changes[n] = IF n \in retired THEN Free ELSE writes[n]
    BY <1>2 DEF Changes
  <2>2. Free # None /\ retired \subseteq Numbers
    BY NoneAssumption DEF Free, Definition, IInv, TypeOK
  <2>. QED
    BY <2>1, <2>2 DEF Planned, Written
<1>4. next_id \in Numbers
  BY DEF IInv, TypeOK
<1>5. [kind |-> "store", refs |-> {Root}] # None
  BY NoneAssumption, RootAssumption DEF Definition
<1>6. \A n \in Numbers : NewRevision.defs[n] = IF n \in PendingXRefId(form, next_id)
                                               THEN [kind |-> "store", refs |-> {Root}] ELSE Changes[n]
  BY DEF NewRevision
<1>7. Planned(NewRevision.defs) = Planned(Changes) \cup PendingXRefId(form, next_id)
  BY <1>4, <1>5, <1>6 DEF Planned, PendingXRefId
<1>. QED
  BY <1>1, <1>2, <1>3, <1>7 DEF Inventoried

\* preparation_objects: the objects a recovery says it changes, before it has
\* written the first of them, are those the finished revision defines.
THEOREM InventoryExact == Spec => InventoryIsExact
<1>1. Init => RecoveryInv
  BY NoneAssumption DEF Init, RecoveryInv
<1>2. Spec => [](IInv /\ RecoveryInv)
  BY InitEstablishes, StepPreserves, <1>1, RecoveryKeeps, PTL DEF Spec
<1>3. IInv /\ RecoveryInv /\ [Next]_vars
        => [(session = "recover" /\ length' # length) => report.changed = Planned(newest'.defs)]_vars
  <2>. SUFFICES ASSUME IInv, RecoveryInv, [Next]_vars, session = "recover", length' # length
                PROVE  report.changed = Planned(newest'.defs)
    OBVIOUS
  <2>1. Finish
    BY Zenon DEF Next, vars, file, OpenEditor, OpenDirect, OpenRecovery, FromReader, AllocateId,
       EditorReplace, DirectReplace, RecoveryReplace, Replace, EditCatalog, Abandon
  <2>. QED
    BY <2>1, RevisionIsInventoried
<1>. QED
  BY <1>2, <1>3, PTL DEF Spec, InventoryIsExact

(***************************************************************************)
(* Every update is a transaction of RevisionStore, on files whose trailer  *)
(* is sound.                                                               *)
(***************************************************************************)
Mapped == <<view, used, allocated, Changes, session # None>>

SoundInv == IInv /\ ~damaged

\* In a sound session the next number is neither used nor allocated.
LEMMA FreshNumber ==
  ASSUME SoundInv, session # None
  PROVE  next_id \in Numbers \ (used \cup allocated)
<1>1. size = newest.size /\ ViewSize = newest.size /\ size \in Nat /\ next_id \in Nat
  BY DEF SoundInv, IInv, TypeOK, SessionInv, ViewSize, Numbers
<1>2. \A n \in used : n \in Nat /\ n < size
  BY <1>1 DEF SoundInv, IInv, TypeOK, FileInv, SizeCoversNumbers, Numbers
<1>3. \A n \in allocated : n \in Nat /\ n < next_id
  BY DEF SoundInv, IInv, TypeOK, SessionInv, Numbers
<1>4. size <= next_id /\ next_id \in Numbers
  BY DEF SoundInv, IInv, TypeOK, SessionInv
<1>. QED
  BY <1>1, <1>2, <1>3, <1>4

\* Opening an update begins a session of the store.
LEMMA OpenBegins ==
  ASSUME SoundInv, OpenEditor \/ OpenDirect \/ OpenRecovery
  PROVE  Store!Begin
<1>. USE NoneAssumption
<1>1. PICK kind \in {"editor", "direct", "recover"} : FromReader(kind)
  BY DEF OpenEditor, OpenDirect, OpenRecovery
<1>2. session = None /\ session' # None /\ writes' = Empty /\ catalog' = None
      /\ UNCHANGED <<view, used, allocated>>
  BY <1>1, FromReaderKeeps DEF SoundInv, FromReader, file
<1>3. retired' \subseteq Live
  <2>1. CASE OpenEditor \/ OpenDirect
    BY <1>2, <2>1 DEF OpenEditor, OpenDirect, SoundInv, IInv, ClosedInv
  <2>2. CASE OpenRecovery
    BY <2>2, RecoveryPlans DEF SoundInv
  <2>. QED
    BY <2>1, <2>2
<1>4. Live \subseteq used
  BY DEF SoundInv, IInv, FileInv, Live, InUse, Planned
<1>5. Changes' = [n \in Numbers |-> IF n \in retired' THEN Free ELSE None]
  BY <1>2 DEF Changes, Empty
<1>6. Free \in Definition
  BY DEF Free, Definition
<1>7. \A n \in Numbers : Changes'[n] # None => Changes'[n] \in Definition /\ n \in used
  BY <1>3, <1>4, <1>5, <1>6
<1>8. Changes' = [n \in Numbers |-> Changes'[n]]
  BY <1>5
<1>. QED
  BY <1>2, <1>7, <1>8 DEF Store!Begin

\* allocate reserves a fresh number of the store.
LEMMA AllocateReserves ==
  ASSUME SoundInv, AllocateId
  PROVE  \E n \in Numbers : Store!Reserve(n)
<1>1. session # None
  BY NoneAssumption DEF AllocateId, Staging
<1>2. UNCHANGED <<view, used, session, Changes>>
  BY DEF AllocateId, file, Changes
<1>3. Store!Reserve(next_id)
  BY <1>1, <1>2, FreshNumber DEF Store!Reserve, AllocateId
<1>. QED
  BY <1>1, <1>3, FreshNumber

\* A replacement stages a change of a live or reserved object.
LEMMA ReplaceStages ==
  ASSUME SoundInv, session # None, NEW n \in Live \cup allocated, NEW refs \in SUBSET Numbers,
         session = "editor" => n # Root, Replace(n, refs)
  PROVE  Store!Stage(n)
<1>. USE NoneAssumption
<1>1. Obj(refs) \in Definition
  BY DEF Obj, Definition
<1>2. n \in Numbers /\ n \notin retired /\ n \in used \cup allocated
  BY DEF SoundInv, IInv, FileInv, TypeOK, Live, InUse, Planned, Replace
<1>3. n = Root => catalog = None
  BY DEF SoundInv, IInv, StagedInv
<1>4. writes \in [Numbers -> Definition \cup {None}] /\ writes' = [writes EXCEPT ![n] = Obj(refs)]
  BY DEF SoundInv, IInv, TypeOK, Replace
<1>5. UNCHANGED <<view, used, allocated, session, catalog, retired>>
  BY DEF Replace, file
<1>6. Changes' = [m \in Numbers |-> IF m = n THEN Obj(refs) ELSE Changes[m]]
  BY <1>2, <1>3, <1>4, <1>5 DEF Changes
<1>7. Changes \in [Numbers -> Definition \cup {None}]
  BY ChangesFacts DEF SoundInv
<1>8. Changes' = [Changes EXCEPT ![n] = Changes'[n]] /\ Changes'[n] \in Definition
  BY <1>1, <1>2, <1>6, <1>7
<1>. QED
  BY <1>2, <1>5, <1>8 DEF Store!Stage

\* A changed catalog is a staged change of the root.
LEMMA CatalogStages ==
  ASSUME SoundInv, NEW kept \in SUBSET Numbers, NEW refs \in RefSets, EditCatalog(kept, refs)
  PROVE  Store!Stage(Root)
<1>. USE NoneAssumption, RootAssumption
<1>1. session # None /\ catalog' = Obj(kept \cup refs)
      /\ UNCHANGED <<view, used, allocated, session, writes, retired>>
  BY DEF EditCatalog, Staging, file
<1>2. Obj(kept \cup refs) \in Definition
  BY RefSetsAssumption DEF Obj, Definition
<1>3. Root \in used
  BY DEF SoundInv, IInv, FileInv, Planned, Readable, HasBody, InUse
<1>4. Changes' = [m \in Numbers |-> IF m = Root THEN catalog' ELSE Changes[m]]
  BY <1>1, <1>2 DEF Changes
<1>5. Changes \in [Numbers -> Definition \cup {None}]
  BY <1>1, ChangesFacts DEF SoundInv
<1>6. Changes' = [Changes EXCEPT ![Root] = Changes'[Root]] /\ Changes'[Root] \in Definition
  BY <1>1, <1>2, <1>4, <1>5
<1>. QED
  BY <1>1, <1>3, <1>6 DEF Store!Stage

\* A closed session leaves nothing behind in the store.
LEMMA ClosedIsClosed == ASSUME Closed PROVE Store!Closed
  BY NoneAssumption DEF Closed, Store!Closed, Store!Nothing, Changes, Empty

\* finish commits what is staged, with its own bookkeeping, or abandons.
LEMMA FinishCommits ==
  ASSUME SoundInv, Finish
  PROVE  Store!Abandon \/ \E own \in Store!Bookkeeping : Store!Commit(own)
<1>. DEFINE xref == PendingXRefId(form, next_id)
<1>1. session # None /\ Store!Closed
  BY ClosedIsClosed DEF Finish
<1>2. CASE Written = {} /\ catalog = None
  BY <1>1, <1>2 DEF Finish, Store!Abandon, file
<1>3. CASE ~(Written = {} /\ catalog = None)
  <2>1. xref \in Store!Bookkeeping
    BY <1>1, FreshNumber DEF PendingXRefId, Store!Bookkeeping
  <2>2. /\ view' \in [Numbers -> Definition \cup {None}]
        /\ used' = used \cup Planned(Changes) \cup xref
        /\ \A n \in Numbers : n \in xref => view'[n] = [kind |-> "store", refs |-> {Root}]
        /\ \A n \in Numbers \ xref : view'[n] = IF Changes[n] = None THEN view[n] ELSE Changes[n]
    BY <1>3, RevisionFacts DEF SoundInv
  <2>3. xref \subseteq Numbers
    BY <1>1, FreshNumber DEF PendingXRefId
  <2>4. \A n \in xref : view'[n] \in Definition
    BY <2>2, <2>3, RootAssumption DEF Definition
  <2>5. view' = [n \in Numbers |-> IF n \in xref THEN view'[n]
                                   ELSE IF Changes[n] # None THEN Changes[n] ELSE view[n]]
    BY <2>2
  <2>6. Store!Commit(xref)
    BY <1>1, <2>2, <2>4, <2>5 DEF Store!Commit, Planned
  <2>. QED
    BY <2>1, <2>6
<1>. QED
  BY <1>2, <1>3

\* What the editor replaces is staged.
LEMMA EditorStages ==
  ASSUME SoundInv, NEW n \in Numbers, NEW refs \in RefSets, EditorReplace(n, refs)
  PROVE  Store!Stage(n)
  BY ReplaceStages, RefSetsAssumption, NoneAssumption
     DEF EditorReplace, Staging, SoundInv, IInv, SessionInv

\* What a direct update replaces is staged.
LEMMA DirectStages ==
  ASSUME SoundInv, NEW n \in Numbers, NEW refs \in RefSets, DirectReplace(n, refs)
  PROVE  Store!Stage(n)
  BY ReplaceStages, RefSetsAssumption, NoneAssumption DEF DirectReplace, Staging

\* What recovery replaces is staged.
LEMMA RecoveryStages ==
  ASSUME SoundInv, NEW n \in Numbers, RecoveryReplace(n)
  PROVE  Store!Stage(n)
<1>1. session # None /\ session # "editor" /\ n \in Live
  BY NoneAssumption DEF RecoveryReplace, Staging, SoundInv, IInv, SessionInv, Planned
<1>2. plan[n].refs \in SUBSET Numbers
  BY DEF RecoveryReplace, SoundInv, IInv, TypeOK, Definition
<1>. QED
  BY <1>1, <1>2, ReplaceStages DEF RecoveryReplace

\* Each step of an update is a step of a transaction, or none.
LEMMA StepSimulates == SoundInv /\ [Next]_vars => [Store!Next]_Mapped
<1>. SUFFICES ASSUME SoundInv, [Next]_vars PROVE [Store!Next]_Mapped
  OBVIOUS
<1>. USE DEF Store!Next
<1>1. CASE OpenEditor \/ OpenDirect \/ OpenRecovery
  BY <1>1, OpenBegins
<1>2. CASE AllocateId
  BY <1>2, AllocateReserves
<1>3. CASE \E n \in Numbers, refs \in RefSets : EditorReplace(n, refs)
  BY <1>3, EditorStages
<1>4. CASE \E n \in Numbers, refs \in RefSets : DirectReplace(n, refs)
  BY <1>4, DirectStages
<1>5. CASE \E n \in Numbers : RecoveryReplace(n)
  BY <1>5, RecoveryStages
<1>6. CASE \E kept \in SUBSET Numbers, refs \in RefSets : EditCatalog(kept, refs)
  BY <1>6, CatalogStages, RootAssumption
<1>7. CASE Finish
  BY <1>7, FinishCommits
<1>8. CASE Abandon
  BY <1>8, ClosedIsClosed DEF Abandon, Store!Abandon, file
<1>9. CASE UNCHANGED vars
  BY <1>9 DEF vars, file, reading, Mapped, Changes
<1>. QED
  BY Zenon, <1>1, <1>2, <1>3, <1>4, <1>5, <1>6, <1>7, <1>8, <1>9 DEF Next

\* No update damages the trailer.
LEMMA SoundStays == SoundInv /\ [Next]_vars => SoundInv'
<1>1. [Next]_vars => UNCHANGED damaged
  BY Zenon DEF Next, vars, file, OpenEditor, OpenDirect, OpenRecovery, FromReader, AllocateId,
     EditorReplace, DirectReplace, RecoveryReplace, Replace, EditCatalog, Finish, Abandon
<1>. QED
  BY <1>1, StepPreserves DEF SoundInv

\* Whatever editor is used, and however an update ends, a file with a sound
\* trailer changes by whole transactions over numbers in use or fresh ones.
THEOREM Transactions ==
  ASSUME \A b \in Bases : ~b.damaged
  PROVE  Spec => IsTransactional
<1>1. Init => SoundInv
  BY InitEstablishes DEF Init, SoundInv
<1>2. Init => Store!Init
  <2>. SUFFICES ASSUME Init PROVE Store!Init
    OBVIOUS
  <2>1. view \in [Numbers -> Definition \cup {None}]
    BY InitEstablishes DEF IInv, TypeOK
  <2>2. used = {n \in Numbers : view[n] # None} /\ allocated = {} /\ session = None
    BY DEF Init, Planned
  <2>3. Changes = [n \in Numbers |-> None]
    BY DEF Init, Changes, Empty
  <2>. QED
    BY <2>1, <2>2, <2>3 DEF Store!Init, Store!Nothing
<1>3. Spec => []SoundInv
  BY <1>1, SoundStays, PTL DEF Spec
<1>. QED
  BY <1>2, <1>3, StepSimulates, PTL DEF Spec, IsTransactional, Store!Spec, Mapped
=============================================================================
