----------------------------- MODULE ServicesProofs -----------------------------
(***************************************************************************)
(* Proofs about six services around reader and writer.                     *)
(*                                                                         *)
(* A signed document: whatever is done to it, what a signer has ruled out  *)
(* is not appended, and only that is refused; for every original, every    *)
(* way to sign and every number of revisions.                              *)
(*                                                                         *)
(* A file that is written page by page: one that is reported as written    *)
(* is complete, whatever write fails, for every number of pages, streams   *)
(* and calls and every limit on numbers and offsets.                       *)
(*                                                                         *)
(* The resource pool, which is brought in under the name Pool: statistics  *)
(* match what it holds, and no order of its locks makes two threads wait   *)
(* for each other, for every number of threads, types and resources.       *)
(*                                                                         *)
(* The memory pool, which is brought in under the name Buffers: each       *)
(* request is counted once and given a buffer of its class that is large   *)
(* enough, and queues stay within their capacity, for every number of      *)
(* threads and calls and all classes and sizes.                            *)
(*                                                                         *)
(* Calculated forms, brought in under the name Forms: a call that fails    *)
(* leaves nothing behind, whatever the calculations, values and limits.    *)
(*                                                                         *)
(* Scanned pages, brought in under the name Scanned: whatever the order in *)
(* which threads end, each page recognised is returned once, for every     *)
(* number of pages and threads.                                            *)
(***************************************************************************)
EXTENDS SignedHistory, StreamingWriter, FunctionTheorems, FiniteSetTheorems, SequenceTheorems,
        NaturalsInduction, WellFoundedInduction, TLAPS

CONSTANTS Threads, Types, Resources, Hash, MaxCalls
VARIABLES pool, stats, writer, readers, pc, adds, at, calls, missed

Pool == INSTANCE ResourcePool

-----------------------------------------------------------------------------
(* A signed document *)

\* What a sequence is made of.
Among(sequence) == {sequence[i] : i \in DOMAIN sequence}

\* The revisions are views of the document, and each has terms.
ViewsRight ==
    /\ revisions \in Seq(Among(revisions)) /\ terms \in Seq(Terms \cup {None})
    /\ \A k \in DOMAIN revisions :
          IsView(revisions[k]) /\ DOMAIN revisions[k].signatures \subseteq 1..k

TermsReadable == \A k \in DOMAIN revisions : Readable(revisions[k], k, terms[k])

\* No signature that has asked for something disappears or changes.
SignaturesStay ==
    \A k \in DOMAIN terms : terms[k] # None =>
       k \in DOMAIN Latest.signatures /\ Latest.signatures[k].locks = terms[k].locks

\* Signed fields were written by signing only.
Clean == ~reworked

Unbroken == Clean => \A k \in DOMAIN revisions : SoundView(revisions[k], terms, k)

IInv == TypeOK /\ ViewsRight /\ TermsReadable /\ SignaturesStay /\ Unbroken /\ SignedTermsHold

-----------------------------------------------------------------------------
(* Sequences *)

\* An element more.
LEMMA Appended ==
    ASSUME NEW S, NEW s \in Seq(S), NEW e
    PROVE  /\ Len(Append(s, e)) = Len(s) + 1 /\ DOMAIN Append(s, e) = 1..(Len(s) + 1)
           /\ Append(s, e)[Len(s) + 1] = e
           /\ \A i \in 1..Len(s) : Append(s, e)[i] = s[i]
           /\ \A T : S \cup {e} \subseteq T => Append(s, e) \in Seq(T)
<1>1. s \in Seq(S \cup {e})
  OBVIOUS
<1>2. \A T : S \cup {e} \subseteq T => s \in Seq(T) /\ e \in T
  OBVIOUS
<1>. QED
  BY <1>1, <1>2

\* How many revisions there are.
LEMMA Lengths ==
    ASSUME IInv
    PROVE  /\ Len(revisions) \in Nat /\ Len(revisions) > 0 /\ Len(revisions) <= MaxRevisions
           /\ DOMAIN revisions = 1..Len(revisions) /\ DOMAIN terms = 1..Len(revisions)
           /\ Len(terms) = Len(revisions)
           /\ Latest = revisions[Len(revisions)] /\ Len(revisions) \in DOMAIN revisions
<1>1. revisions \in Seq(Among(revisions)) /\ terms \in Seq(Terms \cup {None})
  BY DEF IInv, ViewsRight
<1>2. Len(revisions) \in 1..MaxRevisions /\ Len(terms) = Len(revisions)
  BY DEF IInv, TypeOK
<1>3. MaxRevisions \in Nat
  BY SignersAssumption
<1>4. Latest = revisions[Len(revisions)]
  BY DEF Latest
<1>. QED
  BY <1>1, <1>2, <1>3, <1>4

-----------------------------------------------------------------------------
(* What the policy makes of the terms. *)

\* A change that the policy allows is one that all signers allow.
LEMMA PolicyKeepsTerms ==
    ASSUME IInv, NEW kind, NEW targets, HistoryAllows(kind), LocksAllow(targets) \/ targets = {}
    PROVE  TermsAllow(kind, targets, Len(revisions))
<1>. SUFFICES ASSUME NEW k \in 1..Len(revisions), terms[k] # None
              PROVE  TermAllows(terms[k], kind, targets)
  BY DEF TermsAllow
<1>. DEFINE view == revisions[k]
            signature == view.signatures[k]
<1>1. DOMAIN revisions = 1..Len(revisions) /\ DOMAIN terms = 1..Len(revisions) /\ Len(revisions) \in Nat
  BY Lengths
<1>2. Readable(view, k, terms[k]) /\ ViewAllows(view, kind)
  BY <1>1 DEF IInv, TermsReadable, HistoryAllows
<1>3. k \in DOMAIN view.signatures /\ signature.certifies = terms[k].certifies /\ signature.locks = terms[k].locks
  BY <1>2 DEF Readable
<1>4. CertificationAllows(view, kind)
  BY <1>2 DEF ViewAllows
<1>5. terms[k].certifies # None => Permits(kind, terms[k].certifies)
  BY <1>3, <1>4 DEF CertificationAllows
<1>6. terms[k].permission # None => Permits(kind, terms[k].permission)
  BY <1>2 DEF Readable, ViewAllows, FieldAllows
<1>7. terms[k].locks # None => kind # "GenericObjects"
  BY <1>3, <1>4 DEF CertificationAllows
<1>8. terms[k].locks # None => \A n \in targets : ~Locks(terms[k].locks, n)
  <2>1. k \in DOMAIN Latest.signatures /\ Latest.signatures[k].locks = terms[k].locks
    BY <1>1 DEF IInv, SignaturesStay
  <2>. QED
    BY <2>1 DEF LocksAllow
<1>. QED
  BY <1>5, <1>6, <1>7, <1>8 DEF TermAllows

\* As long as signed fields are written by signing only, what all signers allow is
\* a change that the policy allows.
LEMMA TermsPassPolicy ==
    ASSUME IInv, Clean, NEW kind, NEW targets, TermsAllow(kind, targets, Len(revisions))
    PROVE  HistoryAllows(kind) /\ LocksAllow(targets)
<1>1. DOMAIN revisions = 1..Len(revisions) /\ Len(revisions) \in Nat /\ Len(revisions) > 0
  BY Lengths
<1>2. \A k \in 1..Len(revisions) : \A s \in DOMAIN revisions[k].signatures :
         s \in 1..Len(revisions) /\ terms[s] # None
  <2>. TAKE k \in 1..Len(revisions)
  <2>. TAKE s \in DOMAIN revisions[k].signatures
  <2>1. DOMAIN revisions[k].signatures \subseteq 1..k /\ SignaturesSound(revisions[k], terms)
    BY <1>1 DEF IInv, ViewsRight, Unbroken, SoundView
  <2>. QED
    BY <1>1, <2>1 DEF SignaturesSound
<1>3. ASSUME NEW k \in DOMAIN revisions PROVE ViewAllows(revisions[k], kind)
  <2>. DEFINE view == revisions[k]
  <2>1. SignaturesSound(view, terms) /\ CertifiedOnce(view) /\ \A n \in view.form : FieldSound(view, view.fields[n], terms, k)
    BY DEF IInv, Unbroken, SoundView
  <2>2. \A s \in DOMAIN view.signatures : TermAllows(terms[s], kind, targets)
    BY <1>1, <1>2 DEF TermsAllow
  <2>3. CertificationAllows(view, kind)
    <3>1. \A s \in DOMAIN view.signatures :
             /\ kind = "GenericObjects" => view.signatures[s].locks = None
             /\ view.signatures[s].certifies # None =>
                   /\ view.signatures[s].certifies \in 1..3
                   /\ Signed(view.signatures[s].at, view.signatures[s])
                   /\ Permits(kind, view.signatures[s].certifies)
      BY <2>1, <2>2 DEF SignaturesSound, TermAllows
    <3>. QED
      BY <2>1, <3>1 DEF CertificationAllows, CertifiedOnce
  <2>4. ASSUME NEW n \in view.form, Restricts(view.fields[n]) PROVE FieldAllows(view, view.fields[n], kind)
    <3>. DEFINE field == view.fields[n]
    <3>1. /\ field.lock.permission \in 1..3 \cup {None} /\ field.lock.permission # None
          /\ field.value \in DOMAIN view.signatures
          /\ terms[field.value].permission = field.lock.permission
          /\ Signed(field.at, view.signatures[field.value])
          /\ field.lock.own # None => Signed(field.lock.own, view.signatures[field.value])
      BY <2>1, <2>4 DEF FieldSound, Restricts
    <3>2. Signed(view.signatures[field.value].at, view.signatures[field.value])
      BY <2>1, <3>1 DEF SignaturesSound
    <3>3. Permits(kind, field.lock.permission)
      BY <2>2, <3>1 DEF TermAllows
    <3>. QED
      BY <3>1, <3>2, <3>3 DEF FieldAllows
  <2>5. \A n \in view.form : FieldAllows(view, view.fields[n], kind)
    BY <2>4 DEF FieldAllows
  <2>. QED
    BY <2>3, <2>5 DEF ViewAllows
<1>4. LocksAllow(targets)
  <2>1. Latest = revisions[Len(revisions)] /\ Len(revisions) \in 1..Len(revisions)
    BY <1>1 DEF Latest
  <2>2. SignaturesSound(Latest, terms)
    BY <1>1, <2>1 DEF IInv, Unbroken, SoundView
  <2>3. \A s \in DOMAIN Latest.signatures : TermAllows(terms[s], kind, targets)
    BY <1>2, <2>1 DEF TermsAllow
  <2>. QED
    BY <2>2, <2>3 DEF LocksAllow, SignaturesSound, TermAllows
<1>. QED
  BY <1>3, <1>4 DEF HistoryAllows

-----------------------------------------------------------------------------
(* A call *)

LockedAsBefore(view) ==
    \A k \in DOMAIN revisions, f \in Fields :
       terms[k] # None /\ terms[k].locks # None /\ Locks(terms[k].locks, f) => Value(view, f) = Value(Latest, f)

\* What a view that is appended has to be like.
Fits(kind, targets, view, term, reworks) ==
    /\ IsView(view) /\ DOMAIN view.signatures \subseteq 1..Number
    /\ term \in Terms \cup {None} /\ Readable(view, Number, term)
    /\ \A s \in DOMAIN Latest.signatures :
          s \in DOMAIN view.signatures /\ view.signatures[s].locks = Latest.signatures[s].locks
    /\ Clean /\ ~reworks => SoundView(view, Append(terms, term), Number)
    /\ kind \in Kinds => TermsAllow(kind, targets, Len(revisions)) /\ LockedAsBefore(view)

Proper(kind, targets, answer, view, term, reworks) ==
    /\ kind \in Kinds \cup {"none of ours"} /\ targets \in SUBSET Fields
    /\ answer \in {"done", "refused", "unfit"} /\ reworks \in BOOLEAN
    /\ Call(kind, targets, answer, view, term, reworks)
    /\ answer = "done" => Fits(kind, targets, view, term, reworks)
    /\ answer = "refused" /\ Clean => ~TermsAllow(kind, targets, Len(revisions))

\* A call that appends a view that fits, or is refused for a cause, keeps the invariant.
LEMMA CallKeeps ==
    ASSUME IInv, NEW kind, NEW targets, NEW answer, NEW view, NEW term, NEW reworks,
           Proper(kind, targets, answer, view, term, reworks)
    PROVE  IInv'
<1>. DEFINE n == Len(revisions)
<1>1. /\ n \in Nat /\ n > 0 /\ DOMAIN revisions = 1..n /\ DOMAIN terms = 1..n /\ Len(terms) = n
      /\ Latest = revisions[n] /\ n \in 1..n
  BY Lengths
<1>a. revisions \in Seq(Among(revisions)) /\ terms \in Seq(Terms \cup {None})
  BY DEF IInv, ViewsRight
<1>2. /\ last' = [kind |-> kind, targets |-> targets, answer |-> answer]
      /\ Len(revisions) < MaxRevisions
  BY DEF Proper, Call
<1>b. MaxRevisions \in Nat /\ n + 1 \in 1..MaxRevisions
  BY <1>1, <1>2, SignersAssumption
<1>c. kind \in Kinds \cup {"none of ours"} /\ targets \in SUBSET Fields /\ answer \in {"done", "refused", "unfit"}
  BY DEF Proper
<1>3. CASE answer # "done"
  <2>1. UNCHANGED <<revisions, terms, reworked>>
    BY <1>3 DEF Proper, Call
  <2>2. TypeOK'
    BY <1>2, <1>c, <2>1 DEF IInv, TypeOK
  <2>a. UNCHANGED <<revisions, terms>>
    BY <2>1
  <2>b. Clean' <=> Clean
    BY <2>1 DEF Clean
  <2>3. ViewsRight' /\ TermsReadable' /\ SignaturesStay' /\ Unbroken'
    <3>1. ViewsRight' /\ TermsReadable' /\ SignaturesStay'
      BY <2>a DEF IInv, ViewsRight, Among, TermsReadable, SignaturesStay, Latest, IsView, Readable, Restricts
    <3>2. Unbroken'
      BY <2>a, <2>b DEF IInv, Unbroken, SoundView, SignaturesSound, CertifiedOnce, FieldSound, Restricts, Signed
    <3>. QED
      BY <3>1, <3>2
  <2>4. SignedTermsHold'
    <3>1. TermsAllow(kind, targets, Len(revisions))' <=> TermsAllow(kind, targets, Len(revisions))
      BY <2>a DEF TermsAllow, TermAllows
    <3>2. TermsAreKept'
      BY <1>2, <1>3 DEF TermsAreKept
    <3>3. answer = "refused" /\ Clean => ~TermsAllow(kind, targets, Len(revisions))
      BY DEF Proper
    <3>4. last'.answer = answer /\ last'.kind = kind /\ last'.targets = targets
      BY <1>2
    <3>5. RefusedForCause'
      BY <2>b, <3>1, <3>3, <3>4 DEF RefusedForCause, Clean
    <3>. QED
      BY <3>2, <3>5 DEF SignedTermsHold
  <2>. QED
    BY <2>2, <2>3, <2>4 DEF IInv
<1>4. CASE answer = "done"
  <2>1. revisions' = Append(revisions, view) /\ terms' = Append(terms, term)
    BY <1>4 DEF Proper, Call
  <2>a. reworked' \in BOOLEAN /\ (Clean' => Clean /\ ~reworks)
    BY <1>4 DEF Proper, Call, Clean
  <2>2. Fits(kind, targets, view, term, reworks)
    BY <1>4 DEF Proper
  <2>3. /\ Len(revisions') = n + 1 /\ DOMAIN revisions' = 1..(n + 1) /\ revisions'[n + 1] = view
        /\ \A k \in 1..n : revisions'[k] = revisions[k]
    BY <1>a, <2>1, Appended
  <2>4. term \in Terms \cup {None} /\ Number = n + 1
    BY <2>2 DEF Fits, Number
  <2>5. /\ Len(terms') = n + 1 /\ DOMAIN terms' = 1..(n + 1) /\ terms'[n + 1] = term
        /\ \A k \in 1..n : terms'[k] = terms[k]
        /\ terms' \in Seq(Terms \cup {None})
    <3>1. (Terms \cup {None}) \cup {term} \subseteq Terms \cup {None}
      BY <2>4
    <3>. QED
      BY <1>1, <1>a, <2>1, <3>1, Appended
  <2>6. revisions' \in Seq(Among(revisions'))
    <3>1. Among(revisions) \cup {view} \subseteq Among(revisions')
      BY <1>1, <2>3 DEF Among
    <3>. QED
      BY <1>a, <2>1, <3>1, Appended
  <2>7. \A k \in 1..(n + 1) : k \in 1..n \/ k = n + 1
    BY <1>1
  <2>. HIDE DEF n
  <2>8. TypeOK'
    <3>1. \A k \in 1..(n + 1) : revisions'[k].form \subseteq DOMAIN revisions'[k].fields
      BY <1>1, <2>2, <2>3, <2>7 DEF IInv, TypeOK, Fits, IsView
    <3>2. /\ Len(revisions') \in 1..MaxRevisions /\ Len(terms') = Len(revisions')
          /\ \A k \in DOMAIN revisions' : revisions'[k].form \subseteq DOMAIN revisions'[k].fields
      BY <1>b, <2>3, <2>5, <3>1
    <3>3. /\ last'.kind \in Kinds \cup {"none of ours"} /\ last'.targets \subseteq Fields
          /\ last'.answer \in {"done", "refused", "unfit"}
      BY <1>2, <1>c
    <3>. QED
      BY <2>a, <3>2, <3>3 DEF TypeOK
  <2>9. ViewsRight'
    <3>1. \A k \in 1..(n + 1) : IsView(revisions'[k]) /\ DOMAIN revisions'[k].signatures \subseteq 1..k
      BY <1>1, <2>2, <2>3, <2>4, <2>7 DEF IInv, ViewsRight, Fits
    <3>2. \A k \in 1..(n + 1) : IsView(revisions[k])' <=> IsView(revisions'[k])
      BY DEF IsView
    <3>. QED
      BY <2>3, <2>5, <2>6, <3>1, <3>2 DEF ViewsRight
  <2>10. TermsReadable'
    <3>1. \A k \in 1..(n + 1) : Readable(revisions'[k], k, terms'[k])
      BY <1>1, <2>2, <2>3, <2>4, <2>5, <2>7 DEF IInv, TermsReadable, Fits
    <3>. QED
      BY <2>3, <3>1 DEF TermsReadable
  <2>11. SignaturesStay'
    <3>1. Latest' = view
      BY <2>3 DEF Latest
    <3>2. ASSUME NEW k \in 1..(n + 1), terms'[k] # None
          PROVE  k \in DOMAIN view.signatures /\ view.signatures[k].locks = terms'[k].locks
      <4>1. CASE k \in 1..n
        BY <1>1, <2>2, <2>5, <3>2, <4>1 DEF IInv, SignaturesStay, Fits
      <4>2. CASE k = n + 1
        BY <2>2, <2>4, <2>5, <3>2, <4>2 DEF Fits, Readable
      <4>. QED
        BY <2>7, <4>1, <4>2
    <3>. QED
      BY <2>5, <3>1, <3>2 DEF SignaturesStay
  <2>12. Unbroken'
    <3>. SUFFICES ASSUME Clean', NEW k \in 1..(n + 1) PROVE SoundView(revisions'[k], terms', k)
      BY <2>3 DEF Unbroken, SoundView, SignaturesSound, CertifiedOnce, FieldSound, Restricts, Signed
    <3>1. Clean /\ ~reworks
      BY <2>a
    <3>2. CASE k = n + 1
      BY <2>1, <2>2, <2>3, <2>4, <3>1, <3>2 DEF Fits
    <3>3. CASE k \in 1..n
      <4>. DEFINE old == revisions[k]
      <4>1. SoundView(old, terms, k) /\ DOMAIN old.signatures \subseteq 1..k /\ revisions'[k] = old
        BY <1>1, <2>3, <3>1, <3>3 DEF IInv, Unbroken, ViewsRight
      <4>2. \A s \in DOMAIN old.signatures : terms'[s] = terms[s]
        BY <1>1, <2>5, <3>3, <4>1
      <4>. HIDE DEF old
      <4>3. SignaturesSound(old, terms')
        BY <4>1, <4>2 DEF SoundView, SignaturesSound
      <4>4. \A m \in old.form : FieldSound(old, old.fields[m], terms', k)
        BY <4>1, <4>2 DEF SoundView, FieldSound
      <4>. QED
        BY <4>1, <4>3, <4>4 DEF SoundView
    <3>. QED
      BY <2>7, <3>2, <3>3
  <2>13. SignedTermsHold'
    <3>1. kind \in Kinds => TermsAllow(kind, targets, n)
      BY <2>2 DEF Fits, n
    <3>2. (n + 1) - 1 = n
      BY <1>1
    <3>3. TermsAreKept'
      <4>. SUFFICES ASSUME kind \in Kinds PROVE TermsAreKept'
        BY <1>2 DEF TermsAreKept
      <4>1. \A k \in 1..n : TermAllows(terms'[k], kind, targets) \/ terms'[k] = None
        BY <2>5, <3>1 DEF TermsAllow
      <4>2. Latest = revisions'[n]
        BY <1>1, <2>3
      <4>3. \A k \in 1..n, f \in Fields : terms'[k] # None /\ terms'[k].locks # None /\ Locks(terms'[k].locks, f)
               => Value(revisions'[n + 1], f) = Value(revisions'[n], f)
        BY <1>1, <2>2, <2>3, <2>5, <4>2 DEF Fits, LockedAsBefore
      <4>. QED
        BY <1>2, <2>3, <3>2, <4>1, <4>3 DEF TermsAreKept, TermsAllow
    <3>. QED
      BY <1>2, <1>4, <3>3 DEF SignedTermsHold, RefusedForCause
  <2>. QED
    BY <2>8, <2>9, <2>10, <2>11, <2>12, <2>13 DEF IInv
<1>. QED
  BY <1>3, <1>4

-----------------------------------------------------------------------------
(* Views that are appended *)

Extends(view) ==
    \A s \in DOMAIN Latest.signatures :
       s \in DOMAIN view.signatures /\ view.signatures[s] = Latest.signatures[s]

\* The latest view is one of the document.
LEMMA LatestView ==
    ASSUME IInv
    PROVE  /\ IsView(Latest) /\ DOMAIN Latest.signatures \subseteq 1..Len(revisions)
           /\ Number \in Nat /\ Number = Len(revisions) + 1 /\ 1..Len(revisions) \subseteq 1..Number
           /\ Clean => SoundView(Latest, terms, Len(revisions))
           /\ None \notin Nat
<1>1. Len(revisions) \in DOMAIN revisions /\ Latest = revisions[Len(revisions)] /\ Len(revisions) \in Nat
  BY Lengths
<1>2. IsView(Latest) /\ DOMAIN Latest.signatures \subseteq 1..Len(revisions)
  BY <1>1 DEF IInv, ViewsRight
<1>3. Clean => SoundView(Latest, terms, Len(revisions))
  BY <1>1 DEF IInv, Unbroken
<1>4. Number \in Nat /\ Number = Len(revisions) + 1 /\ 1..Len(revisions) \subseteq 1..Number
  BY <1>1 DEF Number
<1>. QED
  BY <1>2, <1>3, <1>4, SignersAssumption

\* The terms of the signatures so far are not touched by another.
LEMMA OldTerms ==
    ASSUME IInv, NEW term
    PROVE  \A k \in 1..Len(revisions) : Append(terms, term)[k] = terms[k]
<1>1. terms \in Seq(Terms \cup {None}) /\ Len(terms) = Len(revisions)
  BY Lengths DEF IInv, ViewsRight
<1>. QED
  BY <1>1, Appended

\* Values that are not among the targets are those that signers may have locked.
LEMMA ValuesKept ==
    ASSUME IInv, NEW kind, NEW targets, NEW view, TermsAllow(kind, targets, Len(revisions)),
           \A f \in Fields \ targets : Value(view, f) = Value(Latest, f)
    PROVE  LockedAsBefore(view)
<1>. SUFFICES ASSUME NEW k \in DOMAIN revisions, NEW f \in Fields, terms[k] # None, terms[k].locks # None,
                     Locks(terms[k].locks, f)
              PROVE  f \notin targets
  BY DEF LockedAsBefore
<1>1. k \in 1..Len(revisions)
  BY Lengths
<1>. QED
  BY <1>1 DEF TermsAllow, TermAllows

\* A field that is not written stays sound.
LEMMA OldFieldSound ==
    ASSUME IInv, Clean, NEW view, NEW term, Extends(view), NEW m \in Latest.form
    PROVE  FieldSound(view, Latest.fields[m], Append(terms, term), Number)
<1>. DEFINE field == Latest.fields[m]
            asked == Append(terms, term)
<1>1. FieldSound(Latest, field, terms, Len(revisions)) /\ IsView(Latest) /\ None \notin Nat
  BY LatestView DEF SoundView
<1>2. \A k \in 1..Len(revisions) : asked[k] = terms[k]
  BY OldTerms
<1>3. DOMAIN Latest.signatures \subseteq 1..Len(revisions) /\ Number = Len(revisions) + 1 /\ Len(revisions) \in Nat
  BY LatestView, Lengths
<1>4. field \in FieldObjects
  BY <1>1 DEF IsView
<1>. SUFFICES ASSUME field.type = "Sig", field.lock # None PROVE FieldSound(view, field, asked, Number)
  BY DEF FieldSound
<1>. HIDE DEF field, asked
<1>5. field.lock.permission \in 1..3 \cup {None} /\ (field.lock.own # None => field.lock.own <= Number)
  <2>1. field.lock \in FieldLocks
    BY <1>4 DEF FieldObjects
  <2>2. field.lock.own \in Nat \cup {None}
    BY <2>1 DEF FieldLocks
  <2>3. field.lock.own # None => field.lock.own <= Len(revisions)
    BY <1>1 DEF FieldSound
  <2>. QED
    BY <1>1, <1>3, <2>2, <2>3 DEF FieldSound
<1>6. ASSUME Restricts(field)
      PROVE  /\ field.value \in DOMAIN view.signatures
             /\ asked[field.value].permission = field.lock.permission
             /\ Signed(field.at, view.signatures[field.value])
             /\ field.lock.own # None => Signed(field.lock.own, view.signatures[field.value])
  <2>1. /\ field.value \in DOMAIN Latest.signatures
        /\ terms[field.value].permission = field.lock.permission
        /\ Signed(field.at, Latest.signatures[field.value])
        /\ field.lock.own # None => Signed(field.lock.own, Latest.signatures[field.value])
    BY <1>1, <1>6 DEF FieldSound
  <2>2. view.signatures[field.value] = Latest.signatures[field.value] /\ field.value \in DOMAIN view.signatures
    BY <2>1 DEF Extends
  <2>3. asked[field.value] = terms[field.value]
    BY <1>2, <1>3, <2>1
  <2>. QED
    BY <2>1, <2>2, <2>3
<1>. QED
  BY <1>5, <1>6 DEF FieldSound

\* The signatures stay sound if none is added.
LEMMA OldSignaturesSound ==
    ASSUME IInv, Clean, NEW view, NEW term, view.signatures = Latest.signatures,
           view.certification = Latest.certification
    PROVE  SignaturesSound(view, Append(terms, term)) /\ CertifiedOnce(view)
<1>1. SignaturesSound(Latest, terms) /\ CertifiedOnce(Latest)
  BY LatestView DEF SoundView
<1>2. \A s \in DOMAIN Latest.signatures : Append(terms, term)[s] = terms[s]
  BY LatestView, OldTerms
<1>3. SignaturesSound(view, Append(terms, term))
  BY <1>1, <1>2 DEF SignaturesSound
<1>4. CertifiedOnce(view)
  BY <1>1 DEF CertifiedOnce
<1>. QED
  BY <1>3, <1>4

\* A change of fields alone.
LEMMA FieldsFit ==
    ASSUME IInv, NEW kind, NEW targets, NEW view, NEW reworks,
           IsView(view), view.signatures = Latest.signatures, view.certification = Latest.certification,
           Clean /\ ~reworks =>
              \A m \in view.form : FieldSound(view, view.fields[m], Append(terms, None), Number),
           kind \in Kinds => TermsAllow(kind, targets, Len(revisions)) /\ LockedAsBefore(view)
    PROVE  Fits(kind, targets, view, None, reworks)
<1>1. DOMAIN view.signatures \subseteq 1..Number
  BY LatestView
<1>2. Readable(view, Number, None)
  BY DEF Readable
<1>3. ASSUME Clean, ~reworks PROVE SoundView(view, Append(terms, None), Number)
  <2>1. SignaturesSound(view, Append(terms, None)) /\ CertifiedOnce(view)
    BY <1>3, OldSignaturesSound
  <2>. QED
    BY <1>3, <2>1 DEF SoundView
<1>. QED
  BY <1>1, <1>2, <1>3 DEF Fits

-----------------------------------------------------------------------------
(* The fields of a view *)

\* The fields of the latest view are field objects.
LEMMA FieldType ==
    ASSUME IInv, NEW n \in DOMAIN Latest.fields
    PROVE  Field(n) \in FieldObjects
  BY LatestView DEF IsView, Field

\* A field that is written.
LEMMA WithFieldIs ==
    ASSUME IInv, NEW n \in Fields, NEW field \in FieldObjects
    PROVE  LET view == WithField(n, field)
           IN  /\ IsView(view) /\ view.form = Latest.form \cup {n}
               /\ view.signatures = Latest.signatures /\ view.certification = Latest.certification
               /\ view.place = Latest.place
               /\ view.fields[n] = [field EXCEPT !.at = Number] /\ view.fields[n] \in FieldObjects
               /\ \A m \in DOMAIN Latest.fields \ {n} : view.fields[m] = Latest.fields[m]
<1>. DEFINE fields == [m \in DOMAIN Latest.fields \cup {n} |->
                          IF m = n THEN [field EXCEPT !.at = Number] ELSE Latest.fields[m]]
            view == WithField(n, field)
<1>1. IsView(Latest) /\ Number \in Nat
  BY LatestView
<1>2. Latest = [certification |-> Latest.certification, form |-> Latest.form, place |-> Latest.place,
                fields |-> Latest.fields, signatures |-> Latest.signatures]
  BY <1>1 DEF IsView
<1>3. [field EXCEPT !.at = Number] \in FieldObjects
  BY <1>1 DEF FieldObjects
<1>4. fields \in [DOMAIN Latest.fields \cup {n} -> FieldObjects]
  BY <1>1, <1>3 DEF IsView
<1>5. view = [Latest EXCEPT !.form = @ \cup {n}, !.fields = fields]
  BY DEF WithField
<1>6. fields[n] = [field EXCEPT !.at = Number] /\ \A m \in DOMAIN Latest.fields \ {n} : fields[m] = Latest.fields[m]
  OBVIOUS
<1>. HIDE DEF fields, view
<1>7. view = [certification |-> Latest.certification, form |-> Latest.form \cup {n}, place |-> Latest.place,
              fields |-> fields, signatures |-> Latest.signatures]
  BY <1>2, <1>5
<1>8. DOMAIN fields = DOMAIN Latest.fields \cup {n}
  BY <1>4
<1>9. IsView(view)
  <2>1. /\ view.certification \in Nat \cup {None} /\ view.place \in {"object", "catalog"}
        /\ view.signatures \in [DOMAIN view.signatures -> Signatures]
    BY <1>1, <1>7 DEF IsView
  <2>2. /\ view.form \subseteq DOMAIN view.fields /\ DOMAIN view.fields \subseteq Fields
        /\ view.fields \in [DOMAIN view.fields -> FieldObjects]
    BY <1>1, <1>4, <1>7, <1>8 DEF IsView
  <2>. QED
    BY <1>7, <2>1, <2>2 DEF IsView
<1>. QED
  BY <1>3, <1>6, <1>7, <1>9 DEF view

\* A change of one field that is a target.
LEMMA WithFieldFits ==
    ASSUME IInv, NEW kind, NEW n \in Fields, NEW field \in FieldObjects, NEW reworks,
           Clean /\ ~reworks =>
              FieldSound(WithField(n, field), [field EXCEPT !.at = Number], Append(terms, None), Number),
           kind \in Kinds => TermsAllow(kind, {n}, Len(revisions))
    PROVE  Fits(kind, {n}, WithField(n, field), None, reworks)
<1>. DEFINE view == WithField(n, field)
<1>1. /\ IsView(view) /\ view.form = Latest.form \cup {n}
      /\ view.signatures = Latest.signatures /\ view.certification = Latest.certification
      /\ view.fields[n] = [field EXCEPT !.at = Number]
      /\ \A m \in DOMAIN Latest.fields \ {n} : view.fields[m] = Latest.fields[m]
  BY WithFieldIs
<1>2. Latest.form \subseteq DOMAIN Latest.fields
  BY LatestView DEF IsView
<1>. HIDE DEF view
<1>3. \A f \in Fields \ {n} : Value(view, f) = Value(Latest, f)
  BY <1>1, <1>2 DEF Value
<1>4. kind \in Kinds => TermsAllow(kind, {n}, Len(revisions)) /\ LockedAsBefore(view)
  BY <1>3, ValuesKept
<1>5. ASSUME Clean, ~reworks, NEW m \in view.form
      PROVE  FieldSound(view, view.fields[m], Append(terms, None), Number)
  <2>1. CASE m = n
    BY <1>1, <1>5, <2>1 DEF view
  <2>2. CASE m # n
    <3>1. m \in Latest.form /\ view.fields[m] = Latest.fields[m]
      BY <1>1, <1>2, <2>2
    <3>2. Extends(view)
      BY <1>1 DEF Extends
    <3>. QED
      BY <1>5, <3>1, <3>2, OldFieldSound
  <2>. QED
    BY <2>1, <2>2
<1>6. Fits(kind, {n}, view, None, reworks)
  BY <1>1, <1>4, <1>5, FieldsFit
<1>. QED
  BY <1>6 DEF view

\* A field that is not signed, with the lock it had, is sound.
LEMMA UnsignedSound ==
    ASSUME IInv, Clean, NEW view, NEW term, Extends(view), NEW n \in Latest.form, NEW field,
           field.type = Field(n).type, field.lock = Field(n).lock, field.value = None
    PROVE  FieldSound(view, field, Append(terms, term), Number)
<1>1. FieldSound(view, Field(n), Append(terms, term), Number)
  BY OldFieldSound DEF Field
<1>2. ~Restricts(field)
  BY DEF Restricts
<1>. QED
  BY <1>1, <1>2 DEF FieldSound

-----------------------------------------------------------------------------
(* The actions *)

\* A call of the library that asks the policy.
LEMMA Decided ==
    ASSUME IInv, NEW kind \in Kinds, NEW targets \in SUBSET Fields, NEW answer \in {"done", "refused", "unfit"},
           NEW view, NEW term, NEW reworks, reworks \in BOOLEAN,
           Call(kind, targets, answer, view, term, reworks),
           answer = "done" => HistoryAllows(kind) /\ (LocksAllow(targets) \/ targets = {}),
           answer = "refused" => ~HistoryAllows(kind) \/ ~LocksAllow(targets),
           answer = "done" /\ TermsAllow(kind, targets, Len(revisions)) => Fits(kind, targets, view, term, reworks)
    PROVE  Proper(kind, targets, answer, view, term, reworks)
<1>1. answer = "done" => Fits(kind, targets, view, term, reworks)
  BY PolicyKeepsTerms
<1>2. answer = "refused" /\ Clean => ~TermsAllow(kind, targets, Len(revisions))
  BY TermsPassPolicy
<1>. QED
  BY <1>1, <1>2, Zenon DEF Proper

\* What an answer says.
LEMMA Answers ==
    ASSUME NEW allowed, NEW fit
    PROVE  /\ Answer(allowed, fit) \in {"done", "refused", "unfit"}
           /\ Answer(allowed, fit) = "done" => allowed /\ fit
           /\ Answer(allowed, fit) = "refused" => ~allowed
  BY DEF Answer

\* What a field object is made of.
LEMMA FieldObject ==
    ASSUME NEW type \in {"Sig", "Tx"}, NEW value \in Nat \cup {None}, NEW lock \in FieldLocks \cup {None},
           NEW marks \in SUBSET Marks, NEW written \in Nat
    PROVE  [type |-> type, value |-> value, lock |-> lock, marks |-> marks, at |-> written] \in FieldObjects
  BY DEF FieldObjects

\* A new field with any marks.
LEMMA NewField ==
    ASSUME IInv, NEW marks \in SUBSET Marks
    PROVE  /\ [EmptyField EXCEPT !.marks = marks] \in FieldObjects
           /\ [EmptyField EXCEPT !.marks = marks].lock = None
<1>. DEFINE field == [type |-> "Sig", value |-> None, lock |-> None, marks |-> marks, at |-> Number]
<1>1. [EmptyField EXCEPT !.marks = marks] = field
  BY DEF EmptyField
<1>2. field \in FieldObjects
  BY LatestView, FieldObject
<1>3. field.lock = None
  OBVIOUS
<1>. HIDE DEF field
<1>. QED
  BY <1>1, <1>2, <1>3

\* A slot is created.
LEMMA CreateSlotKeeps ==
    ASSUME IInv, CreateSlot
    PROVE  IInv'
<1>1. PICK n \in Fields, fit \in BOOLEAN :
         Call("FormStructure", {n}, Answer(Allows("FormStructure", {n}), fit),
              WithField(n, [EmptyField EXCEPT !.marks = {"slot"}]), None, FALSE)
  BY Zenon DEF CreateSlot
<1>. DEFINE field == [EmptyField EXCEPT !.marks = {"slot"}]
            answer == Answer(Allows("FormStructure", {n}), fit)
<1>2. field \in FieldObjects /\ field.lock = None
  BY NewField DEF Marks
<1>3. [field EXCEPT !.at = Number].lock = None
  BY <1>2 DEF FieldObjects
<1>. HIDE DEF field
<1>4. TermsAllow("FormStructure", {n}, Len(revisions)) =>
         Fits("FormStructure", {n}, WithField(n, field), None, FALSE)
  BY <1>2, <1>3, WithFieldFits DEF FieldSound
<1>5. answer \in {"done", "refused", "unfit"} /\ (answer = "done" => Allows("FormStructure", {n}))
      /\ (answer = "refused" => ~Allows("FormStructure", {n}))
  BY Answers
<1>6. "FormStructure" \in Kinds /\ {n} \in SUBSET Fields
  BY DEF Kinds
<1>7. Call("FormStructure", {n}, answer, WithField(n, field), None, FALSE)
  BY <1>1 DEF field
<1>8. Proper("FormStructure", {n}, answer, WithField(n, field), None, FALSE)
  BY <1>4, <1>5, <1>6, <1>7, Decided DEF Allows
<1>. QED
  BY <1>8, CallKeeps

\* A slot is drawn.
LEMMA DrawSlotKeeps ==
    ASSUME IInv, DrawSlot
    PROVE  IInv'
<1>1. PICK n \in Fields, marks \in {{"drawn"}, {"drawn", "completed"}} :
         Call("FormFill", {n},
              IF IsSlot(n) /\ ~Completed(n) THEN Answer(Allows("FormFill", {n}), TRUE) ELSE "unfit",
              WithField(n, [Field(n) EXCEPT !.marks = @ \cup marks]), None, FALSE)
  BY Zenon DEF DrawSlot
<1>. DEFINE field == [Field(n) EXCEPT !.marks = @ \cup marks]
            view == WithField(n, field)
            answer == IF IsSlot(n) /\ ~Completed(n) THEN Answer(Allows("FormFill", {n}), TRUE) ELSE "unfit"
<1>2. answer \in {"done", "refused", "unfit"} /\ (answer = "refused" => ~Allows("FormFill", {n}))
      /\ (answer = "done" => Allows("FormFill", {n}) /\ IsSlot(n) /\ ~Completed(n))
  BY Answers
<1>3. Call("FormFill", {n}, answer, view, None, FALSE)
  BY <1>1
<1>4. "FormFill" \in Kinds /\ {n} \in SUBSET Fields
  BY DEF Kinds
<1>. HIDE DEF answer
<1>5. ASSUME answer = "done", TermsAllow("FormFill", {n}, Len(revisions))
      PROVE  Fits("FormFill", {n}, view, None, FALSE)
  <2>1. n \in Latest.form /\ Field(n).value = None
    BY <1>2, <1>5 DEF IsSlot, InForm, Completed
  <2>2. Field(n) \in FieldObjects
    BY <2>1, LatestView, FieldType DEF IsView
  <2>3. field \in FieldObjects
    BY <2>2 DEF FieldObjects, Marks
  <2>4. /\ [field EXCEPT !.at = Number].type = Field(n).type
        /\ [field EXCEPT !.at = Number].lock = Field(n).lock
        /\ [field EXCEPT !.at = Number].value = None
    BY <2>1, <2>2 DEF FieldObjects
  <2>. HIDE DEF field
  <2>5. view.signatures = Latest.signatures
    BY <2>3, WithFieldIs
  <2>6. Extends(view)
    BY <2>5 DEF Extends
  <2>7. Clean => FieldSound(view, [field EXCEPT !.at = Number], Append(terms, None), Number)
    BY <2>1, <2>4, <2>6, UnsignedSound
  <2>. QED
    BY <1>5, <2>3, <2>7, WithFieldFits
<1>. HIDE DEF view
<1>6. Proper("FormFill", {n}, answer, view, None, FALSE)
  BY <1>2, <1>3, <1>4, <1>5, Decided DEF Allows
<1>. QED
  BY <1>6, CallKeeps

\* A slot is removed.
LEMMA RemoveSlotKeeps ==
    ASSUME IInv, RemoveSlot
    PROVE  IInv'
<1>1. PICK n \in Fields :
         Call("FormStructure", {n},
              IF IsSlot(n) /\ ~Completed(n) THEN Answer(Allows("FormStructure", {n}), TRUE) ELSE "unfit",
              [Latest EXCEPT !.form = @ \ {n}, !.place = "catalog"], None, FALSE)
  BY Zenon DEF RemoveSlot
<1>. DEFINE view == [Latest EXCEPT !.form = @ \ {n}, !.place = "catalog"]
            answer == IF IsSlot(n) /\ ~Completed(n) THEN Answer(Allows("FormStructure", {n}), TRUE) ELSE "unfit"
<1>2. answer \in {"done", "refused", "unfit"} /\ (answer = "refused" => ~Allows("FormStructure", {n}))
      /\ (answer = "done" => Allows("FormStructure", {n}))
  BY Answers
<1>3. Call("FormStructure", {n}, answer, view, None, FALSE)
  BY <1>1
<1>4. "FormStructure" \in Kinds /\ {n} \in SUBSET Fields
  BY DEF Kinds
<1>5. /\ IsView(view) /\ view.signatures = Latest.signatures /\ view.certification = Latest.certification
      /\ view.form = Latest.form \ {n} /\ view.fields = Latest.fields
  <2>1. IsView(Latest)
    BY LatestView
  <2>a. Latest = [certification |-> Latest.certification, form |-> Latest.form, place |-> Latest.place,
                  fields |-> Latest.fields, signatures |-> Latest.signatures]
    BY <2>1 DEF IsView
  <2>2. view = [certification |-> Latest.certification, form |-> Latest.form \ {n}, place |-> "catalog",
                fields |-> Latest.fields, signatures |-> Latest.signatures]
    <3>. DEFINE without == [Latest EXCEPT !.form = @ \ {n}]
    <3>1. without = [certification |-> Latest.certification, form |-> Latest.form \ {n}, place |-> Latest.place,
                     fields |-> Latest.fields, signatures |-> Latest.signatures]
      BY <2>a
    <3>2. view = [without EXCEPT !.place = "catalog"]
      OBVIOUS
    <3>. HIDE DEF without, view
    <3>. QED
      BY <3>1, <3>2
  <2>. HIDE DEF view
  <2>. QED
    BY <2>1, <2>2 DEF IsView
<1>. HIDE DEF answer, view
<1>6. ASSUME TermsAllow("FormStructure", {n}, Len(revisions))
      PROVE  Fits("FormStructure", {n}, view, None, FALSE)
  <2>1. \A f \in Fields \ {n} : Value(view, f) = Value(Latest, f)
    BY <1>5 DEF Value
  <2>2. LockedAsBefore(view)
    BY <1>6, <2>1, ValuesKept
  <2>3. Extends(view)
    BY <1>5 DEF Extends
  <2>4. Clean => \A m \in view.form : FieldSound(view, view.fields[m], Append(terms, None), Number)
    BY <1>5, <2>3, OldFieldSound
  <2>. QED
    BY <1>5, <1>6, <2>2, <2>4, FieldsFit
<1>7. Proper("FormStructure", {n}, answer, view, None, FALSE)
  BY <1>2, <1>3, <1>4, <1>6, Decided DEF Allows
<1>. QED
  BY <1>7, CallKeeps

\* Pages or annotations are edited.
LEMMA EditPagesKeeps ==
    ASSUME IInv, EditPages
    PROVE  IInv'
<1>1. PICK kind \in {"PageTreeReorder", "PageTreeMutation", "AddAnnotation", "OcrTextLayer", "TaggedStructure"} :
         Call(kind, {}, Answer(HistoryAllows(kind), TRUE), Latest, None, FALSE)
  BY Zenon DEF EditPages
<1>. DEFINE answer == Answer(HistoryAllows(kind), TRUE)
<1>2. answer \in {"done", "refused", "unfit"} /\ (answer = "refused" => ~HistoryAllows(kind))
      /\ (answer = "done" => HistoryAllows(kind))
  BY Answers
<1>3. Call(kind, {}, answer, Latest, None, FALSE)
  BY <1>1
<1>4. kind \in Kinds /\ {} \in SUBSET Fields
  BY DEF Kinds
<1>. HIDE DEF answer
<1>5. ASSUME TermsAllow(kind, {}, Len(revisions))
      PROVE  Fits(kind, {}, Latest, None, FALSE)
  <2>1. LockedAsBefore(Latest)
    BY DEF LockedAsBefore
  <2>2. Extends(Latest)
    BY DEF Extends
  <2>3. Clean => \A m \in Latest.form : FieldSound(Latest, Latest.fields[m], Append(terms, None), Number)
    BY <2>2, OldFieldSound
  <2>4. IsView(Latest)
    BY LatestView
  <2>. QED
    BY <1>5, <2>1, <2>3, <2>4, FieldsFit
<1>6. Proper(kind, {}, answer, Latest, None, FALSE)
  BY <1>2, <1>3, <1>4, <1>5, Decided
<1>. QED
  BY <1>6, CallKeeps

\* Fields are filled in.
LEMMA FillFormKeeps ==
    ASSUME IInv, FillForm
    PROVE  IInv'
<1>. DEFINE written(targets) ==
                [n \in DOMAIN Latest.fields |-> IF n \in targets
                                                THEN [Latest.fields[n] EXCEPT !.value = Text, !.at = Number]
                                                ELSE Latest.fields[n]]
            filled(targets) == [Latest EXCEPT !.fields = written(targets)]
            found(targets) == Latest.place = "object" /\ targets \subseteq Latest.form
            answer(targets) ==
                IF HistoryAllows("FormFill") /\ ~found(targets) THEN "unfit"
                ELSE Answer(Allows("FormFill", targets), \A n \in targets : ~Marked(n, "completed"))
<1>1. PICK targets \in (SUBSET Fields) \ {{}} :
         Call("FormFill", targets, answer(targets), filled(targets), None, \E n \in targets : Field(n).type = "Sig")
  BY Zenon DEF FillForm
<1>. DEFINE view == filled(targets)
            told == answer(targets)
            fields == written(targets)
            reworks == \E n \in targets : Field(n).type = "Sig"
<1>2. told \in {"done", "refused", "unfit"} /\ (told = "refused" => ~Allows("FormFill", targets))
      /\ (told = "done" => Allows("FormFill", targets) /\ (HistoryAllows("FormFill") => found(targets)))
  BY Answers
<1>3. Call("FormFill", targets, told, view, None, reworks)
  BY <1>1
<1>4. "FormFill" \in Kinds /\ targets \in SUBSET Fields
  BY DEF Kinds
<1>5. told = "done" => HistoryAllows("FormFill") /\ LocksAllow(targets) /\ targets \subseteq Latest.form
  BY <1>2 DEF Allows
<1>6. IsView(Latest) /\ Number \in Nat /\ Latest.form \subseteq DOMAIN Latest.fields
  BY LatestView DEF IsView
<1>7. Latest = [certification |-> Latest.certification, form |-> Latest.form, place |-> Latest.place,
                fields |-> Latest.fields, signatures |-> Latest.signatures]
  BY <1>6 DEF IsView
<1>8. \A n \in DOMAIN Latest.fields :
         /\ [Latest.fields[n] EXCEPT !.value = Text, !.at = Number] \in FieldObjects
         /\ [Latest.fields[n] EXCEPT !.value = Text, !.at = Number].type = Latest.fields[n].type
  <2>. TAKE n \in DOMAIN Latest.fields
  <2>1. Latest.fields[n] \in FieldObjects
    BY <1>6 DEF IsView
  <2>. QED
    BY <1>6, <2>1 DEF FieldObjects, Text
<1>9. fields \in [DOMAIN Latest.fields -> FieldObjects]
  BY <1>6, <1>8 DEF IsView
<1>10. /\ \A n \in DOMAIN Latest.fields \ targets : fields[n] = Latest.fields[n]
       /\ \A n \in DOMAIN Latest.fields : fields[n].type = Latest.fields[n].type
  BY <1>8
<1>11. view = [Latest EXCEPT !.fields = fields]
  OBVIOUS
<1>. HIDE DEF written, filled, answer, found, view, told, fields
<1>12. view = [certification |-> Latest.certification, form |-> Latest.form, place |-> Latest.place,
               fields |-> fields, signatures |-> Latest.signatures]
  BY <1>7, <1>11
<1>13. IsView(view)
  <2>1. DOMAIN fields = DOMAIN Latest.fields
    BY <1>9
  <2>. QED
    BY <1>6, <1>9, <1>12, <2>1 DEF IsView
<1>14. /\ view.signatures = Latest.signatures /\ view.certification = Latest.certification
       /\ view.form = Latest.form /\ view.fields = fields
  BY <1>12
<1>15. ASSUME told = "done", TermsAllow("FormFill", targets, Len(revisions))
       PROVE  Fits("FormFill", targets, view, None, reworks)
  <2>1. \A f \in Fields \ targets : Value(view, f) = Value(Latest, f)
    BY <1>6, <1>10, <1>14 DEF Value
  <2>2. LockedAsBefore(view)
    BY <1>15, <2>1, ValuesKept
  <2>3. Extends(view)
    BY <1>14 DEF Extends
  <2>4. ASSUME Clean, ~reworks, NEW m \in view.form
        PROVE  FieldSound(view, view.fields[m], Append(terms, None), Number)
    <3>1. CASE m \in targets
      <4>1. view.fields[m].type # "Sig"
        BY <1>6, <1>10, <1>14, <2>4, <3>1 DEF Field
      <4>. QED
        BY <4>1 DEF FieldSound
    <3>2. CASE m \notin targets
      <4>1. view.fields[m] = Latest.fields[m] /\ m \in Latest.form
        BY <1>6, <1>10, <1>14, <3>2
      <4>. QED
        BY <2>3, <2>4, <4>1, OldFieldSound
    <3>. QED
      BY <3>1, <3>2
  <2>. HIDE DEF reworks
  <2>. QED
    BY <1>13, <1>14, <1>15, <2>2, <2>4, FieldsFit
<1>16. reworks \in BOOLEAN
  OBVIOUS
<1>. HIDE DEF reworks
<1>17. Proper("FormFill", targets, told, view, None, reworks)
  BY <1>2, <1>3, <1>4, <1>5, <1>15, <1>16, Decided DEF Allows
<1>. QED
  BY <1>17, CallKeeps

\* Views written in another way are views of the document, with the same signatures.
LEMMA RewrittenIs ==
    ASSUME IInv, NEW view \in Rewritten
    PROVE  IsView(view) /\ view.signatures = Latest.signatures /\ view.certification = Latest.certification
<1>1. IsView(Latest) /\ Number \in Nat
  BY LatestView
<1>2. Latest = [certification |-> Latest.certification, form |-> Latest.form, place |-> Latest.place,
                fields |-> Latest.fields, signatures |-> Latest.signatures]
  BY <1>1 DEF IsView
<1>3. \A n \in Latest.form : Field(n) \in FieldObjects /\ n \in Fields /\ n \in DOMAIN Latest.fields
  BY <1>1, FieldType DEF IsView
<1>4. CASE \E form \in (SUBSET DOMAIN Latest.fields) \ {Latest.form} : view = Reformed(form)
  <2>1. PICK form \in SUBSET DOMAIN Latest.fields : view = [Latest EXCEPT !.form = form]
    BY <1>4, Zenon DEF Reformed
  <2>2. view = [certification |-> Latest.certification, form |-> form, place |-> Latest.place,
                fields |-> Latest.fields, signatures |-> Latest.signatures]
    BY <1>2, <2>1
  <2>. QED
    BY <1>1, <2>2 DEF IsView
<1>5. CASE \E n \in SignatureFields, value \in {None, Text} \cup DOMAIN Latest.signatures : view = Revalued(n, value)
  <2>1. PICK n \in SignatureFields, value \in {None, Text} \cup DOMAIN Latest.signatures :
           view = WithField(n, [Field(n) EXCEPT !.value = value])
    BY <1>5, Zenon DEF Revalued
  <2>2. value \in Nat \cup {None}
    BY LatestView, Lengths DEF Text
  <2>3. Field(n) \in FieldObjects /\ n \in Fields
    BY <1>3 DEF SignatureFields
  <2>4. [Field(n) EXCEPT !.value = value] \in FieldObjects
    BY <2>2, <2>3 DEF FieldObjects
  <2>. QED
    BY <2>1, <2>3, <2>4, WithFieldIs
<1>6. CASE \E n \in SignatureFields : view = Relocked(n)
  <2>1. PICK n \in SignatureFields :
           view = WithField(n, [Field(n) EXCEPT !.lock = [permission |-> 3, own |-> None]])
    BY <1>6, Zenon DEF Relocked
  <2>2. [permission |-> 3, own |-> None] \in FieldLocks
    BY DEF FieldLocks
  <2>3. Field(n) \in FieldObjects /\ n \in Fields
    BY <1>3 DEF SignatureFields
  <2>4. [Field(n) EXCEPT !.lock = [permission |-> 3, own |-> None]] \in FieldObjects
    BY <2>2, <2>3 DEF FieldObjects
  <2>. QED
    BY <2>1, <2>3, <2>4, WithFieldIs
<1>7. CASE \E n \in SignatureFields : view = RelockedApart(n)
  <2>1. PICK n \in SignatureFields : view = [Latest EXCEPT !.fields[n].lock = [permission |-> 3, own |-> Number]]
    BY <1>7, Zenon DEF RelockedApart
  <2>. DEFINE field == [Latest.fields[n] EXCEPT !.lock = [permission |-> 3, own |-> Number]]
              fields == [Latest.fields EXCEPT ![n] = field]
  <2>2. [permission |-> 3, own |-> Number] \in FieldLocks
    BY <1>1 DEF FieldLocks
  <2>3. Latest.fields[n] \in FieldObjects /\ n \in DOMAIN Latest.fields
    BY <1>3 DEF SignatureFields, Field
  <2>4. field \in FieldObjects
    BY <2>2, <2>3 DEF FieldObjects
  <2>5. view = [Latest EXCEPT !.fields = fields]
    BY <2>1
  <2>. HIDE DEF field
  <2>6. fields \in [DOMAIN Latest.fields -> FieldObjects]
    BY <1>1, <2>4 DEF IsView
  <2>. HIDE DEF fields
  <2>7. view = [certification |-> Latest.certification, form |-> Latest.form, place |-> Latest.place,
                fields |-> fields, signatures |-> Latest.signatures]
    BY <1>2, <2>5
  <2>8. DOMAIN fields = DOMAIN Latest.fields
    BY <2>6
  <2>. QED
    BY <1>1, <2>6, <2>7, <2>8 DEF IsView
<1>. QED
  BY <1>4, <1>5, <1>6, <1>7 DEF Rewritten

\* A view with a signature more: the field is written, and the signature says what
\* the terms say.
SignedView(n, written, signature) ==
    [certification |-> IF signature.certifies = None THEN Latest.certification ELSE Number,
     form |-> Latest.form \cup {n}, place |-> Latest.place, fields |-> WithField(n, written).fields,
     signatures |-> [s \in DOMAIN Latest.signatures \cup {Number} |->
                        IF s = Number THEN signature ELSE Latest.signatures[s]]]

SignedTerm(written, signature) ==
    [certifies |-> signature.certifies, locks |-> signature.locks,
     permission |-> IF written.lock = None THEN None ELSE written.lock.permission]

\* A signature fits: it is covered by itself, it is the only one that certifies if
\* it does, and the lock of its field holds from now on.
LEMMA SignedViewFits ==
    ASSUME IInv, NEW kind, NEW n \in Fields, NEW written \in FieldObjects, NEW signature \in Signatures,
           written.type = "Sig", written.value = Number,
           written.lock # None => n \in Latest.form /\ Field(n).type = "Sig" /\ Field(n).lock = written.lock,
           signature.certifies \in 1..3 \cup {None}, signature.covers = Number, signature.at = Number,
           signature.certifies # None => Latest.certification = None,
           TermsAllow(kind, {n}, Len(revisions))
    PROVE  Fits(kind, {n}, SignedView(n, written, signature), SignedTerm(written, signature), FALSE)
<1>. DEFINE view == SignedView(n, written, signature)
            term == SignedTerm(written, signature)
            asked == Append(terms, term)
            signatures == [s \in DOMAIN Latest.signatures \cup {Number} |->
                              IF s = Number THEN signature ELSE Latest.signatures[s]]
            anew == WithField(n, written)
<1>1. /\ IsView(Latest) /\ DOMAIN Latest.signatures \subseteq 1..Len(revisions)
      /\ Number \in Nat /\ Number = Len(revisions) + 1 /\ Len(revisions) \in Nat
      /\ None \notin Nat /\ None \notin Terms
  BY LatestView, Lengths, SignersAssumption
<1>2. /\ IsView(anew) /\ anew.form = Latest.form \cup {n}
      /\ anew.fields[n] = [written EXCEPT !.at = Number]
      /\ \A m \in DOMAIN Latest.fields \ {n} : anew.fields[m] = Latest.fields[m]
  BY WithFieldIs
<1>3. /\ view.certification = IF signature.certifies = None THEN Latest.certification ELSE Number
      /\ view.form = Latest.form \cup {n} /\ view.place = Latest.place /\ view.fields = anew.fields
      /\ view.signatures = signatures
      /\ view = [certification |-> view.certification, form |-> view.form, place |-> view.place,
                 fields |-> view.fields, signatures |-> view.signatures]
  BY DEF SignedView
<1>4. /\ term.certifies = signature.certifies /\ term.locks = signature.locks
      /\ term.permission = IF written.lock = None THEN None ELSE written.lock.permission
      /\ term \in Terms
  <2>1. written.lock \in FieldLocks \cup {None} /\ signature.locks \in Rules \cup {None}
    BY DEF FieldObjects, Signatures
  <2>2. written.lock # None => written.lock.permission \in Nat \cup {None}
    BY <2>1 DEF FieldLocks
  <2>3. signature.certifies \in Nat \cup {None}
    OBVIOUS
  <2>. QED
    BY <2>1, <2>2, <2>3 DEF SignedTerm, Terms
<1>5. /\ DOMAIN signatures = DOMAIN Latest.signatures \cup {Number} /\ signatures[Number] = signature
      /\ \A s \in DOMAIN Latest.signatures : signatures[s] = Latest.signatures[s] /\ s # Number
      /\ signatures \in [DOMAIN signatures -> Signatures]
  BY <1>1 DEF IsView
<1>6. /\ Number \in DOMAIN view.signatures /\ view.signatures[Number] = signature /\ Extends(view)
      /\ DOMAIN view.signatures = DOMAIN Latest.signatures \cup {Number}
  BY <1>3, <1>5 DEF Extends
<1>7. [written EXCEPT !.at = Number] \in FieldObjects
      /\ [written EXCEPT !.at = Number].type = "Sig" /\ [written EXCEPT !.at = Number].value = Number
      /\ [written EXCEPT !.at = Number].lock = written.lock /\ [written EXCEPT !.at = Number].at = Number
  BY <1>1 DEF FieldObjects
<1>8. /\ view.fields[n].type = "Sig" /\ view.fields[n].value = Number /\ view.fields[n].lock = written.lock
      /\ view.fields[n].at = Number
  BY <1>2, <1>3, <1>7
<1>. HIDE DEF view, term, signatures, anew
<1>9. IsView(view)
  <2>1. view.certification \in Nat \cup {None} /\ view.place \in {"object", "catalog"}
    BY <1>1, <1>3 DEF IsView
  <2>2. /\ view.form \subseteq DOMAIN view.fields /\ DOMAIN view.fields \subseteq Fields
        /\ view.fields \in [DOMAIN view.fields -> FieldObjects]
    BY <1>2, <1>3 DEF IsView
  <2>3. view.signatures \in [DOMAIN view.signatures -> Signatures]
    BY <1>3, <1>5
  <2>. QED
    BY <1>3, <2>1, <2>2, <2>3 DEF IsView
<1>10. DOMAIN view.signatures \subseteq 1..Number
  BY <1>1, <1>6
<1>11. Readable(view, Number, term)
  <2>1. term.permission # None =>
           n \in view.form /\ Restricts(view.fields[n]) /\ view.fields[n].lock.permission = term.permission
    BY <1>1, <1>3, <1>4, <1>8 DEF Restricts
  <2>. QED
    BY <1>4, <1>6, <2>1 DEF Readable
<1>12. LockedAsBefore(view)
  <2>1. \A f \in Fields \ {n} : Value(view, f) = Value(Latest, f)
    BY <1>1, <1>2, <1>3 DEF Value, IsView
  <2>. QED
    BY <2>1, ValuesKept
<1>13. asked[Number] = term /\ \A s \in DOMAIN Latest.signatures : asked[s] = terms[s]
  <2>1. terms \in Seq(Terms \cup {None}) /\ Len(terms) = Len(revisions)
    BY Lengths DEF IInv, ViewsRight
  <2>. QED
    BY <1>1, <2>1, Appended
<1>. HIDE DEF asked
<1>14. ASSUME Clean PROVE SoundView(view, asked, Number)
  <2>1. SignaturesSound(Latest, terms) /\ CertifiedOnce(Latest)
    BY <1>14, LatestView DEF SoundView
  <2>2. SignaturesSound(view, asked)
    <3>1. ASSUME NEW s \in DOMAIN Latest.signatures
          PROVE  /\ asked[s] # None
                 /\ view.signatures[s].certifies = asked[s].certifies /\ view.signatures[s].locks = asked[s].locks
                 /\ view.signatures[s].certifies \in 1..3 \cup {None}
                 /\ Signed(view.signatures[s].at, view.signatures[s])
      BY <1>6, <1>13, <2>1 DEF SignaturesSound, Extends
    <3>2. /\ asked[Number] # None
          /\ view.signatures[Number].certifies = asked[Number].certifies
          /\ view.signatures[Number].locks = asked[Number].locks
          /\ view.signatures[Number].certifies \in 1..3 \cup {None}
          /\ Signed(view.signatures[Number].at, view.signatures[Number])
      BY <1>1, <1>4, <1>6, <1>13 DEF Signed
    <3>. QED
      BY <1>6, <3>1, <3>2 DEF SignaturesSound
  <2>3. CertifiedOnce(view)
    <3>1. \A s \in DOMAIN Latest.signatures : view.signatures[s].certifies = Latest.signatures[s].certifies
      BY <1>6 DEF Extends
    <3>. QED
      BY <1>1, <1>3, <1>6, <2>1, <3>1 DEF CertifiedOnce
  <2>4. FieldSound(view, view.fields[n], asked, Number)
    <3>. SUFFICES ASSUME written.lock # None PROVE FieldSound(view, view.fields[n], asked, Number)
      BY <1>8 DEF FieldSound
    <3>1. FieldSound(view, Latest.fields[n], asked, Number)
      BY <1>6, <1>14, OldFieldSound DEF asked
    <3>2. /\ written.lock.permission \in 1..3 \cup {None}
          /\ written.lock.own # None => written.lock.own <= Number
      BY <3>1 DEF FieldSound, Field
    <3>3. asked[Number].permission = written.lock.permission
      BY <1>4, <1>13
    <3>. QED
      BY <1>1, <1>6, <1>8, <3>2, <3>3 DEF FieldSound, Signed
  <2>5. ASSUME NEW m \in view.form, m # n PROVE FieldSound(view, view.fields[m], asked, Number)
    <3>1. m \in Latest.form /\ view.fields[m] = Latest.fields[m]
      BY <1>1, <1>2, <1>3, <2>5 DEF IsView
    <3>. QED
      BY <1>6, <1>14, <3>1, OldFieldSound DEF asked
  <2>. QED
    BY <2>2, <2>3, <2>4, <2>5 DEF SoundView
<1>15. Fits(kind, {n}, view, term, FALSE)
  BY <1>4, <1>6, <1>9, <1>10, <1>11, <1>12, <1>14 DEF Fits, Extends, asked
<1>. QED
  BY <1>15 DEF view, term

\* A field is signed.
LEMMA SignAsKeeps ==
    ASSUME IInv, NEW kind \in Kinds, NEW n \in Fields, NEW new, NEW chosen,
           chosen.certifies \in 1..3 \cup {None}, chosen.locks \in Rules \cup {None},
           SignAs(kind, n, new, chosen)
    PROVE  IInv'
<1>. DEFINE fit == /\ IF new THEN ~InForm(n) ELSE InForm(n) /\ Field(n).type = "Sig" /\ Field(n).value = None
                   /\ chosen.certifies # None => Latest.certification = None
                   /\ kind = "DocumentTimestamp" /\ ~new => ~Marked(n, "slot") /\ ~Marked(n, "drawn")
            field == IF new THEN EmptyField ELSE Field(n)
            drawn == IF chosen.visible THEN field.marks \cup {"drawn"} ELSE field.marks
            written == [field EXCEPT !.value = Number, !.marks = IF chosen.visible THEN @ \cup {"drawn"} ELSE @]
            signed == WithField(n, written)
            signature == [certifies |-> chosen.certifies, locks |-> chosen.locks, covers |-> Number, at |-> Number]
            signatures == [s \in DOMAIN signed.signatures \cup {Number} |->
                              IF s = Number THEN signature ELSE signed.signatures[s]]
            view == [signed EXCEPT
                !.certification = IF chosen.certifies = None THEN @ ELSE Number,
                !.signatures = [s \in DOMAIN @ \cup {Number} |-> IF s = Number THEN signature ELSE @[s]]]
            term == [certifies |-> chosen.certifies, locks |-> chosen.locks,
                     permission |-> IF field.lock = None THEN None ELSE field.lock.permission]
            answer == Answer(Allows(kind, {n}), fit)
<1>1. Call(kind, {n}, answer, view, term, FALSE)
  BY Zenon DEF SignAs
<1>2. answer \in {"done", "refused", "unfit"} /\ (answer = "refused" => ~Allows(kind, {n}))
      /\ (answer = "done" => Allows(kind, {n}) /\ fit)
  BY Answers
<1>3. Number \in Nat /\ None \notin Nat
  BY LatestView
<1>4. signature \in Signatures /\ signature.certifies = chosen.certifies /\ signature.locks = chosen.locks
      /\ signature.covers = Number /\ signature.at = Number
  BY <1>3 DEF Signatures
<1>. HIDE DEF answer
<1>5. ASSUME answer = "done", TermsAllow(kind, {n}, Len(revisions))
      PROVE  Fits(kind, {n}, view, term, FALSE)
  <2>1. fit
    BY <1>2, <1>5
  <2>2. EmptyField \in FieldObjects /\ EmptyField.type = "Sig" /\ EmptyField.lock = None
    <3>1. "Sig" \in {"Sig", "Tx"} /\ {} \in SUBSET Marks
      OBVIOUS
    <3>2. EmptyField \in FieldObjects
      BY <1>3, <3>1, FieldObject DEF EmptyField
    <3>. QED
      BY <3>2 DEF EmptyField
  <2>3. ~new => Field(n) \in FieldObjects /\ Field(n).type = "Sig" /\ n \in Latest.form
    BY <2>1, LatestView, FieldType DEF IsView, InForm
  <2>4. /\ field \in FieldObjects /\ field.type = "Sig"
        /\ field.lock # None => n \in Latest.form /\ Field(n).type = "Sig" /\ Field(n).lock = field.lock
    BY <2>2, <2>3
  <2>5. chosen.certifies # None => Latest.certification = None
    BY <2>1
  <2>. HIDE DEF fit, field
  <2>6. written \in FieldObjects /\ written.type = "Sig" /\ written.value = Number /\ written.lock = field.lock
    <3>1. drawn \in SUBSET Marks
      BY <2>4 DEF FieldObjects, Marks
    <3>2. written = [field EXCEPT !.value = Number, !.marks = drawn]
      OBVIOUS
    <3>. HIDE DEF drawn, written
    <3>. QED
      BY <1>3, <2>4, <3>1, <3>2 DEF FieldObjects
  <2>7. /\ IsView(signed) /\ signed.form = Latest.form \cup {n} /\ signed.place = Latest.place
        /\ signed.signatures = Latest.signatures /\ signed.certification = Latest.certification
    <3>. HIDE DEF written
    <3>. QED
      BY <2>6, WithFieldIs
  <2>8. view = SignedView(n, written, signature)
    <3>. DEFINE certification == IF chosen.certifies = None THEN signed.certification ELSE Number
                certified == [signed EXCEPT !.certification = certification]
    <3>1. view = [certified EXCEPT !.signatures = signatures]
      OBVIOUS
    <3>. HIDE DEF signatures, certification, signed
    <3>2. signed = [certification |-> signed.certification, form |-> signed.form, place |-> signed.place,
                    fields |-> signed.fields, signatures |-> signed.signatures]
      BY <2>7 DEF IsView
    <3>3. certified = [certification |-> certification, form |-> signed.form, place |-> signed.place,
                       fields |-> signed.fields, signatures |-> signed.signatures]
      BY <3>2
    <3>. HIDE DEF certified, view
    <3>4. view = [certification |-> certification, form |-> signed.form, place |-> signed.place,
                  fields |-> signed.fields, signatures |-> signatures]
      BY <3>1, <3>3
    <3>5. signatures = [s \in DOMAIN Latest.signatures \cup {Number} |->
                           IF s = Number THEN signature ELSE Latest.signatures[s]]
      BY <2>7, Zenon DEF signatures
    <3>6. certification = IF signature.certifies = None THEN Latest.certification ELSE Number
      BY <1>4, <2>7 DEF certification
    <3>7. signed.fields = WithField(n, written).fields
      BY Zenon DEF signed
    <3>. HIDE DEF signature, written
    <3>. QED
      BY <2>7, <3>4, <3>5, <3>6, <3>7 DEF SignedView
  <2>. HIDE DEF view, signed, written, signature
  <2>9. term = SignedTerm(written, signature)
    BY <1>4, <2>6 DEF SignedTerm
  <2>10. Fits(kind, {n}, SignedView(n, written, signature), SignedTerm(written, signature), FALSE)
    BY <1>4, <1>5, <2>4, <2>5, <2>6, SignedViewFits
  <2>. QED
    BY <2>8, <2>9, <2>10
<1>. HIDE DEF view, term
<1>6. Proper(kind, {n}, answer, view, term, FALSE)
  BY <1>1, <1>2, <1>5, Decided DEF Allows
<1>. QED
  BY <1>6, CallKeeps

\* A signature or a timestamp.
LEMMA SignKeeps ==
    ASSUME IInv, Sign \/ Timestamp
    PROVE  IInv'
<1>1. CASE Sign
  <2>1. PICK n \in Fields, new \in BOOLEAN, chosen \in SignOptions : SignAs("AddSignature", n, new, chosen)
    BY <1>1, Zenon DEF Sign
  <2>2. chosen.certifies \in 1..3 \cup {None} /\ chosen.locks \in Rules \cup {None}
    BY SignersAssumption
  <2>3. "AddSignature" \in Kinds
    BY DEF Kinds
  <2>. QED
    BY <2>1, <2>2, <2>3, SignAsKeeps, Zenon
<1>2. CASE Timestamp
  <2>. DEFINE chosen == [certifies |-> None, locks |-> None, visible |-> FALSE]
  <2>1. PICK n \in Fields, new \in BOOLEAN : SignAs("DocumentTimestamp", n, new, chosen)
    BY <1>2, Zenon DEF Timestamp
  <2>2. chosen.certifies \in 1..3 \cup {None} /\ chosen.locks \in Rules \cup {None}
    OBVIOUS
  <2>3. "DocumentTimestamp" \in Kinds
    BY DEF Kinds
  <2>. HIDE DEF chosen
  <2>. QED
    BY <2>1, <2>2, <2>3, SignAsKeeps, Zenon
<1>. QED
  BY <1>1, <1>2

\* Objects are edited, or another program appends a revision.
LEMMA RewrittenKeeps ==
    ASSUME IInv, EditObjects \/ OtherProgram
    PROVE  IInv'
<1>1. CASE EditObjects
  <2>1. PICK view \in Rewritten :
           Call("GenericObjects", {}, Answer(HistoryAllows("GenericObjects"), TRUE), view, None, TRUE)
    BY <1>1, Zenon DEF EditObjects
  <2>. DEFINE answer == Answer(HistoryAllows("GenericObjects"), TRUE)
  <2>2. answer \in {"done", "refused", "unfit"} /\ (answer = "refused" => ~HistoryAllows("GenericObjects"))
        /\ (answer = "done" => HistoryAllows("GenericObjects"))
    BY Answers
  <2>. HIDE DEF answer
  <2>3. ASSUME TermsAllow("GenericObjects", {}, Len(revisions))
        PROVE  Fits("GenericObjects", {}, view, None, TRUE)
    <3>1. \A k \in DOMAIN revisions : terms[k] # None => terms[k].locks = None
      BY <2>3, Lengths DEF TermsAllow, TermAllows
    <3>2. LockedAsBefore(view)
      BY <3>1 DEF LockedAsBefore
    <3>. QED
      BY <2>3, <3>2, RewrittenIs, FieldsFit
  <2>4. "GenericObjects" \in Kinds /\ {} \in SUBSET Fields
    BY DEF Kinds
  <2>5. Proper("GenericObjects", {}, answer, view, None, TRUE)
    BY <2>1, <2>2, <2>3, <2>4, Decided DEF answer
  <2>. QED
    BY <2>5, CallKeeps
<1>2. CASE OtherProgram
  <2>1. PICK view \in Rewritten : Call("none of ours", {}, "done", view, None, TRUE)
    BY <1>2, Zenon DEF OtherProgram
  <2>2. "none of ours" \notin Kinds
    BY DEF Kinds
  <2>3. Fits("none of ours", {}, view, None, TRUE)
    BY <2>2, RewrittenIs, FieldsFit
  <2>4. Proper("none of ours", {}, "done", view, None, TRUE)
    BY <2>1, <2>3, Zenon DEF Proper
  <2>. QED
    BY <2>4, CallKeeps
<1>. QED
  BY <1>1, <1>2

-----------------------------------------------------------------------------
(* The invariant *)

\* It holds of an original.
LEMMA InitIInv == Init => IInv
<1>. SUFFICES ASSUME Init PROVE IInv
  OBVIOUS
<1>1. PICK original \in Originals :
         /\ revisions = <<original.view>> /\ terms = <<original.term>>
         /\ last = [kind |-> "none of ours", targets |-> {}, answer |-> "done"]
         /\ reworked \in BOOLEAN /\ (Clean => original.sound)
  <2>1. PICK original \in Originals :
           /\ revisions = <<original.view>> /\ terms = <<original.term>> /\ reworked = ~original.sound
           /\ last = [kind |-> "none of ours", targets |-> {}, answer |-> "done"]
    BY Zenon DEF Init
  <2>2. reworked \in BOOLEAN /\ (Clean => original.sound)
    BY <2>1, Zenon DEF Clean
  <2>. QED
    BY <2>1, <2>2
<1>. DEFINE view == original.view
            term == original.term
<1>2. /\ IsView(view) /\ term \in Terms \cup {None} /\ DOMAIN view.signatures \subseteq {1}
      /\ Readable(view, 1, term) /\ (original.sound => SoundView(view, <<term>>, 1))
  BY OriginalsAssumption
<1>a. revisions = <<view>> /\ terms = <<term>>
  BY <1>1
<1>. HIDE DEF view, term
<1>3. /\ Len(revisions) = 1 /\ DOMAIN revisions = 1..1 /\ revisions[1] = view
      /\ Len(terms) = 1 /\ DOMAIN terms = 1..1 /\ terms[1] = term
  BY <1>a
<1>4. \A k \in 1..1 : k = 1
  OBVIOUS
<1>5. TypeOK
  <2>1. 1 \in 1..MaxRevisions
    BY SignersAssumption
  <2>2. \A k \in DOMAIN revisions : revisions[k].form \subseteq DOMAIN revisions[k].fields
    BY <1>2, <1>3, <1>4 DEF IsView
  <2>3. last.kind = "none of ours" /\ last.targets = {} /\ last.answer = "done"
    BY <1>1
  <2>. QED
    BY <1>1, <1>3, <2>1, <2>2, <2>3, Zenon DEF TypeOK
<1>6. ViewsRight
  <2>1. revisions \in Seq(Among(revisions)) /\ terms \in Seq(Terms \cup {None})
    <3>1. view \in Among(revisions)
      BY <1>3 DEF Among
    <3>. QED
      BY <1>2, <1>a, <3>1
  <2>2. \A k \in DOMAIN revisions : IsView(revisions[k]) /\ DOMAIN revisions[k].signatures \subseteq 1..k
    BY <1>2, <1>3, <1>4
  <2>. QED
    BY <2>1, <2>2 DEF ViewsRight
<1>7. TermsReadable
  BY <1>2, <1>3, <1>4 DEF TermsReadable
<1>8. SignaturesStay
  <2>1. Latest = view
    BY <1>3 DEF Latest
  <2>. QED
    BY <1>2, <1>3, <1>4, <2>1 DEF SignaturesStay, Readable
<1>9. Unbroken
  BY <1>1, <1>2, <1>3, <1>4 DEF Unbroken, view, term
<1>10. SignedTermsHold
  BY <1>1 DEF SignedTermsHold, TermsAreKept, RefusedForCause, Kinds
<1>. QED
  BY <1>5, <1>6, <1>7, <1>8, <1>9, <1>10 DEF IInv

\* Every step keeps it.
LEMMA NextIInv == IInv /\ [Next]_vars => IInv'
<1>. SUFFICES ASSUME IInv, [Next]_vars PROVE IInv'
  OBVIOUS
<1>1. CASE Sign \/ Timestamp
  BY <1>1, SignKeeps
<1>2. CASE CreateSlot
  BY <1>2, CreateSlotKeeps
<1>3. CASE RemoveSlot
  BY <1>3, RemoveSlotKeeps
<1>4. CASE DrawSlot
  BY <1>4, DrawSlotKeeps
<1>5. CASE FillForm
  BY <1>5, FillFormKeeps
<1>6. CASE EditPages
  BY <1>6, EditPagesKeeps
<1>7. CASE EditObjects \/ OtherProgram
  BY <1>7, RewrittenKeeps
<1>8. CASE UNCHANGED vars
  <2>1. UNCHANGED <<revisions, terms>> /\ last' = last /\ reworked' = reworked
    BY <1>8 DEF vars
  <2>2. Clean' <=> Clean
    BY <2>1 DEF Clean
  <2>3. TypeOK'
    BY <2>1 DEF IInv, TypeOK
  <2>4. ViewsRight' /\ TermsReadable' /\ SignaturesStay'
    BY <2>1 DEF IInv, ViewsRight, Among, TermsReadable, SignaturesStay, Latest, IsView, Readable, Restricts
  <2>5. Unbroken'
    BY <2>1, <2>2 DEF IInv, Unbroken, SoundView, SignaturesSound, CertifiedOnce, FieldSound, Restricts, Signed
  <2>6. TermsAreKept'
    BY <2>1 DEF IInv, SignedTermsHold, TermsAreKept, TermsAllow, TermAllows, Value
  <2>7. RefusedForCause'
    BY <2>1 DEF IInv, SignedTermsHold, RefusedForCause, TermsAllow, TermAllows
  <2>. QED
    BY <2>3, <2>4, <2>5, <2>6, <2>7 DEF IInv, SignedTermsHold
<1>. QED
  BY <1>1, <1>2, <1>3, <1>4, <1>5, <1>6, <1>7, <1>8 DEF Next

\* The invariant of a signed document.
THEOREM Invariance == Spec => []IInv
  BY InitIInv, NextIInv, PTL DEF Spec

\* However a document is signed, filled and edited, and whatever another program
\* writes to its fields, what a signer has ruled out is not appended, and only that
\* is refused as long as signed fields are written by signing.
THEOREM SignedTermsHoldAlways == Spec => []SignedTermsHold
<1>1. IInv => SignedTermsHold
  BY DEF IInv
<1>. QED
  BY <1>1, Invariance, PTL

\* Its variables keep their types.
THEOREM TypeCorrect == Spec => []TypeOK
<1>1. IInv => TypeOK
  BY DEF IInv
<1>. QED
  BY <1>1, Invariance, PTL

-----------------------------------------------------------------------------
(* A file written page by page *)

\* What is written has no torn item, each number that was given has its offset, and
\* what has a number is listed.
Placed ==
    /\ DOMAIN object_positions = 3..(current_object_id - 1)
    /\ \A id \in DOMAIN object_positions :
          /\ object_positions[id] \in Nat
          /\ object_positions[id] + 1 \in DOMAIN content
          /\ At(object_positions[id]).id = id
    /\ \A i \in DOMAIN content :
          content[i].kind # "torn" /\ (content[i].id # None => content[i].id \in DOMAIN object_positions)

\* The pages are those of the calls that succeeded, each with streams of its own.
PageWhole(id) ==
    LET page == At(object_positions[id]) IN
    /\ id \in DOMAIN object_positions
    /\ page.kind = "page"
    /\ \A stream \in ToSet(page.contents) :
          stream \in DOMAIN object_positions /\ At(object_positions[stream]).kind = "stream"

Open ==
    /\ content \in Seq(ToSet(content))
    /\ current_object_id \in 3..(MaxNumber - 1)
    /\ Placed
    /\ page_ids = acknowledged /\ page_ids \in Seq(Nat)
    /\ \A i \in DOMAIN page_ids : PageWhole(page_ids[i])

\* What StreamedFileSound says of a file that is reported as written.
Complete ==
    /\ disk = Len(content)
    /\ Torn \notin ToSet(content)
    /\ Table.kind = "xref"
    /\ {item.id : item \in ToSet(content)} \ {None} = DOMAIN Table.offsets
    /\ \A id \in DOMAIN Table.offsets : Referenced(id).id = id
    /\ Referenced(1) = Catalog /\ Referenced(2) = PageTree(acknowledged)
    /\ \A i \in DOMAIN acknowledged :
          /\ Referenced(acknowledged[i]).kind = "page"
          /\ \A id \in ToSet(Referenced(acknowledged[i]).contents) : Referenced(id).kind = "stream"

WriterIInv ==
    /\ options \in Options /\ failed \in BOOLEAN /\ finalized \in BOOLEAN
    /\ ~failed /\ ~finalized => Open
    /\ finalized => ~failed /\ Complete /\ Len(content) \in Nat
    /\ failed => reported.answer # "ok"
    /\ reported.op = "finalize" /\ reported.answer = "limit" =>
          ~options.xref_streaming /\ \E id \in DOMAIN object_positions : object_positions[id] > MaxOffset

\* A sequence is one of its own items.
LEMMA OwnItems ==
    ASSUME NEW S, NEW s \in Seq(S)
    PROVE  s \in Seq(ToSet(s)) /\ DOMAIN s = 1..Len(s) /\ Len(s) \in Nat
<1>1. Len(s) \in Nat /\ DOMAIN s = 1..Len(s) /\ s = [i \in 1..Len(s) |-> s[i]]
  OBVIOUS
<1>2. \A i \in 1..Len(s) : s[i] \in ToSet(s)
  BY <1>1 DEF ToSet
<1>3. \A T : (\A i \in 1..Len(s) : s[i] \in T) => s \in Seq(T)
  BY <1>1
<1>. QED
  BY <1>1, <1>2, <1>3

\* Short sequences.
LEMMA OneTwoThree ==
    ASSUME NEW a, NEW b, NEW c
    PROVE  /\ <<a>> \in Seq(ToSet(<<a>>)) /\ Len(<<a>>) = 1 /\ <<a>>[1] = a
           /\ <<a, b>> \in Seq(ToSet(<<a, b>>)) /\ Len(<<a, b>>) = 2
           /\ <<a, b>>[1] = a /\ <<a, b>>[2] = b
           /\ <<a, b, c>> \in Seq(ToSet(<<a, b, c>>)) /\ Len(<<a, b, c>>) = 3
           /\ <<a, b, c>>[1] = a /\ <<a, b, c>>[2] = b /\ <<a, b, c>>[3] = c
<1>1. <<a>> \in Seq({a, b, c}) /\ <<a, b>> \in Seq({a, b, c}) /\ <<a, b, c>> \in Seq({a, b, c})
  OBVIOUS
<1>2. /\ <<a>> \in Seq(ToSet(<<a>>)) /\ <<a, b>> \in Seq(ToSet(<<a, b>>))
      /\ <<a, b, c>> \in Seq(ToSet(<<a, b, c>>))
  BY <1>1, OwnItems
<1>. QED
  BY <1>2

\* What is written behind a content.
LEMMA Behind ==
    ASSUME NEW s, s \in Seq(ToSet(s)), NEW t, t \in Seq(ToSet(t))
    PROVE  /\ s \o t \in Seq(ToSet(s \o t))
           /\ Len(s) \in Nat /\ Len(t) \in Nat /\ Len(s \o t) = Len(s) + Len(t)
           /\ DOMAIN s = 1..Len(s) /\ DOMAIN t = 1..Len(t) /\ DOMAIN (s \o t) = 1..(Len(s) + Len(t))
           /\ \A i \in 1..Len(s) : (s \o t)[i] = s[i]
           /\ \A i \in 1..Len(t) : (s \o t)[Len(s) + i] = t[i]
<1>. DEFINE S == ToSet(s) \cup ToSet(t)
<1>1. s \in Seq(S) /\ t \in Seq(S)
  OBVIOUS
<1>. HIDE DEF S
<1>2. /\ s \o t \in Seq(S) /\ Len(s \o t) = Len(s) + Len(t)
      /\ \A i \in 1..(Len(s) + Len(t)) : (s \o t)[i] = IF i <= Len(s) THEN s[i] ELSE t[i - Len(s)]
  BY <1>1
<1>3. Len(s) \in Nat /\ Len(t) \in Nat /\ DOMAIN s = 1..Len(s) /\ DOMAIN t = 1..Len(t)
  BY <1>1
<1>. DEFINE u == s \o t
<1>. HIDE DEF u
<1>4. u \in Seq(ToSet(u)) /\ DOMAIN u = 1..Len(u)
  BY <1>2, OwnItems DEF u
<1>5. \A i \in 1..Len(s) : u[i] = s[i]
  BY <1>2, <1>3 DEF u
<1>6. ASSUME NEW i \in 1..Len(t) PROVE u[Len(s) + i] = t[i]
  <2>1. Len(s) + i \in 1..(Len(s) + Len(t)) /\ ~(Len(s) + i <= Len(s)) /\ (Len(s) + i) - Len(s) = i
    BY <1>3
  <2>. QED
    BY <1>2, <2>1 DEF u
<1>. QED
  BY <1>2, <1>3, <1>4, <1>5, <1>6 DEF u

\* The offset of what is written, and that of what was written before.
LEMMA PositionsOf ==
    ASSUME NEW items, \A i, j \in Numbered(items) : items[i].id = items[j].id => i = j
    PROVE  /\ \A id : id \in DOMAIN Positions(items)
                        <=> id \in DOMAIN object_positions \/ \E i \in Numbered(items) : items[i].id = id
           /\ \A i \in Numbered(items) : Positions(items)[items[i].id] = Len(content) + i - 1
           /\ \A id \in DOMAIN object_positions :
                 (\A i \in Numbered(items) : items[i].id # id) => Positions(items)[id] = object_positions[id]
<1>. DEFINE new == {items[i].id : i \in Numbered(items)}
            Which(id) == CHOOSE i \in Numbered(items) : items[i].id = id
            offsets == [id \in DOMAIN object_positions \cup new |->
                          IF \E i \in Numbered(items) : items[i].id = id
                          THEN Len(content) + Which(id) - 1 ELSE object_positions[id]]
<1>1. Positions(items) = offsets
  BY DEF Positions
<1>2. ASSUME NEW i \in Numbered(items) PROVE Which(items[i].id) = i /\ items[i].id \in new
  <2>1. Which(items[i].id) \in Numbered(items) /\ items[Which(items[i].id)].id = items[i].id
    OBVIOUS
  <2>. HIDE DEF Which
  <2>. QED
    BY <2>1
<1>3. \A id : id \in new <=> \E i \in Numbered(items) : items[i].id = id
  OBVIOUS
<1>. HIDE DEF new, Which
<1>4. DOMAIN offsets = DOMAIN object_positions \cup new
  OBVIOUS
<1>5. \A i \in Numbered(items) : offsets[items[i].id] = Len(content) + i - 1
  BY <1>2
<1>6. \A id \in DOMAIN object_positions : id \notin new => offsets[id] = object_positions[id]
  BY <1>3
<1>. HIDE DEF offsets
<1>. QED
  BY <1>1, <1>3, <1>4, <1>5, <1>6

\* A page and its streams have the next numbers.
LEMMA PageItemsAre ==
    ASSUME NEW streams \in Nat, current_object_id \in Nat
    PROVE  /\ PageItems(streams) \in Seq(ToSet(PageItems(streams)))
           /\ Len(PageItems(streams)) = streams + 1
           /\ Numbered(PageItems(streams)) = 1..(streams + 1)
           /\ \A i \in 1..streams : PageItems(streams)[i] = Stream(current_object_id + i - 1)
           /\ PageItems(streams)[streams + 1]
                = Page(current_object_id + streams, [i \in 1..streams |-> current_object_id + i - 1])
           /\ \A i \in 1..(streams + 1) : PageItems(streams)[i].id = current_object_id + i - 1
           /\ NextNumber(PageItems(streams)) = current_object_id + streams + 1
<1>. DEFINE cur   == current_object_id
            ids   == [i \in 1..streams |-> cur + i - 1]
            first == [i \in 1..streams |-> Stream(ids[i])]
            leaf  == <<Page(cur + streams, ids)>>
            items == first \o leaf
<1>1. PageItems(streams) = items
  BY DEF PageItems
<1>2. first \in Seq(ToSet(first)) /\ Len(first) = streams
  <2>1. \A i \in 1..streams : first[i] \in ToSet(first)
    BY DEF ToSet
  <2>2. first = [i \in 1..streams |-> first[i]]
    OBVIOUS
  <2>. HIDE DEF first
  <2>. QED
    BY <2>1, <2>2
<1>3. leaf \in Seq(ToSet(leaf)) /\ Len(leaf) = 1 /\ leaf[1] = Page(cur + streams, ids)
  BY OneTwoThree
<1>4. \A i \in 1..streams : first[i] = Stream(cur + i - 1)
  OBVIOUS
<1>. HIDE DEF first, leaf, ids
<1>5. /\ items \in Seq(ToSet(items)) /\ Len(items) = streams + 1 /\ DOMAIN items = 1..(streams + 1)
      /\ \A i \in 1..streams : items[i] = Stream(cur + i - 1)
      /\ items[streams + 1] = Page(cur + streams, ids)
  <2>1. /\ items \in Seq(ToSet(items)) /\ Len(items) = streams + 1 /\ DOMAIN items = 1..(streams + 1)
        /\ \A i \in 1..streams : items[i] = first[i]
        /\ \A i \in 1..1 : items[Len(first) + i] = leaf[i]
    <3>1. /\ items \in Seq(ToSet(items)) /\ DOMAIN items = 1..(Len(first) + Len(leaf))
          /\ Len(items) = Len(first) + Len(leaf)
          /\ \A i \in 1..Len(first) : items[i] = first[i]
          /\ \A i \in 1..Len(leaf) : items[Len(first) + i] = leaf[i]
      <4>1. first \in Seq(ToSet(first)) /\ leaf \in Seq(ToSet(leaf))
        BY <1>2, <1>3
      <4>2. items \in Seq(ToSet(items))
        BY <4>1, Behind
      <4>3. DOMAIN items = 1..(Len(first) + Len(leaf))
        BY <4>1, Behind
      <4>4. Len(items) = Len(first) + Len(leaf)
        BY <4>1, Behind
      <4>5. \A i \in 1..Len(first) : items[i] = first[i]
        BY <4>1, Behind
      <4>6. \A i \in 1..Len(leaf) : items[Len(first) + i] = leaf[i]
        BY <4>1, Behind
      <4>. QED
        BY <4>2, <4>3, <4>4, <4>5, <4>6
    <3>. HIDE DEF items
    <3>. QED
      BY <1>2, <1>3, <3>1
  <2>2. items[streams + 1] = leaf[1]
    BY <1>2, <2>1
  <2>. HIDE DEF items
  <2>. QED
    BY <1>3, <1>4, <2>1, <2>2
<1>. HIDE DEF items
<1>6. ASSUME NEW i \in 1..(streams + 1) PROVE items[i].id = cur + i - 1
  <2>1. CASE i = streams + 1
    <3>1. items[i].id = cur + streams
      BY <1>5, <2>1 DEF Page
    <3>. QED
      BY <2>1, <3>1
  <2>2. CASE i # streams + 1
    <3>1. i \in 1..streams
      BY <2>2
    <3>2. items[i] = Stream(cur + i - 1)
      BY <1>5, <3>1
    <3>. QED
      BY <3>2 DEF Stream
  <2>. QED
    BY <2>1, <2>2
<1>7. Numbered(items) = 1..(streams + 1)
  <2>1. \A i \in 1..(streams + 1) : items[i].id # None
    BY <1>6, WriterAssumption
  <2>. QED
    BY <1>5, <2>1 DEF Numbered
<1>8. NextNumber(items) = cur + streams + 1
  <2>. DEFINE given == {i \in Numbered(items) : items[i].id >= cur}
  <2>1. given = 1..(streams + 1)
    BY <1>6, <1>7
  <2>2. Cardinality(1..(streams + 1)) = streams + 1
    <3>1. 1 \in Int /\ streams + 1 \in Int /\ ~(1 > streams + 1) /\ (streams + 1) - 1 + 1 = streams + 1
      OBVIOUS
    <3>2. Cardinality(1..(streams + 1)) = IF 1 > streams + 1 THEN 0 ELSE (streams + 1) - 1 + 1
      BY <3>1, FS_Interval
    <3>. QED
      BY <3>1, <3>2
  <2>3. NextNumber(items) = cur + Cardinality(given)
    BY DEF NextNumber
  <2>. HIDE DEF given
  <2>. QED
    BY <2>1, <2>2, <2>3
<1>. QED
  BY <1>1, <1>5, <1>6, <1>7, <1>8 DEF ids

\* The page tree and the catalog, which begin the end of a file.
Roots == <<PageTree(page_ids), Catalog>>

\* Some first items are as they are, whatever follows them.
LEMMA RootsAre ==
    ASSUME Open, NEW items, items \in Seq(ToSet(items)), Len(items) >= 2,
           items[1] = PageTree(page_ids), items[2] = Catalog,
           \A i \in 3..Len(items) : items[i].id = current_object_id /\ i = 3
    PROVE  /\ DOMAIN Positions(items) = 1..(current_object_id - 3 + Len(items))
           /\ Positions(items)[1] = Len(content) + 1 /\ Positions(items)[2] = Len(content)
           /\ \A id \in 3..(current_object_id - 1) : Positions(items)[id] = object_positions[id]
           /\ Len(items) = 3 => Positions(items)[current_object_id] = Len(content) + 2
           /\ NextNumber(items) = current_object_id - 2 + Len(items)
<1>. DEFINE cur == current_object_id
            L == Len(content)
<1>1. cur \in Nat /\ cur >= 3 /\ L \in Nat /\ Len(items) \in Nat /\ DOMAIN items = 1..Len(items)
  BY WriterAssumption DEF Open
<1>2. Len(items) \in {2, 3}
  <2>1. CASE Len(items) > 3
    <3>1. Len(items) \in 3..Len(items) /\ Len(items) # 3
      BY <1>1, <2>1
    <3>. QED
      BY <3>1
  <2>. QED
    BY <1>1, <2>1
<1>3. items[1].id = 2 /\ items[2].id = 1 /\ (Len(items) = 3 => items[3].id = cur)
  <2>1. Len(items) = 3 => 3 \in 3..Len(items)
    OBVIOUS
  <2>2. PageTree(page_ids).id = 2 /\ Catalog.id = 1
    BY DEF PageTree, Catalog
  <2>. QED
    BY <2>1, <2>2
<1>4. Numbered(items) = 1..Len(items)
  <2>1. \A i \in 1..Len(items) : i = 1 \/ i = 2 \/ (i = 3 /\ Len(items) = 3)
    BY <1>1, <1>2
  <2>2. \A i \in 1..Len(items) : items[i].id # None
    BY <1>1, <1>3, <2>1, WriterAssumption
  <2>. QED
    BY <1>1, <2>2 DEF Numbered
<1>5. Numbered(items) = IF Len(items) = 3 THEN {1, 2, 3} ELSE {1, 2}
  BY <1>2, <1>4
<1>6. \A i, j \in Numbered(items) : items[i].id = items[j].id => i = j
  BY <1>1, <1>3, <1>5
<1>. DEFINE Written(id) == \E i \in Numbered(items) : items[i].id = id
<1>7. \A id : Written(id) <=> id \in {1, 2} \/ (Len(items) = 3 /\ id = cur)
  BY <1>3, <1>5
<1>8. DOMAIN object_positions = 3..(cur - 1)
  BY DEF Open, Placed
<1>9. /\ \A id : id \in DOMAIN Positions(items) <=> id \in DOMAIN object_positions \/ Written(id)
      /\ \A id \in DOMAIN object_positions : ~Written(id) => Positions(items)[id] = object_positions[id]
  BY <1>6, PositionsOf
<1>. HIDE DEF Written
<1>10. DOMAIN Positions(items) = 1..(cur - 3 + Len(items))
  <2>1. \A id : id \in DOMAIN Positions(items)
                  <=> id \in 3..(cur - 1) \/ id \in {1, 2} \/ (Len(items) = 3 /\ id = cur)
    BY <1>7, <1>8, <1>9
  <2>2. \A id : id \in 3..(cur - 1) \/ id \in {1, 2} \/ (Len(items) = 3 /\ id = cur)
                  <=> id \in 1..(cur - 3 + Len(items))
    BY <1>1, <1>2
  <2>. QED
    BY <2>1, <2>2
<1>11. \A i \in Numbered(items) : Positions(items)[items[i].id] = L + i - 1
  BY <1>6, PositionsOf
<1>12. Positions(items)[1] = L + 1 /\ Positions(items)[2] = L
  <2>1. 1 \in Numbered(items) /\ 2 \in Numbered(items)
    BY <1>5
  <2>2. Positions(items)[items[2].id] = L + 2 - 1 /\ Positions(items)[items[1].id] = L + 1 - 1
    BY <1>11, <2>1
  <2>. QED
    BY <1>1, <1>3, <2>2
<1>13. Len(items) = 3 => Positions(items)[cur] = L + 2
  <2>1. ASSUME Len(items) = 3 PROVE Positions(items)[items[3].id] = L + 3 - 1
    BY <1>5, <1>11, <2>1
  <2>. QED
    BY <1>1, <1>3, <2>1
<1>14. \A id \in 3..(cur - 1) : Positions(items)[id] = object_positions[id]
  <2>1. \A id \in 3..(cur - 1) : id \in DOMAIN object_positions /\ ~Written(id)
    BY <1>1, <1>7, <1>8
  <2>. QED
    BY <1>9, <2>1
<1>15. NextNumber(items) = cur - 2 + Len(items)
  <2>. DEFINE given == {i \in Numbered(items) : items[i].id >= cur}
  <2>1. given = IF Len(items) = 3 THEN {3} ELSE {}
    BY <1>1, <1>3, <1>5
  <2>2. Cardinality({3}) = 1 /\ Cardinality({}) = 0
    BY FS_Singleton, FS_EmptySet
  <2>3. NextNumber(items) = cur + Cardinality(given)
    BY DEF NextNumber
  <2>. HIDE DEF given
  <2>4. Cardinality(given) = Len(items) - 2
    BY <1>2, <2>1, <2>2
  <2>. QED
    BY <1>1, <2>3, <2>4
<1>. QED
  BY <1>10, <1>12, <1>13, <1>14, <1>15

\* The end of a file refers to a table with every object of it.
LEMMA EndingIs ==
    ASSUME Open
    PROVE  \E table, highest :
              /\ Ending = Roots \o <<table, StartXRef(Len(content) + 2)>>
              /\ highest = IF options.xref_streaming THEN current_object_id ELSE current_object_id - 1
              /\ table.kind = "xref"
              /\ table.id = IF options.xref_streaming THEN current_object_id ELSE None
              /\ DOMAIN table.offsets = 1..highest
              /\ table.offsets[1] = Len(content) + 1 /\ table.offsets[2] = Len(content)
              /\ \A id \in 3..(current_object_id - 1) : table.offsets[id] = object_positions[id]
              /\ options.xref_streaming => table.offsets[current_object_id] = Len(content) + 2
<1>. DEFINE cur == current_object_id
            Offsets(items) == [id \in 1..(NextNumber(items) - 1) |-> Positions(items)[id]]
            stub == Append(Roots, XRef(cur, <<>>))
            items == IF options.xref_streaming THEN stub ELSE Roots
            highest == IF options.xref_streaming THEN cur ELSE cur - 1
            table == XRef(IF options.xref_streaming THEN cur ELSE None, Offsets(items))
<1>1. cur \in Nat /\ cur >= 3 /\ Len(content) \in Nat
  BY WriterAssumption DEF Open
<1>2. /\ Roots \in Seq(ToSet(Roots)) /\ Len(Roots) = 2 /\ Roots[1] = PageTree(page_ids) /\ Roots[2] = Catalog
      /\ stub \in Seq(ToSet(stub)) /\ Len(stub) = 3
      /\ stub[1] = PageTree(page_ids) /\ stub[2] = Catalog /\ stub[3] = XRef(cur, <<>>)
  <2>1. Roots = <<PageTree(page_ids), Catalog>> /\ stub = <<PageTree(page_ids), Catalog, XRef(cur, <<>>)>>
    <3>1. ASSUME NEW a, NEW b, NEW c PROVE Append(<<a, b>>, c) = <<a, b, c>>
      <4>. DEFINE S == {a, b, c}
                  s == <<a, b>>
                  t == <<a, b, c>>
      <4>1. s \in Seq(S) /\ t \in Seq(S) /\ c \in S
        OBVIOUS
      <4>2. Len(s) = 2 /\ s[1] = a /\ s[2] = b /\ Len(t) = 3 /\ t[1] = a /\ t[2] = b /\ t[3] = c
        OBVIOUS
      <4>. HIDE DEF S, s, t
      <4>3. Append(s, c) \in Seq(S) /\ Len(Append(s, c)) = 3
            /\ \A i \in 1..3 : Append(s, c)[i] = t[i]
        <5>1. /\ Append(s, c) \in Seq(S) /\ Len(Append(s, c)) = 3
              /\ \A i \in 1..3 : Append(s, c)[i] = IF i = 3 THEN c ELSE s[i]
          <6>1. /\ Append(s, c) \in Seq(S) /\ Len(Append(s, c)) = Len(s) + 1
                /\ \A i \in 1..(Len(s) + 1) : Append(s, c)[i] = IF i = Len(s) + 1 THEN c ELSE s[i]
            BY <4>1, AppendProperties
          <6>. QED
            BY <4>2, <6>1
        <5>2. \A i \in 1..3 : i = 1 \/ i = 2 \/ i = 3
          OBVIOUS
        <5>. QED
          BY <4>2, <5>1, <5>2
      <4>4. Append(s, c) = t
        BY <4>1, <4>2, <4>3, SeqEqual
      <4>. QED
        BY <4>4 DEF s, t
    <3>. QED
      BY <3>1 DEF Roots
  <2>. HIDE DEF stub
  <2>. QED
    BY <2>1, OneTwoThree
<1>3. \A i \in 3..Len(Roots) : FALSE
  BY <1>2
<1>4. \A i \in 3..Len(stub) : stub[i].id = cur /\ i = 3
  <2>1. stub[3].id = cur
    BY <1>2 DEF XRef
  <2>. HIDE DEF stub
  <2>. QED
    BY <1>2, <2>1
<1>. HIDE DEF stub
<1>5. /\ items \in Seq(ToSet(items)) /\ Len(items) = IF options.xref_streaming THEN 3 ELSE 2
      /\ items[1] = PageTree(page_ids) /\ items[2] = Catalog
      /\ \A i \in 3..Len(items) : items[i].id = cur /\ i = 3
  BY <1>2, <1>3, <1>4
<1>. HIDE DEF items
<1>6. /\ Positions(items)[1] = Len(content) + 1 /\ Positions(items)[2] = Len(content)
      /\ \A id \in 3..(cur - 1) : Positions(items)[id] = object_positions[id]
      /\ Len(items) = 3 => Positions(items)[cur] = Len(content) + 2
      /\ NextNumber(items) = cur - 2 + Len(items)
  <2>1. Len(items) >= 2
    BY <1>5
  <2>. QED
    BY <1>5, <2>1, RootsAre
<1>7. NextNumber(items) - 1 = highest
  BY <1>1, <1>5, <1>6
<1>8. /\ DOMAIN Offsets(items) = 1..highest
      /\ \A id \in 1..highest : Offsets(items)[id] = Positions(items)[id]
  BY <1>7
<1>9. Ending = Roots \o <<table, StartXRef(Len(content) + 2)>>
  BY DEF Ending, Roots, items, stub
<1>10. table.kind = "xref" /\ table.offsets = Offsets(items)
       /\ table.id = IF options.xref_streaming THEN cur ELSE None
  BY DEF XRef
<1>. HIDE DEF Offsets, table
<1>11. 1 \in 1..highest /\ 2 \in 1..highest /\ (\A id \in 3..(cur - 1) : id \in 1..highest)
       /\ (options.xref_streaming => cur \in 1..highest)
  BY <1>1
<1>12. /\ DOMAIN table.offsets = 1..highest
       /\ table.offsets[1] = Len(content) + 1 /\ table.offsets[2] = Len(content)
       /\ \A id \in 3..(cur - 1) : table.offsets[id] = object_positions[id]
       /\ options.xref_streaming => table.offsets[cur] = Len(content) + 2
  BY <1>5, <1>6, <1>8, <1>10, <1>11
<1>. QED
  BY <1>9, <1>10, <1>12

\* A new file has a header and no numbered object.
LEMMA WriterInitKeeps == WriterInit => WriterIInv
<1>. SUFFICES ASSUME WriterInit PROVE WriterIInv
  OBVIOUS
<1>1. options \in Options /\ failed = FALSE /\ finalized = FALSE /\ reported.op = "create"
  BY DEF WriterInit
<1>2. content \in Seq(ToSet(content)) /\ Len(content) = 1 /\ content[1] = Header
  BY OneTwoThree DEF WriterInit
<1>3. current_object_id = 3 /\ current_object_id \in 3..(MaxNumber - 1)
  BY WriterAssumption DEF WriterInit
<1>4. object_positions = <<>> /\ DOMAIN object_positions = {} /\ 3..(current_object_id - 1) = {}
  BY <1>3 DEF WriterInit
<1>5. page_ids = <<>> /\ acknowledged = <<>> /\ page_ids \in Seq(Nat) /\ DOMAIN page_ids = {}
  BY DEF WriterInit
<1>6. \A i \in DOMAIN content : content[i] = Header
  BY <1>2
<1>7. Header.kind = "header" /\ Header.id = None
  BY DEF Header
<1>8. Placed
  BY <1>4, <1>6, <1>7 DEF Placed
<1>9. Open
  BY <1>2, <1>3, <1>5, <1>8 DEF Open
<1>. QED
  BY <1>1, <1>9 DEF WriterIInv

\* A page that was whole is whole, and so is the one that is written.
LEMMA PageGrows ==
    ASSUME Open, NEW streams \in Nat, NumbersLeft(streams), Write(PageItems(streams)),
           page_ids' = Append(page_ids, current_object_id + streams),
           acknowledged' = Append(acknowledged, current_object_id + streams)
    PROVE  Open'
<1>. DEFINE items == PageItems(streams)
            ids(first) == [i \in 1..streams |-> first + i - 1]
<1>1. PICK cur : cur = current_object_id
  OBVIOUS
<1>2. PICK L : L = Len(content)
  OBVIOUS
<1>3. /\ cur \in Nat /\ cur >= 3 /\ L \in Nat
      /\ content \in Seq(ToSet(content)) /\ DOMAIN content = 1..L /\ current_object_id \in Nat
  BY <1>1, <1>2, WriterAssumption DEF Open
<1>4. /\ items \in Seq(ToSet(items)) /\ Len(items) = streams + 1
      /\ Numbered(items) = 1..(streams + 1)
      /\ \A i \in 1..streams : items[i] = Stream(cur + i - 1)
      /\ items[streams + 1] = Page(cur + streams, ids(cur))
      /\ \A i \in 1..(streams + 1) : items[i].id = cur + i - 1
      /\ NextNumber(items) = cur + streams + 1
  BY <1>1, <1>3, PageItemsAre
<1>. HIDE DEF items, ids
<1>5. content' = content \o items /\ object_positions' = Positions(items)
      /\ current_object_id' = cur + streams + 1
  BY <1>4 DEF Write, items
<1>6. /\ content' \in Seq(ToSet(content')) /\ Len(content') = L + streams + 1
      /\ DOMAIN content' = 1..(L + streams + 1)
      /\ \A i \in 1..L : content'[i] = content[i]
      /\ \A i \in 1..(streams + 1) : content'[L + i] = items[i]
  <2>1. /\ content \o items \in Seq(ToSet(content \o items)) /\ Len(content \o items) = L + Len(items)
        /\ DOMAIN (content \o items) = 1..(L + Len(items))
    BY <1>2, <1>3, <1>4, Behind
  <2>2. \A i \in 1..L : (content \o items)[i] = content[i]
    BY <1>2, <1>3, <1>4, Behind
  <2>3. \A i \in 1..Len(items) : (content \o items)[L + i] = items[i]
    BY <1>2, <1>3, <1>4, Behind
  <2>. DEFINE text == content \o items
  <2>. HIDE DEF text
  <2>4. content' = text
    BY <1>5 DEF text
  <2>5. /\ text \in Seq(ToSet(text)) /\ Len(text) = L + (streams + 1) /\ DOMAIN text = 1..(L + (streams + 1))
        /\ \A i \in 1..L : text[i] = content[i]
        /\ \A i \in 1..(streams + 1) : text[L + i] = items[i]
    BY <1>4, <2>1, <2>2, <2>3 DEF text
  <2>. QED
    BY <1>3, <2>4, <2>5
<1>7. current_object_id' \in 3..(MaxNumber - 1)
  BY <1>1, <1>3, <1>5, WriterAssumption DEF NumbersLeft
<1>8. DOMAIN object_positions = 3..(cur - 1)
  BY <1>1 DEF Open, Placed
<1>9. \A k \in 1..(streams + 1) : cur + k - 1 \in 3..(cur + streams)
  BY <1>3
<1>10. \A id \in 3..(cur + streams) : id \in 3..(cur - 1) \/ \E k \in 1..(streams + 1) : id = cur + k - 1
  <2>1. ASSUME NEW id \in 3..(cur + streams), id \notin 3..(cur - 1)
        PROVE  id - cur + 1 \in 1..(streams + 1) /\ id = cur + (id - cur + 1) - 1
    BY <1>3, <2>1
  <2>. QED
    BY <2>1
<1>11. \A i, j \in Numbered(items) : items[i].id = items[j].id => i = j
  BY <1>3, <1>4
<1>12. \A id \in 3..(cur - 1) : \A i \in Numbered(items) : items[i].id # id
  BY <1>3, <1>4
<1>13. DOMAIN object_positions' = 3..(cur + streams)
  <2>. DEFINE Written(id) == \E i \in Numbered(items) : items[i].id = id
  <2>1. \A id : id \in DOMAIN Positions(items) <=> id \in DOMAIN object_positions \/ Written(id)
    BY <1>11, PositionsOf
  <2>2. \A id : Written(id) <=> \E k \in 1..(streams + 1) : id = cur + k - 1
    BY <1>4
  <2>. HIDE DEF Written
  <2>3. \A id : id \in 3..(cur + streams)
                  <=> id \in 3..(cur - 1) \/ \E k \in 1..(streams + 1) : id = cur + k - 1
    <3>. DEFINE New(id) == \E k \in 1..(streams + 1) : id = cur + k - 1
    <3>1. \A id : New(id) => id \in 3..(cur + streams)
      BY <1>9
    <3>2. \A id \in 3..(cur + streams) : id \in 3..(cur - 1) \/ New(id)
      BY <1>10
    <3>. HIDE DEF New
    <3>3. \A id \in 3..(cur - 1) : id \in 3..(cur + streams)
      BY <1>3
    <3>4. \A id : id \in 3..(cur + streams) <=> id \in 3..(cur - 1) \/ New(id)
      BY <3>1, <3>2, <3>3
    <3>. QED
      BY <3>4 DEF New
  <2>4. \A id : id \in DOMAIN object_positions' <=> id \in 3..(cur + streams)
    BY <1>5, <1>8, <2>1, <2>2, <2>3
  <2>. HIDE DEF items
  <2>5. DOMAIN object_positions' = DOMAIN Positions(items)
    BY <1>5
  <2>. QED
    BY <2>4
<1>14. \A k \in 1..(streams + 1) : object_positions'[cur + k - 1] = L + k - 1
  <2>1. \A i \in Numbered(items) : Positions(items)[items[i].id] = Len(content) + i - 1
    BY <1>11, PositionsOf
  <2>. QED
    BY <1>2, <1>4, <1>5, <2>1
<1>15. \A id \in 3..(cur - 1) : object_positions'[id] = object_positions[id]
  BY <1>5, <1>8, <1>11, <1>12, PositionsOf
<1>16. \A id \in 3..(cur - 1) :
          /\ object_positions[id] \in Nat /\ object_positions[id] + 1 \in 1..L
          /\ At(object_positions[id]).id = id
  BY <1>3, <1>8 DEF Open, Placed
<1>17. ASSUME NEW k \in 1..(streams + 1)
       PROVE  /\ object_positions'[cur + k - 1] \in Nat
              /\ object_positions'[cur + k - 1] + 1 \in DOMAIN content'
              /\ content'[object_positions'[cur + k - 1] + 1] = items[k]
  <2>1. object_positions'[cur + k - 1] = L + k - 1
    BY <1>14
  <2>2. L + k - 1 \in Nat /\ (L + k - 1) + 1 = L + k /\ L + k \in 1..(L + streams + 1)
    BY <1>3
  <2>3. content'[L + k] = items[k]
    BY <1>6
  <2>. QED
    BY <1>6, <2>1, <2>2, <2>3
<1>18. ASSUME NEW id \in 3..(cur - 1)
       PROVE  /\ object_positions'[id] \in Nat
              /\ object_positions'[id] + 1 \in DOMAIN content'
              /\ content'[object_positions'[id] + 1] = At(object_positions[id])
  <2>1. object_positions'[id] = object_positions[id] /\ object_positions[id] \in Nat
        /\ object_positions[id] + 1 \in 1..L
    BY <1>15, <1>16
  <2>2. object_positions[id] + 1 \in 1..(L + streams + 1)
    BY <1>3, <2>1
  <2>3. content'[object_positions[id] + 1] = At(object_positions[id])
    BY <1>6, <2>1 DEF At
  <2>. QED
    BY <1>6, <2>1, <2>2, <2>3
<1>19. Placed'
  <2>1. DOMAIN object_positions' = 3..(current_object_id' - 1)
    BY <1>3, <1>5, <1>13
  <2>2. ASSUME NEW id \in DOMAIN object_positions'
        PROVE  /\ object_positions'[id] \in Nat
               /\ object_positions'[id] + 1 \in DOMAIN content'
               /\ content'[object_positions'[id] + 1].id = id
    <3>1. id \in 3..(cur + streams)
      BY <1>13
    <3>2. CASE id \in 3..(cur - 1)
      BY <1>16, <1>18, <3>2
    <3>3. CASE id \notin 3..(cur - 1)
      <4>1. PICK k \in 1..(streams + 1) : id = cur + k - 1
        BY <1>10, <3>1, <3>3
      <4>. QED
        BY <1>4, <1>17, <4>1
    <3>. QED
      BY <3>2, <3>3
  <2>3. ASSUME NEW i \in DOMAIN content'
        PROVE  content'[i].kind # "torn" /\ (content'[i].id # None => content'[i].id \in DOMAIN object_positions')
    <3>1. CASE i \in 1..L
      <4>1. content'[i] = content[i] /\ i \in DOMAIN content
        BY <1>3, <1>6, <3>1
      <4>2. content[i].kind # "torn" /\ (content[i].id # None => content[i].id \in 3..(cur - 1))
        BY <1>8, <4>1 DEF Open, Placed
      <4>3. 3..(cur - 1) \subseteq 3..(cur + streams)
        BY <1>3
      <4>. QED
        BY <1>13, <4>1, <4>2, <4>3
    <3>2. CASE i \notin 1..L
      <4>1. i - L \in 1..(streams + 1) /\ L + (i - L) = i
        BY <1>3, <1>6, <3>2
      <4>2. PICK k \in 1..(streams + 1) : i = L + k
        BY <4>1
      <4>3. content'[i] = items[k]
        BY <1>6, <4>2
      <4>4. items[k].id \in 3..(cur + streams)
        BY <1>4, <1>9
      <4>5. items[k].kind # "torn"
        <5>1. CASE k = streams + 1
          BY <1>4, <5>1 DEF Page
        <5>2. CASE k # streams + 1
          <6>1. k \in 1..streams
            BY <5>2
          <6>2. items[k] = Stream(cur + k - 1)
            BY <1>4, <6>1
          <6>. QED
            BY <6>2 DEF Stream
        <5>. QED
          BY <5>1, <5>2
      <4>. QED
        BY <1>13, <4>3, <4>4, <4>5
    <3>. QED
      BY <3>1, <3>2
  <2>. QED
    BY <2>1, <2>2, <2>3 DEF Placed, At
<1>20. ASSUME NEW id \in 3..(cur - 1), PageWhole(id) PROVE PageWhole(id)'
  <2>. DEFINE page == At(object_positions[id])
  <2>1. /\ page.kind = "page"
        /\ \A stream \in ToSet(page.contents) :
              stream \in 3..(cur - 1) /\ At(object_positions[stream]).kind = "stream"
    BY <1>8, <1>20 DEF PageWhole
  <2>. HIDE DEF page
  <2>2. content'[object_positions'[id] + 1] = page
    BY <1>18 DEF page
  <2>3. id \in DOMAIN object_positions' /\ 3..(cur - 1) \subseteq DOMAIN object_positions'
    BY <1>3, <1>13
  <2>4. \A stream \in ToSet(page.contents) :
           stream \in DOMAIN object_positions' /\ content'[object_positions'[stream] + 1].kind = "stream"
    BY <1>18, <2>1, <2>3
  <2>. QED
    BY <2>1, <2>2, <2>3, <2>4 DEF PageWhole, At
<1>21. PICK new : new = cur + streams
  OBVIOUS
<1>22. PageWhole(new)'
  <2>1. PICK contents : contents = ids(cur)
    OBVIOUS
  <2>2. content'[object_positions'[new] + 1] = Page(new, contents)
    <3>1. streams + 1 \in 1..(streams + 1) /\ cur + (streams + 1) - 1 = cur + streams
      BY <1>3
    <3>2. content'[object_positions'[cur + (streams + 1) - 1] + 1] = items[streams + 1]
      BY <1>17, <3>1
    <3>. QED
      BY <1>4, <1>21, <2>1, <3>1, <3>2
  <2>3. new \in DOMAIN object_positions'
    BY <1>3, <1>13, <1>21
  <2>4. ASSUME NEW stream \in ToSet(contents)
        PROVE  stream \in DOMAIN object_positions' /\ content'[object_positions'[stream] + 1].kind = "stream"
    <3>1. PICK k \in 1..streams : stream = cur + k - 1
      BY <2>1 DEF ToSet, ids
    <3>2. k \in 1..(streams + 1)
      OBVIOUS
    <3>3. items[k] = Stream(cur + k - 1)
      BY <1>4
    <3>4. content'[object_positions'[stream] + 1] = Stream(cur + k - 1)
      BY <1>17, <3>1, <3>2, <3>3
    <3>5. stream \in DOMAIN object_positions'
      BY <1>9, <1>13, <3>1, <3>2
    <3>. QED
      BY <3>4, <3>5 DEF Stream
  <2>5. Page(new, contents).kind = "page" /\ Page(new, contents).contents = contents
    BY DEF Page
  <2>. QED
    BY <2>2, <2>3, <2>4, <2>5 DEF PageWhole, At
<1>23. /\ page_ids \in Seq(Nat) /\ page_ids = acknowledged
       /\ \A i \in DOMAIN page_ids : page_ids[i] \in 3..(cur - 1) /\ PageWhole(page_ids[i])
  BY <1>8 DEF Open, PageWhole
<1>24. page_ids' = acknowledged'
  BY <1>23
<1>25. /\ page_ids' \in Seq(Nat)
       /\ \A i \in DOMAIN page_ids' : page_ids'[i] = new \/ (i \in DOMAIN page_ids /\ page_ids'[i] = page_ids[i])
  BY <1>1, <1>3, <1>21, <1>23
<1>26. ASSUME NEW i \in DOMAIN page_ids' PROVE PageWhole(page_ids[i])'
  <2>1. PICK id : id = page_ids'[i]
    OBVIOUS
  <2>2. id = new \/ (id \in 3..(cur - 1) /\ PageWhole(id))
    BY <1>23, <1>25, <2>1
  <2>3. PageWhole(id)'
    BY <1>20, <1>22, <2>2
  <2>. QED
    BY <2>1, <2>3 DEF PageWhole
<1>. QED
  BY <1>6, <1>7, <1>19, <1>24, <1>25, <1>26 DEF Open

\* A file whose end is written has what is said of one.
LEMMA EndsComplete ==
    ASSUME Open, Write(Ending), disk' = Len(content'), UNCHANGED acknowledged
    PROVE  Complete' /\ Len(content') \in Nat
<1>1. PICK cur : cur = current_object_id
  OBVIOUS
<1>2. PICK L : L = Len(content)
  OBVIOUS
<1>3. PICK tree : tree = PageTree(page_ids)
  OBVIOUS
<1>4. PICK listed : listed = options.xref_streaming
  OBVIOUS
<1>5. PICK table, highest :
        /\ Ending = Roots \o <<table, StartXRef(L + 2)>>
        /\ highest = IF listed THEN cur ELSE cur - 1
        /\ table.kind = "xref"
        /\ table.id = IF listed THEN cur ELSE None
        /\ DOMAIN table.offsets = 1..highest
        /\ table.offsets[1] = L + 1 /\ table.offsets[2] = L
        /\ \A id \in 3..(cur - 1) : table.offsets[id] = object_positions[id]
        /\ listed => table.offsets[cur] = L + 2
  BY <1>1, <1>2, <1>4, EndingIs
<1>6. /\ cur \in Nat /\ cur >= 3 /\ L \in Nat
      /\ content \in Seq(ToSet(content)) /\ DOMAIN content = 1..L
  BY <1>1, <1>2, WriterAssumption DEF Open
<1>7. PICK ending : ending = Ending
  OBVIOUS
<1>8. /\ ending \in Seq(ToSet(ending)) /\ Len(ending) = 4
      /\ ending[1] = tree /\ ending[2] = Catalog /\ ending[3] = table /\ ending[4] = StartXRef(L + 2)
  <2>. DEFINE first == <<tree, Catalog>>
              rest == <<table, StartXRef(L + 2)>>
  <2>1. ending = first \o rest
    BY <1>3, <1>5, <1>7 DEF Roots
  <2>2. /\ first \in Seq(ToSet(first)) /\ Len(first) = 2 /\ first[1] = tree /\ first[2] = Catalog
        /\ rest \in Seq(ToSet(rest)) /\ Len(rest) = 2 /\ rest[1] = table /\ rest[2] = StartXRef(L + 2)
    BY OneTwoThree
  <2>. HIDE DEF first, rest
  <2>3. /\ first \o rest \in Seq(ToSet(first \o rest))
        /\ Len(first \o rest) = Len(first) + Len(rest)
    <3>. first \in Seq(ToSet(first)) /\ rest \in Seq(ToSet(rest))
      BY <2>2
    <3>1. first \o rest \in Seq(ToSet(first \o rest))
      BY Behind
    <3>2. Len(first \o rest) = Len(first) + Len(rest)
      BY Behind
    <3>. QED
      BY <3>1, <3>2
  <2>4. \A i \in 1..Len(first) : (first \o rest)[i] = first[i]
    BY <2>2, Behind
  <2>5. \A i \in 1..Len(rest) : (first \o rest)[Len(first) + i] = rest[i]
    <3>. first \in Seq(ToSet(first)) /\ rest \in Seq(ToSet(rest))
      BY <2>2
    <3>. QED
      BY Behind
  <2>. DEFINE all == first \o rest
  <2>. HIDE DEF all
  <2>6. /\ all \in Seq(ToSet(all)) /\ Len(all) = 4
        /\ \A i \in 1..2 : all[i] = first[i]
        /\ \A i \in 1..2 : all[2 + i] = rest[i]
    BY <2>2, <2>3, <2>4, <2>5 DEF all
  <2>7. all[1] = first[1] /\ all[2] = first[2] /\ all[2 + 1] = rest[1] /\ all[2 + 2] = rest[2]
    BY <2>6
  <2>. QED
    BY <2>1, <2>2, <2>6, <2>7 DEF all
<1>9. content' = content \o ending
  BY <1>7 DEF Write
<1>10. /\ content' \in Seq(ToSet(content')) /\ Len(content') = L + 4 /\ DOMAIN content' = 1..(L + 4)
       /\ \A i \in 1..L : content'[i] = content[i]
       /\ \A i \in 1..4 : content'[L + i] = ending[i]
  <2>1. /\ content \o ending \in Seq(ToSet(content \o ending)) /\ Len(content \o ending) = L + Len(ending)
        /\ DOMAIN (content \o ending) = 1..(L + Len(ending))
    <3>. content \in Seq(ToSet(content)) /\ ending \in Seq(ToSet(ending))
      BY <1>6, <1>8
    <3>1. content \o ending \in Seq(ToSet(content \o ending))
      BY Behind
    <3>2. Len(content \o ending) = Len(content) + Len(ending)
      BY Behind
    <3>3. DOMAIN (content \o ending) = 1..(Len(content) + Len(ending))
      BY Behind
    <3>. QED
      BY <1>2, <3>1, <3>2, <3>3
  <2>2. \A i \in 1..L : (content \o ending)[i] = content[i]
    BY <1>2, <1>6, <1>8, Behind
  <2>3. \A i \in 1..Len(ending) : (content \o ending)[L + i] = ending[i]
    <3>. content \in Seq(ToSet(content)) /\ ending \in Seq(ToSet(ending))
      BY <1>6, <1>8
    <3>1. \A i \in 1..Len(ending) : (content \o ending)[Len(content) + i] = ending[i]
      BY Behind
    <3>. QED
      BY <1>2, <3>1
  <2>. QED
    BY <1>8, <1>9, <2>1, <2>2, <2>3
<1>11. content'[L + 1] = tree /\ content'[L + 2] = Catalog /\ content'[L + 3] = table
       /\ content'[L + 4] = StartXRef(L + 2)
  BY <1>8, <1>10
<1>12. Table' = table
  <2>1. StartXRef(L + 2).offset = L + 2
    BY DEF StartXRef
  <2>2. content'[content'[Len(content')].offset + 1] = content'[L + 3]
    BY <1>6, <1>10, <1>11, <2>1
  <2>. QED
    BY <1>11, <2>2 DEF Table, At
<1>13. PICK pos : pos = object_positions
  OBVIOUS
<1>14. \A id \in 3..(cur - 1) :
          /\ id \in DOMAIN table.offsets /\ id \in DOMAIN pos
          /\ content'[table.offsets[id] + 1] = At(pos[id]) /\ At(pos[id]).id = id
          /\ table.offsets[id] + 1 \in 1..L
  <2>1. DOMAIN pos = 3..(cur - 1)
    BY <1>1, <1>13 DEF Open, Placed
  <2>2. \A id \in 3..(cur - 1) : pos[id] \in Nat /\ pos[id] + 1 \in 1..L /\ At(pos[id]).id = id
    BY <1>6, <1>13, <2>1 DEF Open, Placed
  <2>3. \A id \in 3..(cur - 1) : table.offsets[id] = pos[id] /\ id \in 1..highest
    BY <1>5, <1>6, <1>13
  <2>4. \A id \in 3..(cur - 1) : content'[pos[id] + 1] = At(pos[id])
    BY <1>10, <2>2 DEF At
  <2>. QED
    BY <1>5, <2>1, <2>2, <2>3, <2>4
<1>15. content'[table.offsets[1] + 1] = Catalog /\ content'[table.offsets[2] + 1] = tree
       /\ (listed => content'[table.offsets[cur] + 1] = table)
  <2>1. (L + 1) + 1 = L + 2 /\ (L + 2) + 1 = L + 3
    BY <1>6
  <2>. QED
    BY <1>5, <1>11, <2>1
<1>16. tree.id = 2 /\ tree.kind = "page tree" /\ Catalog.id = 1 /\ Catalog.kind = "catalog"
       /\ StartXRef(L + 2).id = None /\ StartXRef(L + 2).kind = "startxref"
  BY <1>3 DEF PageTree, Catalog, StartXRef
<1>17. \A id \in 1..highest : id = 1 \/ id = 2 \/ id \in 3..(cur - 1) \/ (listed /\ id = cur)
  BY <1>5, <1>6
<1>18. 1 \in 1..highest /\ 2 \in 1..highest /\ (listed => cur \in 1..highest)
  BY <1>5, <1>6
<1>19. ASSUME NEW id \in 1..highest
       PROVE  /\ content'[table.offsets[id] + 1].id = id
              /\ table.offsets[id] + 1 \in DOMAIN content'
  <2>1. CASE id = 1
    <3>1. content'[table.offsets[id] + 1].id = id
      BY <1>15, <1>16, <2>1
    <3>2. table.offsets[id] + 1 \in 1..(L + 4)
      BY <1>5, <1>6, <2>1
    <3>. QED
      BY <1>10, <3>1, <3>2
  <2>2. CASE id = 2
    <3>1. content'[table.offsets[id] + 1].id = id
      BY <1>15, <1>16, <2>2
    <3>2. table.offsets[id] + 1 \in 1..(L + 4)
      BY <1>5, <1>6, <2>2
    <3>. QED
      BY <1>10, <3>1, <3>2
  <2>3. CASE id \in 3..(cur - 1)
    BY <1>6, <1>10, <1>14, <2>3
  <2>4. CASE listed /\ id = cur
    BY <1>5, <1>6, <1>10, <1>15, <2>4
  <2>. QED
    BY <1>17, <2>1, <2>2, <2>3, <2>4
<1>20. ASSUME NEW i \in DOMAIN content'
       PROVE  content'[i].kind # "torn" /\ (content'[i].id # None => content'[i].id \in 1..highest)
  <2>1. CASE i \in 1..L
    <3>1. content'[i] = content[i] /\ i \in DOMAIN content
      BY <1>6, <1>10, <2>1
    <3>2. content[i].kind # "torn" /\ (content[i].id # None => content[i].id \in 3..(cur - 1))
      BY <1>1, <3>1 DEF Open, Placed
    <3>. QED
      BY <1>5, <1>14, <3>1, <3>2
  <2>2. CASE i \notin 1..L
    <3>1. i = L + 1 \/ i = L + 2 \/ i = L + 3 \/ i = L + 4
      BY <1>6, <1>10, <2>2
    <3>. QED
      BY <1>5, <1>11, <1>16, <1>18, <3>1
  <2>. QED
    BY <2>1, <2>2
<1>21. Torn \notin ToSet(content')
  <2>1. Torn.kind = "torn"
    BY DEF Torn
  <2>. QED
    BY <1>20, <2>1 DEF ToSet
<1>22. {item.id : item \in ToSet(content')} \ {None} = 1..highest
  <2>1. \A id \in 1..highest : \E i \in DOMAIN content' : content'[i].id = id /\ id # None
    <3>1. \A id \in 1..highest : id # None
      BY <1>5, <1>6, WriterAssumption
    <3>. QED
      BY <1>19, <3>1
  <2>2. \A id : (\E i \in DOMAIN content' : content'[i].id = id /\ id # None) => id \in 1..highest
    BY <1>20
  <2>. QED
    BY <2>1, <2>2 DEF ToSet
<1>23. \A id \in 1..highest : Referenced(id)' = content'[table.offsets[id] + 1]
  BY <1>12 DEF Referenced, At
<1>24. PICK pages : pages = acknowledged
  OBVIOUS
<1>25. pages = page_ids /\ acknowledged' = pages /\ tree = PageTree(pages)
  BY <1>3, <1>24 DEF Open
<1>26. ASSUME NEW i \in DOMAIN pages
       PROVE  /\ Referenced(pages[i])'.kind = "page"
              /\ \A id \in ToSet(Referenced(pages[i])'.contents) : Referenced(id)'.kind = "stream"
  <2>1. PICK id : id = pages[i]
    OBVIOUS
  <2>2. PageWhole(id)
    BY <1>25, <2>1 DEF Open
  <2>3. DOMAIN pos = 3..(cur - 1)
    BY <1>1, <1>13 DEF Open, Placed
  <2>4. PICK page : page = At(pos[id])
    OBVIOUS
  <2>5. /\ id \in 3..(cur - 1) /\ page.kind = "page"
        /\ \A stream \in ToSet(page.contents) : stream \in 3..(cur - 1) /\ At(pos[stream]).kind = "stream"
    BY <1>13, <2>2, <2>3, <2>4 DEF PageWhole
  <2>6. \A stream \in 3..(cur - 1) : Referenced(stream)' = At(pos[stream])
    BY <1>5, <1>14, <1>23
  <2>7. Referenced(id)' = page
    BY <2>4, <2>5, <2>6
  <2>. QED
    BY <2>1, <2>5, <2>6, <2>7
<1>27. DOMAIN table.offsets = 1..highest
  BY <1>5
<1>28. \A id \in 1..highest : Referenced(id)'.id = id
  BY <1>19, <1>23
<1>29. Referenced(1)' = Catalog /\ Referenced(2)' = PageTree(pages)
  BY <1>15, <1>18, <1>23, <1>25
<1>30. Complete'
  BY <1>5, <1>12, <1>21, <1>22, <1>25, <1>26, <1>27, <1>28, <1>29 DEF Complete
<1>. QED
  BY <1>6, <1>10, <1>30

\* A refused call changes nothing but the answer.
LEMMA RefuseKeeps ==
    ASSUME WriterIInv, NEW op, NEW answer, Refuse(op, answer), answer # "ok",
           ~(op = "finalize" /\ answer = "limit")
    PROVE  WriterIInv'
<1>. USE DEF WriterIInv, Refuse, Report
<1>1. UNCHANGED <<options, content, disk, object_positions, current_object_id, page_ids,
                  last_flush_position, failed, finalized, acknowledged>>
  OBVIOUS
<1>2. reported' = [op |-> op, answer |-> answer]
  OBVIOUS
<1>3. reported'.op = op /\ reported'.answer = answer
  BY <1>2
<1>4. Open => Open'
  BY <1>1 DEF Open, Placed, PageWhole, At
<1>5. Complete => Complete'
  BY <1>1 DEF Complete, Table, Referenced, At
<1>. QED
  BY <1>1, <1>3, <1>4, <1>5

\* A writer that broke off never succeeds again.
LEMMA BreakOffKeeps ==
    ASSUME WriterIInv, ~Closed, NEW op, NEW items, BreakOff(op, items)
    PROVE  WriterIInv'
<1>1. failed' = TRUE /\ finalized' = finalized /\ options' = options
      /\ reported' = [op |-> op, answer |-> "io"]
  BY DEF BreakOff, Report
<1>2. reported'.answer = "io"
  BY <1>1
<1>3. ~finalized'
  BY <1>1 DEF Closed
<1>. QED
  BY <1>1, <1>2, <1>3 DEF WriterIInv

\* A page that is refused leaves the file as it was.
LEMMA RefusePageKeeps ==
    ASSUME WriterIInv, RefusePage
    PROVE  WriterIInv'
<1>1. PICK answer \in {"closed", "unsupported", "limit"} : Refuse("page", answer)
  BY DEF RefusePage
<1>. QED
  BY <1>1, RefuseKeeps

\* A page that is written is whole, and one that is not breaks the file off.
LEMMA WritePageKeeps ==
    ASSUME WriterIInv, WritePage
    PROVE  WriterIInv'
<1>1. ~Closed /\ ~failed /\ ~finalized /\ Open
  BY DEF WritePage, Closed, WriterIInv
<1>2. PICK streams \in 0..MaxStreams :
        /\ NumbersLeft(streams)
        /\ \/ BreakOff("page", PageItems(streams))
           \/ /\ Write(PageItems(streams))
              /\ page_ids' = Append(page_ids, current_object_id + streams)
              /\ \/ /\ Report("page", "ok")
                    /\ acknowledged' = Append(acknowledged, current_object_id + streams)
                    /\ UNCHANGED failed
                 \/ Report("page", "io") /\ failed' = TRUE
              /\ UNCHANGED <<options, finalized>>
  BY DEF WritePage
<1>3. streams \in Nat
  BY <1>2, WriterAssumption
<1>4. CASE BreakOff("page", PageItems(streams))
  BY <1>1, <1>4, BreakOffKeeps
<1>5. CASE /\ Write(PageItems(streams))
           /\ page_ids' = Append(page_ids, current_object_id + streams)
           /\ Report("page", "ok")
           /\ acknowledged' = Append(acknowledged, current_object_id + streams)
           /\ UNCHANGED <<options, failed, finalized>>
  <2>1. Open'
    BY <1>1, <1>2, <1>3, <1>5, PageGrows
  <2>2. reported'.op = "page"
    BY <1>5 DEF Report
  <2>. QED
    BY <1>1, <1>5, <2>1, <2>2 DEF WriterIInv
<1>6. CASE Report("page", "io") /\ failed' = TRUE /\ UNCHANGED <<options, finalized>>
  <2>1. reported'.op = "page" /\ reported'.answer = "io"
    BY <1>6 DEF Report
  <2>. QED
    BY <1>1, <1>6, <2>1 DEF WriterIInv
<1>. QED
  BY <1>2, <1>4, <1>5, <1>6

\* A flush fails only before the file has ended: what is complete is on disk.
LEMMA FlushKeeps ==
    ASSUME WriterIInv, Flush
    PROVE  WriterIInv'
<1>1. CASE failed /\ Refuse("flush", "closed")
  BY <1>1, RefuseKeeps
<1>2. CASE ~failed /\ ~(failed /\ Refuse("flush", "closed"))
  <2>1. UNCHANGED <<options, content, object_positions, current_object_id, page_ids,
                    finalized, acknowledged>>
    BY <1>2 DEF Flush
  <2>2. Open => Open'
    BY <2>1 DEF Open, Placed, PageWhole, At
  <2>3. CASE Report("flush", "ok") /\ disk' = Len(content) /\ UNCHANGED failed
    <3>1. reported'.op = "flush"
      BY <2>3 DEF Report
    <3>2. Complete => Complete'
      BY <2>1, <2>3 DEF Complete, Table, Referenced, At
    <3>3. Len(content') = Len(content)
      BY <2>1
    <3>. QED
      BY <1>2, <2>1, <2>2, <2>3, <3>1, <3>2, <3>3 DEF WriterIInv
  <2>4. CASE Report("flush", "io") /\ disk < Len(content) /\ failed' = TRUE
    <3>1. reported'.op = "flush" /\ reported'.answer = "io"
      BY <2>4 DEF Report
    <3>2. ~finalized
      BY <2>4 DEF WriterIInv, Complete
    <3>. QED
      BY <2>1, <2>4, <3>1, <3>2 DEF WriterIInv
  <2>. QED
    BY <1>2, <2>3, <2>4 DEF Flush
<1>. QED
  BY <1>1, <1>2 DEF Flush

\* A table that has no room for an offset is left off there.
LEMMA LimitIsAnOffset ==
    ASSUME Open, ~EndingFits, object_positions' = Positions(<<PageTree(page_ids), Catalog>>)
    PROVE  /\ ~options.xref_streaming
           /\ \E id \in DOMAIN object_positions' : object_positions'[id] > MaxOffset
<1>1. ~options.xref_streaming /\ ~(Len(content) + 1 <= MaxOffset)
  BY WriterAssumption DEF Open, Placed, EndingFits
<1>2. /\ Roots \in Seq(ToSet(Roots)) /\ Len(Roots) = 2 /\ Roots[1] = PageTree(page_ids) /\ Roots[2] = Catalog
  BY OneTwoThree DEF Roots
<1>3. /\ DOMAIN Positions(Roots) = 1..(current_object_id - 3 + Len(Roots))
      /\ Positions(Roots)[1] = Len(content) + 1
  <2>1. \A i \in 3..Len(Roots) : Roots[i].id = current_object_id /\ i = 3
    BY <1>2
  <2>2. Len(Roots) >= 2
    BY <1>2
  <2>. QED
    BY <1>2, <2>1, <2>2, RootsAre
<1>4. object_positions' = Positions(Roots)
  BY DEF Roots
<1>5. 1 \in 1..(current_object_id - 3 + Len(Roots)) /\ Len(content) + 1 > MaxOffset
  <2>1. Len(content) \in Nat /\ current_object_id \in 3..(MaxNumber - 1)
    BY DEF Open
  <2>. QED
    BY <1>1, <1>2, <2>1, WriterAssumption
<1>. QED
  BY <1>1, <1>3, <1>4, <1>5

\* A file ends complete, or is broken off.
LEMMA FinalizeKeeps ==
    ASSUME WriterIInv, Finalize
    PROVE  WriterIInv'
<1>1. CASE Closed /\ Refuse("finalize", "closed")
  BY <1>1, RefuseKeeps
<1>2. CASE /\ ~Closed /\ ~EndingFits
           /\ object_positions' = Positions(<<PageTree(page_ids), Catalog>>)
           /\ failed' = TRUE /\ Report("finalize", "limit") /\ UNCHANGED <<options, finalized>>
  <2>1. ~finalized /\ Open
    BY <1>2 DEF Closed, WriterIInv
  <2>2. /\ ~options.xref_streaming
        /\ \E id \in DOMAIN object_positions' : object_positions'[id] > MaxOffset
    BY <1>2, <2>1, LimitIsAnOffset
  <2>3. reported'.answer = "limit"
    BY <1>2 DEF Report
  <2>. QED
    BY <1>2, <2>1, <2>2, <2>3 DEF WriterIInv
<1>3. CASE ~Closed /\ \E items : BreakOff("finalize", items)
  BY <1>3, BreakOffKeeps
<1>4. CASE /\ ~Closed /\ Write(Ending) /\ Report("finalize", "ok") /\ disk' = Len(content')
           /\ finalized' = TRUE /\ UNCHANGED <<options, failed, acknowledged>>
  <2>1. ~failed /\ Open
    BY <1>4 DEF Closed, WriterIInv
  <2>2. Complete' /\ Len(content') \in Nat
    BY <1>4, <2>1, EndsComplete
  <2>3. reported'.answer = "ok"
    BY <1>4 DEF Report
  <2>. QED
    BY <1>4, <2>1, <2>2, <2>3 DEF WriterIInv
<1>5. CASE ~Closed /\ Report("finalize", "io") /\ failed' = TRUE /\ UNCHANGED <<options, finalized>>
  <2>1. reported'.answer = "io" /\ ~finalized
    BY <1>5 DEF Report, Closed
  <2>. QED
    BY <1>5, <2>1 DEF WriterIInv
<1>. QED
  BY <1>1, <1>2, <1>3, <1>4, <1>5 DEF Finalize

\* The invariant of a file that is written page by page.
THEOREM WriterInvariance == WriterSpec => []WriterIInv
<1>1. ASSUME WriterIInv, [WriterNext]_writerVars PROVE WriterIInv'
  <2>1. CASE RefusePage
    BY <1>1, <2>1, RefusePageKeeps
  <2>2. CASE WritePage
    BY <1>1, <2>2, WritePageKeeps
  <2>3. CASE Flush
    BY <1>1, <2>3, FlushKeeps
  <2>4. CASE Finalize
    BY <1>1, <2>4, FinalizeKeeps
  <2>5. CASE UNCHANGED writerVars
    <3>1. Open => Open'
      BY <2>5 DEF writerVars, Open, Placed, PageWhole, At
    <3>2. Complete => Complete'
      BY <2>5 DEF writerVars, Complete, Table, Referenced, At
    <3>. QED
      BY <1>1, <2>5, <3>1, <3>2 DEF writerVars, WriterIInv
  <2>. QED
    BY <1>1, <2>1, <2>2, <2>3, <2>4, <2>5 DEF WriterNext
<1>. QED
  BY <1>1, WriterInitKeeps, PTL DEF WriterSpec

\* What finalize reports as written is complete, whichever write of it or of
\* another call could have failed, and nothing succeeds once one has.
THEOREM StreamedFileSoundAlways == WriterSpec => []StreamedFileSound
<1>1. WriterIInv => StreamedFileSound
  BY DEF WriterIInv, Complete, StreamedFileSound
<1>. QED
  BY <1>1, WriterInvariance, PTL

\* What has been written when a write fails, and the numbers given by then.
LEMMA PartOf ==
    ASSUME Open, WriterTypeOK, NEW items, items \in Seq(ToSet(items)), NEW i \in DOMAIN items,
           \A j \in DOMAIN items : items[j].id \in 1..MaxNumber \cup {None},
           NextNumber(items) <= MaxNumber
    PROVE  /\ Len(content \o SubSeq(items, 1, i - 1) \o <<Torn>>) \in Nat
           /\ Len(content) <= Len(content \o SubSeq(items, 1, i - 1) \o <<Torn>>)
           /\ DOMAIN Positions(SubSeq(items, 1, i)) \subseteq 1..MaxNumber
           /\ NextNumber(SubSeq(items, 1, i)) \in 3..MaxNumber
<1>. DEFINE part == SubSeq(items, 1, i)
            before == SubSeq(items, 1, i - 1)
            Given(some) == {j \in Numbered(some) : some[j].id >= current_object_id}
<1>1. Len(items) \in Nat /\ DOMAIN items = 1..Len(items) /\ i \in 1..Len(items)
  OBVIOUS
<1>2. part \in Seq(ToSet(items)) /\ Len(part) = i /\ \A j \in 1..i : part[j] = items[j]
  BY <1>1
<1>3. before \in Seq(ToSet(items))
  BY <1>1
<1>. HIDE DEF part, before
<1>4. DOMAIN part = 1..i /\ i \in Nat
  BY <1>1, <1>2
<1>5. Len(content \o before \o <<Torn>>) \in Nat /\ Len(content) <= Len(content \o before \o <<Torn>>)
  <2>1. content \in Seq(ToSet(content)) /\ Torn \in {Torn}
    BY DEF Open
  <2>. DEFINE S == ToSet(content) \cup ToSet(items) \cup {Torn}
  <2>2. content \in Seq(S) /\ before \in Seq(S) /\ <<Torn>> \in Seq(S)
    BY <1>3, <2>1
  <2>. HIDE DEF S
  <2>3. Len(content) \in Nat /\ Len(before) \in Nat /\ Len(<<Torn>>) = 1
    BY <2>2
  <2>4. content \o before \in Seq(S) /\ Len(content \o before) = Len(content) + Len(before)
    BY <2>2
  <2>5. Len(content \o before \o <<Torn>>) = Len(content \o before) + Len(<<Torn>>)
    BY <2>2, <2>4
  <2>. QED
    BY <2>3, <2>4, <2>5
<1>6. Numbered(part) \subseteq Numbered(items) /\ \A j \in Numbered(part) : part[j] = items[j]
  BY <1>1, <1>2, <1>4 DEF Numbered
<1>7. DOMAIN Positions(part) \subseteq 1..MaxNumber
  <2>1. DOMAIN Positions(part) = DOMAIN object_positions \cup {part[j].id : j \in Numbered(part)}
    BY DEF Positions
  <2>2. \A j \in Numbered(part) : part[j].id \in 1..MaxNumber
    BY <1>6 DEF Numbered
  <2>3. DOMAIN object_positions \subseteq 1..MaxNumber
    BY DEF WriterTypeOK
  <2>. QED
    BY <2>1, <2>2, <2>3
<1>8. Given(part) \subseteq Given(items) /\ Given(items) \subseteq 1..Len(items)
  BY <1>1, <1>6 DEF Numbered
<1>9. NextNumber(part) = current_object_id + Cardinality(Given(part))
      /\ NextNumber(items) = current_object_id + Cardinality(Given(items))
  BY DEF NextNumber
<1>. HIDE DEF Given
<1>10. IsFiniteSet(1..Len(items))
  BY <1>1, FS_Interval
<1>11. IsFiniteSet(Given(items))
  BY <1>8, <1>10, FS_Subset
<1>12. IsFiniteSet(Given(part)) /\ Cardinality(Given(part)) <= Cardinality(Given(items))
  BY <1>8, <1>11, FS_Subset
<1>13. Cardinality(Given(part)) \in Nat /\ Cardinality(Given(items)) \in Nat
  BY <1>11, <1>12, FS_CardinalityType
<1>14. NextNumber(part) \in 3..MaxNumber
  <2>1. current_object_id \in 3..MaxNumber /\ MaxNumber \in Nat
    BY WriterAssumption DEF WriterTypeOK
  <2>. QED
    BY <1>9, <1>12, <1>13, <2>1
<1>. QED
  BY <1>5, <1>7, <1>14 DEF part, before

\* What is written when nothing fails.
LEMMA WholeOf ==
    ASSUME Open, WriterTypeOK, NEW items, items \in Seq(ToSet(items)),
           \A j \in DOMAIN items : items[j].id \in 1..MaxNumber \cup {None}
    PROVE  /\ Len(content \o items) \in Nat /\ Len(content) <= Len(content \o items)
           /\ DOMAIN Positions(items) \subseteq 1..MaxNumber
           /\ NextNumber(items) \in Nat /\ NextNumber(items) >= current_object_id
<1>. DEFINE given == {j \in Numbered(items) : items[j].id >= current_object_id}
<1>1. content \in Seq(ToSet(content))
  BY DEF Open
<1>2. Len(content) \in Nat /\ Len(items) \in Nat /\ DOMAIN items = 1..Len(items)
  BY <1>1
<1>3. Len(content \o items) = Len(content) + Len(items)
  BY <1>1, Behind
<1>4. DOMAIN Positions(items) = DOMAIN object_positions \cup {items[j].id : j \in Numbered(items)}
  BY DEF Positions
<1>5. \A j \in Numbered(items) : items[j].id \in 1..MaxNumber
  BY DEF Numbered
<1>6. DOMAIN Positions(items) \subseteq 1..MaxNumber
  BY <1>4, <1>5 DEF WriterTypeOK
<1>7. given \subseteq 1..Len(items)
  BY <1>2 DEF Numbered
<1>8. NextNumber(items) = current_object_id + Cardinality(given)
  BY DEF NextNumber
<1>. HIDE DEF given
<1>9. IsFiniteSet(given)
  <2>1. IsFiniteSet(1..Len(items))
    BY <1>2, FS_Interval
  <2>. QED
    BY <1>7, <2>1, FS_Subset
<1>10. Cardinality(given) \in Nat
  BY <1>9, FS_CardinalityType
<1>11. NextNumber(items) \in Nat /\ NextNumber(items) >= current_object_id
  <2>1. current_object_id \in Nat
    BY WriterAssumption DEF WriterTypeOK
  <2>. QED
    BY <1>8, <1>10, <2>1
<1>. QED
  BY <1>2, <1>3, <1>6, <1>11

\* The numbers that a page has, and those that the end of a file has.
LEMMA PageItemsFit ==
    ASSUME Open, NEW streams \in Nat, NumbersLeft(streams)
    PROVE  /\ PageItems(streams) \in Seq(ToSet(PageItems(streams)))
           /\ \A j \in DOMAIN PageItems(streams) : PageItems(streams)[j].id \in 1..MaxNumber \cup {None}
           /\ NextNumber(PageItems(streams)) <= MaxNumber
<1>. DEFINE items == PageItems(streams)
<1>1. current_object_id \in Nat /\ current_object_id >= 3 /\ current_object_id + streams + 1 < MaxNumber
      /\ MaxNumber \in Nat
  BY WriterAssumption DEF Open, NumbersLeft
<1>2. /\ items \in Seq(ToSet(items)) /\ Len(items) = streams + 1
      /\ \A i \in 1..(streams + 1) : items[i].id = current_object_id + i - 1
      /\ NextNumber(items) = current_object_id + streams + 1
  BY <1>1, PageItemsAre
<1>. HIDE DEF items
<1>3. DOMAIN items = 1..(streams + 1)
  BY <1>2
<1>4. \A i \in 1..(streams + 1) : current_object_id + i - 1 \in 1..MaxNumber
  BY <1>1
<1>5. \A i \in DOMAIN items : items[i].id \in 1..MaxNumber \cup {None}
  BY <1>2, <1>3, <1>4
<1>. QED
  BY <1>1, <1>2, <1>5 DEF items

\* The objects at the end have numbers of the file, and at most one is new.
LEMMA EndingFitsIn ==
    ASSUME Open, WriterTypeOK, NEW items, items = Ending \/ items = Roots
    PROVE  /\ items \in Seq(ToSet(items))
           /\ \A j \in DOMAIN items : items[j].id \in 1..MaxNumber \cup {None}
           /\ NextNumber(items) <= MaxNumber
<1>. DEFINE cur == current_object_id
            given == {j \in Numbered(items) : items[j].id >= cur}
<1>1. cur \in Nat /\ cur >= 3 /\ cur < MaxNumber /\ MaxNumber \in Nat /\ MaxNumber > 3
  BY WriterAssumption DEF Open
<1>2. PICK table : /\ Ending = Roots \o <<table, StartXRef(Len(content) + 2)>>
                   /\ table.id = cur \/ table.id = None
  BY EndingIs
<1>3. /\ Roots \in Seq(ToSet(Roots)) /\ Len(Roots) = 2 /\ Roots[1] = PageTree(page_ids) /\ Roots[2] = Catalog
  BY OneTwoThree DEF Roots
<1>. DEFINE rest == <<table, StartXRef(Len(content) + 2)>>
<1>4. rest \in Seq(ToSet(rest)) /\ Len(rest) = 2 /\ rest[1] = table /\ rest[2] = StartXRef(Len(content) + 2)
  BY OneTwoThree
<1>. HIDE DEF rest
<1>5. Roots \o rest \in Seq(ToSet(Roots \o rest))
  BY <1>3, <1>4, Behind
<1>6. DOMAIN (Roots \o rest) = 1..(Len(Roots) + Len(rest))
  BY <1>3, <1>4, Behind
<1>7. \A i \in 1..Len(Roots) : (Roots \o rest)[i] = Roots[i]
  BY <1>3, <1>4, Behind
<1>8. \A i \in 1..Len(rest) : (Roots \o rest)[Len(Roots) + i] = rest[i]
  <2>. Roots \in Seq(ToSet(Roots)) /\ rest \in Seq(ToSet(rest))
    BY <1>3, <1>4
  <2>. QED
    BY Behind
<1>9. /\ items \in Seq(ToSet(items)) /\ DOMAIN items \subseteq 1..4
      /\ items[1] = PageTree(page_ids) /\ items[2] = Catalog
      /\ DOMAIN items = 1..2 \/ (items[3] = table /\ items[4] = StartXRef(Len(content) + 2))
  <2>1. CASE items = Roots
    BY <1>3, <2>1
  <2>2. CASE items = Ending
    <3>. DEFINE all == Roots \o rest
    <3>1. items = all
      BY <1>2, <2>2 DEF rest
    <3>2. all \in Seq(ToSet(all))
      BY <1>5
    <3>3. DOMAIN all = 1..4
      BY <1>3, <1>4, <1>6
    <3>4. \A i \in 1..2 : all[i] = Roots[i] /\ all[2 + i] = rest[i]
      BY <1>3, <1>4, <1>7, <1>8
    <3>. HIDE DEF all
    <3>5. all[1] = Roots[1] /\ all[2] = Roots[2] /\ all[2 + 1] = rest[1] /\ all[2 + 2] = rest[2]
      BY <3>4
    <3>. QED
      BY <1>3, <1>4, <3>1, <3>2, <3>3, <3>5
  <2>. QED
    BY <2>1, <2>2
<1>10. PageTree(page_ids).id = 2 /\ Catalog.id = 1 /\ StartXRef(Len(content) + 2).id = None
  BY DEF PageTree, Catalog, StartXRef
<1>11. \A j \in DOMAIN items : (j = 1 /\ items[j].id = 2) \/ (j = 2 /\ items[j].id = 1)
                               \/ (j = 3 /\ items[j].id \in {cur, None}) \/ (j = 4 /\ items[j].id = None)
  BY <1>2, <1>9, <1>10
<1>12. \A j \in DOMAIN items : items[j].id \in 1..MaxNumber \cup {None}
  BY <1>1, <1>11
<1>13. given \subseteq {3}
  BY <1>1, <1>11 DEF Numbered
<1>14. NextNumber(items) = cur + Cardinality(given)
  BY DEF NextNumber
<1>. HIDE DEF given
<1>15. IsFiniteSet({3}) /\ Cardinality({3}) = 1
  BY FS_Singleton
<1>16. IsFiniteSet(given) /\ Cardinality(given) <= 1
  BY <1>13, <1>15, FS_Subset
<1>17. Cardinality(given) \in Nat
  BY <1>16, FS_CardinalityType
<1>18. NextNumber(items) <= MaxNumber
  BY <1>1, <1>14, <1>16, <1>17
<1>. QED
  BY <1>9, <1>12, <1>18

\* What a failed or a successful call leaves on disk is no more than was accepted.
LEMMA DiskFits ==
    ASSUME NEW text, Len(text) \in Nat, Len(content) <= Len(text), WriterTypeOK, Len(content) \in Nat
    PROVE  /\ OnDisk(text) \subseteq 0..Len(text) /\ disk..Len(text) \subseteq 0..Len(text)
           /\ disk..(Len(text) - 1) \subseteq 0..Len(text)
           /\ Len(text) \in 0..Len(text) /\ last_flush_position \in 0..Len(text)
  BY DEF OnDisk, WriterTypeOK

\* An answer counts a call.
LEMMA ReportType ==
    ASSUME WriterTypeOK, NEW op, NEW answer \in {"ok", "closed", "unsupported", "limit", "io"},
           Report(op, answer)
    PROVE  reported'.answer \in {"ok", "closed", "unsupported", "limit", "io"} /\ requests' \in 0..MaxRequests
  BY WriterAssumption DEF Report, WriterTypeOK

\* A refused call keeps the types.
LEMMA RefuseType ==
    ASSUME WriterTypeOK, NEW op, NEW answer \in {"closed", "unsupported", "limit"},
           Refuse(op, answer)
    PROVE  WriterTypeOK'
<1>1. Report(op, answer)
  BY DEF Refuse
<1>2. reported'.answer \in {"ok", "closed", "unsupported", "limit", "io"} /\ requests' \in 0..MaxRequests
  BY <1>1, ReportType
<1>. QED
  BY <1>2 DEF Refuse, WriterTypeOK

\* So does a call that breaks off,
LEMMA BreakOffType ==
    ASSUME WriterTypeOK, Open, NEW op, NEW items, items \in Seq(ToSet(items)),
           \A j \in DOMAIN items : items[j].id \in 1..MaxNumber \cup {None},
           NextNumber(items) <= MaxNumber, BreakOff(op, items)
    PROVE  WriterTypeOK'
<1>1. PICK i \in DOMAIN items :
          /\ content' = content \o SubSeq(items, 1, i - 1) \o <<Torn>>
          /\ object_positions' = Positions(SubSeq(items, 1, i))
          /\ current_object_id' = NextNumber(SubSeq(items, 1, i))
  BY DEF BreakOff
<1>2. Len(content') \in Nat /\ Len(content) <= Len(content')
      /\ DOMAIN object_positions' \subseteq 1..MaxNumber /\ current_object_id' \in 3..MaxNumber
  BY <1>1, PartOf
<1>3. Len(content) \in Nat
  BY DEF Open
<1>4. OnDisk(content') \subseteq 0..Len(content') /\ last_flush_position \in 0..Len(content')
  BY <1>2, <1>3, DiskFits
<1>5. reported'.answer \in {"ok", "closed", "unsupported", "limit", "io"} /\ requests' \in 0..MaxRequests
  BY ReportType DEF BreakOff
<1>6. /\ failed' = TRUE /\ disk' \in OnDisk(content')
      /\ UNCHANGED <<options, page_ids, last_flush_position, finalized, acknowledged>>
  BY DEF BreakOff
<1>. QED
  BY <1>2, <1>4, <1>5, <1>6 DEF WriterTypeOK

\* one that writes a page,
LEMMA WritePageType ==
    ASSUME WriterIInv, WriterTypeOK, WritePage
    PROVE  WriterTypeOK'
<1>1. Open /\ failed = FALSE /\ finalized = FALSE
  BY DEF WritePage, Closed, WriterIInv, WriterTypeOK
<1>2. PICK streams \in 0..MaxStreams :
        /\ NumbersLeft(streams)
        /\ \/ BreakOff("page", PageItems(streams))
           \/ /\ Write(PageItems(streams))
              /\ page_ids' = Append(page_ids, current_object_id + streams)
              /\ \/ /\ Report("page", "ok")
                    /\ disk' = Len(content') \/ disk' \in OnDisk(content')
                    /\ last_flush_position' = Len(content') \/ UNCHANGED last_flush_position
                    /\ acknowledged' = Append(acknowledged, current_object_id + streams)
                    /\ UNCHANGED failed
                 \/ /\ Report("page", "io")
                    /\ disk' \in disk..(Len(content') - 1)
                    /\ failed' = TRUE
                    /\ UNCHANGED <<last_flush_position, acknowledged>>
              /\ UNCHANGED <<options, finalized>>
  BY <1>1 DEF WritePage
<1>3. streams \in Nat
  BY <1>2, WriterAssumption
<1>. DEFINE items == PageItems(streams)
<1>4. /\ items \in Seq(ToSet(items)) /\ NextNumber(items) <= MaxNumber
      /\ \A j \in DOMAIN items : items[j].id \in 1..MaxNumber \cup {None}
  BY <1>1, <1>2, <1>3, PageItemsFit
<1>5. CASE BreakOff("page", items)
  BY <1>1, <1>4, <1>5, BreakOffType
<1>6. CASE ~BreakOff("page", items)
  <2>1. content' = content \o items /\ object_positions' = Positions(items) /\ current_object_id' = NextNumber(items)
    BY <1>2, <1>6 DEF Write
  <2>2. /\ Len(content') \in Nat /\ Len(content) <= Len(content')
        /\ DOMAIN object_positions' \subseteq 1..MaxNumber
        /\ current_object_id' \in Nat /\ current_object_id' >= current_object_id
    BY <1>1, <1>4, <2>1, WholeOf
  <2>3. current_object_id' \in 3..MaxNumber
    BY <1>4, <2>1, <2>2, WriterAssumption DEF WriterTypeOK
  <2>4. Len(content) \in Nat
    BY <1>1 DEF Open
  <2>5. /\ OnDisk(content') \subseteq 0..Len(content') /\ disk..(Len(content') - 1) \subseteq 0..Len(content')
        /\ Len(content') \in 0..Len(content') /\ last_flush_position \in 0..Len(content')
    BY <2>2, <2>4, DiskFits
  <2>6. disk' \in 0..Len(content') /\ last_flush_position' \in 0..Len(content')
    BY <1>2, <1>6, <2>5
  <2>7. current_object_id + streams \in 3..MaxNumber
    BY <1>2, <1>3, WriterAssumption DEF NumbersLeft, WriterTypeOK
  <2>8. \A s \in Seq(3..MaxNumber) : Append(s, current_object_id + streams) \in Seq(3..MaxNumber)
    BY <2>7
  <2>9. page_ids' \in Seq(3..MaxNumber) /\ acknowledged' \in Seq(3..MaxNumber)
    BY <1>2, <1>6, <2>8 DEF WriterTypeOK
  <2>10. reported'.answer \in {"ok", "closed", "unsupported", "limit", "io"} /\ requests' \in 0..MaxRequests
    BY <1>2, <1>6, ReportType
  <2>11. options' = options /\ finalized' = FALSE /\ failed' \in BOOLEAN
    BY <1>1, <1>2, <1>6
  <2>. QED
    BY <2>2, <2>3, <2>6, <2>9, <2>10, <2>11 DEF WriterTypeOK
<1>. QED
  BY <1>5, <1>6

\* a flush
LEMMA FlushType ==
    ASSUME WriterIInv, WriterTypeOK, Flush
    PROVE  WriterTypeOK'
<1>1. CASE failed /\ Refuse("flush", "closed")
  BY <1>1, RefuseType
<1>2. CASE ~failed /\ ~(failed /\ Refuse("flush", "closed"))
  <2>1. UNCHANGED <<options, content, object_positions, current_object_id, page_ids, finalized, acknowledged>>
    BY <1>2 DEF Flush
  <2>2. Len(content) \in Nat
    BY <1>2 DEF WriterIInv, Open, WriterTypeOK
  <2>3. PICK answer \in {"ok", "io"} :
          /\ Report("flush", answer)
          /\ disk' = Len(content) \/ disk' \in disk..(Len(content) - 1)
          /\ last_flush_position' = Len(content) \/ UNCHANGED last_flush_position
          /\ failed' = TRUE \/ UNCHANGED failed
    BY <1>2 DEF Flush
  <2>4. reported'.answer \in {"ok", "closed", "unsupported", "limit", "io"} /\ requests' \in 0..MaxRequests
    BY <2>3, ReportType
  <2>5. disk' \in 0..Len(content) /\ last_flush_position' \in 0..Len(content) /\ failed' \in BOOLEAN
    <3>1. disk \in 0..Len(content) /\ last_flush_position \in 0..Len(content) /\ failed \in BOOLEAN
      BY DEF WriterTypeOK
    <3>2. failed' \in BOOLEAN
      BY <2>3, <3>1
    <3>3. disk' \in 0..Len(content)
      BY <2>2, <2>3, <3>1
    <3>4. last_flush_position' \in 0..Len(content)
      BY <2>2, <2>3, <3>1
    <3>. QED
      BY <3>2, <3>3, <3>4
  <2>. QED
    BY <2>1, <2>4, <2>5 DEF WriterTypeOK
<1>. QED
  BY <1>1, <1>2 DEF Flush

\* and the end of a file.
LEMMA FinalizeType ==
    ASSUME WriterIInv, WriterTypeOK, Finalize
    PROVE  WriterTypeOK'
<1>1. CASE Closed
  <2>1. Refuse("finalize", "closed")
    BY <1>1 DEF Finalize
  <2>. QED
    BY <2>1, RefuseType
<1>2. CASE ~Closed
  <2>1. Open /\ failed = FALSE /\ finalized = FALSE /\ Len(content) \in Nat
    BY <1>2 DEF Closed, WriterIInv, WriterTypeOK, Open
  <2>2. \A items : items = Ending \/ items = Roots =>
          /\ items \in Seq(ToSet(items))
          /\ \A j \in DOMAIN items : items[j].id \in 1..MaxNumber \cup {None}
          /\ NextNumber(items) <= MaxNumber
    BY <2>1, EndingFitsIn
  <2>3. CASE \E items : (items = Ending \/ items = Roots) /\ BreakOff("finalize", items)
    BY <2>1, <2>2, <2>3, BreakOffType
  <2>4. CASE /\ Report("finalize", "limit")
             /\ content' = content \o <<PageTree(page_ids), Catalog, Torn>>
             /\ object_positions' = Positions(<<PageTree(page_ids), Catalog>>)
             /\ disk' \in OnDisk(content')
             /\ failed' = TRUE
             /\ UNCHANGED <<options, current_object_id, page_ids, last_flush_position, finalized, acknowledged>>
    <3>. DEFINE cut == <<PageTree(page_ids), Catalog, Torn>>
    <3>1. cut \in Seq(ToSet(cut)) /\ Len(cut) = 3
      BY OneTwoThree
    <3>. HIDE DEF cut
    <3>2. Len(content \o cut) = Len(content) + Len(cut)
      BY <2>1, <3>1, Behind DEF Open
    <3>3. Len(content') \in Nat /\ Len(content) <= Len(content')
      BY <2>1, <2>4, <3>1, <3>2 DEF cut
    <3>4. DOMAIN object_positions' \subseteq 1..MaxNumber
      BY <2>1, <2>2, <2>4, WholeOf DEF Roots
    <3>5. OnDisk(content') \subseteq 0..Len(content') /\ last_flush_position \in 0..Len(content')
      BY <2>1, <3>3, DiskFits
    <3>6. reported'.answer \in {"ok", "closed", "unsupported", "limit", "io"} /\ requests' \in 0..MaxRequests
      BY <2>4, ReportType
    <3>. QED
      BY <2>4, <3>3, <3>4, <3>5, <3>6 DEF WriterTypeOK
  <2>5. CASE /\ Write(Ending)
             /\ \/ /\ Report("finalize", "ok")
                   /\ disk' = Len(content') /\ last_flush_position' = Len(content')
                   /\ finalized' = TRUE /\ UNCHANGED failed
                \/ /\ Report("finalize", "io")
                   /\ disk' \in disk..(Len(content') - 1)
                   /\ failed' = TRUE /\ UNCHANGED <<finalized, last_flush_position>>
             /\ UNCHANGED <<options, page_ids, acknowledged>>
    <3>1. content' = content \o Ending /\ object_positions' = Positions(Ending)
          /\ current_object_id' = NextNumber(Ending)
      BY <2>5 DEF Write
    <3>2. PICK items : items = Ending
      OBVIOUS
    <3>3. /\ Len(content') \in Nat /\ Len(content) <= Len(content')
          /\ DOMAIN object_positions' \subseteq 1..MaxNumber
          /\ current_object_id' \in Nat /\ current_object_id' >= current_object_id
      BY <2>1, <2>2, <3>1, <3>2, WholeOf
    <3>4. current_object_id' \in 3..MaxNumber
      BY <2>2, <3>1, <3>2, <3>3, WriterAssumption DEF WriterTypeOK
    <3>5. /\ disk..(Len(content') - 1) \subseteq 0..Len(content')
          /\ Len(content') \in 0..Len(content') /\ last_flush_position \in 0..Len(content')
      BY <2>1, <3>3, DiskFits
    <3>6. reported'.answer \in {"ok", "closed", "unsupported", "limit", "io"} /\ requests' \in 0..MaxRequests
      BY <2>5, ReportType
    <3>7. disk' \in 0..Len(content') /\ last_flush_position' \in 0..Len(content')
          /\ finalized' \in BOOLEAN /\ failed' \in BOOLEAN
      BY <2>1, <2>5, <3>5
    <3>. QED
      BY <2>5, <3>3, <3>4, <3>6, <3>7 DEF WriterTypeOK
  <2>. QED
    BY <1>2, <2>3, <2>4, <2>5 DEF Finalize, Roots
<1>. QED
  BY <1>1, <1>2

\* The variables of a streaming writer keep their types.
THEOREM WriterTypeCorrect == WriterSpec => []WriterTypeOK
<1>1. WriterInit => WriterTypeOK
  <2>1. WriterInit => Len(content) = 1 /\ 3 \in 3..MaxNumber /\ DOMAIN object_positions = {}
    BY WriterAssumption DEF WriterInit
  <2>2. WriterInit => disk \in {0, 1} /\ page_ids \in Seq(3..MaxNumber) /\ acknowledged \in Seq(3..MaxNumber)
    BY DEF WriterInit
  <2>3. WriterInit => disk \in 0..Len(content) /\ last_flush_position \in 0..Len(content)
    BY <2>1, <2>2 DEF WriterInit
  <2>4. WriterInit => reported.answer = "ok" /\ requests \in 0..MaxRequests
    BY WriterAssumption DEF WriterInit
  <2>5. WriterInit => options \in Options /\ current_object_id = 3 /\ failed = FALSE /\ finalized = FALSE
    BY DEF WriterInit
  <2>. QED
    BY <2>1, <2>2, <2>3, <2>4, <2>5 DEF WriterTypeOK
<1>2. ASSUME WriterTypeOK, WriterIInv, [WriterNext]_writerVars PROVE WriterTypeOK'
  <2>1. CASE RefusePage
    <3>1. PICK answer \in {"closed", "unsupported", "limit"} : Refuse("page", answer)
      BY <2>1 DEF RefusePage
    <3>. QED
      BY <1>2, <3>1, RefuseType
  <2>2. CASE WritePage
    BY <1>2, <2>2, WritePageType
  <2>3. CASE Flush
    BY <1>2, <2>3, FlushType
  <2>4. CASE Finalize
    BY <1>2, <2>4, FinalizeType
  <2>5. CASE UNCHANGED writerVars
    BY <1>2, <2>5 DEF writerVars, WriterTypeOK
  <2>. QED
    BY <1>2, <2>1, <2>2, <2>3, <2>4, <2>5 DEF WriterNext
<1>. QED
  BY <1>1, <1>2, WriterInvariance, PTL DEF WriterSpec

-----------------------------------------------------------------------------
(* The resource pool *)

\* The sizes of sets that ResourcePool speaks of are those the library knows.
LEMMA PoolSizes == \A S : Pool!Cardinality(S) = Cardinality(S) /\ (Pool!IsFiniteSet(S) <=> IsFiniteSet(S))
  BY DEF Pool!Cardinality, Cardinality, Pool!IsFiniteSet, IsFiniteSet

\* Where a thread is in its call.
CallPlaces ==
    \A t \in Threads :
       /\ pc[t] \in {"idle", "lock_map", "lock_stats"} => at[t] = 0
       /\ pc[t] \in {"lock_map", "lock_stats"} => adds[t] \in [kind : Pool!Kinds, resource : Resources]

\* A map is written by one thread at a time, which has nothing to wait for, and
\* read by those that have come past it in memory_usage.
MapLocks ==
    \A k \in Pool!Kinds :
       /\ \A t \in Threads : writer[k] = t <=> pc[t] = "lock_stats" /\ adds[t].kind = k
       /\ writer[k] # None => readers[k] = {}
       /\ \A t \in readers[k] : pc[t] = "usage" /\ \E i \in 1..at[t] : Types[i] = k

\* A map that a clear has emptied, whose counters it has yet to reset, is empty
\* unless something was added since; otherwise the counters match the map.
CountersOf(k) ==
    /\ stats[k].requests = stats[k].unique + stats[k].duplicates
    /\ \A h \in Pool!Stored(k) : Hash[pool[k][h]] = h
    /\ Pool!HalfCleared(k) => k \in missed \/ Pool!Stored(k) = {}
    /\ ~Pool!HalfCleared(k) =>
         /\ stats[k].unique <= Cardinality(Pool!Stored(k))
         /\ k \notin missed => stats[k].unique = Cardinality(Pool!Stored(k))

TypeCounters == \A k \in Pool!Kinds : CountersOf(k)

PoolIInv == Pool!TypeOK /\ CallPlaces /\ MapLocks /\ TypeCounters

\* No two threads wait for each other: the writer of a map holds all it needs to
\* go on, and a thread that holds maps for reading waits at most for a writer.
NoWaitInCircle ==
    \A k \in Pool!Kinds :
       /\ writer[k] # None => writer[k] \in Threads /\ pc[writer[k]] = "lock_stats" /\ readers[k] = {}
       /\ \A t \in readers[k] : pc[t] = "usage" /\ \A other \in Pool!Kinds : writer[other] # t

-----------------------------------------------------------------------------
(* The map of a type is finite. *)

\* A map holds finitely many resources, for there are finitely many hashes.
LEMMA StoredFinite ==
    ASSUME Pool!SoundConstants, NEW k
    PROVE  IsFiniteSet(Pool!Stored(k)) /\ Cardinality(Pool!Stored(k)) \in Nat
<1>. DEFINE f == [r \in Resources |-> Hash[r]]
<1>1. f \in Surjection(Resources, Pool!Hashes)
  BY DEF Surjection, Pool!Hashes
<1>2. IsFiniteSet(Pool!Hashes)
  BY <1>1, FS_Surjection, PoolSizes DEF Pool!SoundConstants
<1>3. Pool!Stored(k) \in SUBSET Pool!Hashes
  BY DEF Pool!Stored
<1>. QED
  BY <1>2, <1>3, FS_Subset, FS_CardinalityType

-----------------------------------------------------------------------------
(* The initial state. *)

\* The invariant holds of a new pool.
LEMMA PoolInit == ASSUME Pool!SoundConstants, Pool!Init PROVE PoolIInv
<1>1. Pool!TypeOK
  BY DEF Pool!SoundConstants, Pool!Init, Pool!TypeOK
<1>2. CallPlaces
  BY DEF Pool!Init, CallPlaces
<1>3. MapLocks
  BY DEF Pool!SoundConstants, Pool!Init, MapLocks
<1>4. TypeCounters
  <2>. SUFFICES ASSUME NEW k \in Pool!Kinds PROVE CountersOf(k)
    BY DEF TypeCounters
  <2>1. Pool!Stored(k) = {}
    BY DEF Pool!Init, Pool!Stored
  <2>2. stats[k] = [requests |-> 0, unique |-> 0, duplicates |-> 0]
    BY DEF Pool!Init
  <2>. QED
    BY <2>1, <2>2, FS_EmptySet DEF CountersOf
<1>. QED
  BY <1>1, <1>2, <1>3, <1>4 DEF PoolIInv

-----------------------------------------------------------------------------
(* Types and positions. *)

\* Every step keeps the types.
LEMMA PoolTypeKept == ASSUME Pool!SoundConstants, Pool!TypeOK, CallPlaces, [Pool!Next]_Pool!vars PROVE Pool!TypeOK'
<1>. USE DEF Pool!SoundConstants, Pool!TypeOK
<1>1. ASSUME NEW t \in Threads, NEW k \in Pool!Kinds, NEW r \in Resources, Pool!CallAdd(t, k, r) PROVE Pool!TypeOK'
  BY <1>1 DEF Pool!CallAdd, Pool!Begin
<1>2. ASSUME NEW t \in Threads, NEW op \in {"clear", "usage"}, Pool!Call(t, op) PROVE Pool!TypeOK'
  BY <1>2 DEF Pool!Call, Pool!Begin
<1>3. ASSUME NEW t \in Threads, Pool!LockMap(t) PROVE Pool!TypeOK'
  BY <1>3 DEF Pool!LockMap, Pool!Goto, CallPlaces
<1>4. ASSUME NEW t \in Threads, Pool!AddResource(t) PROVE Pool!TypeOK'
  <2>1. PICK k \in Pool!Kinds, r \in Resources : adds[t].kind = k /\ adds[t].resource = r /\ Hash[r] \in Pool!Hashes
    BY <1>4 DEF Pool!AddResource, CallPlaces, Pool!Hashes
  <2>2. stats[k] \in [requests : Nat, unique : Nat, duplicates : Nat]
    BY <2>1
  <2>3. stats' \in [Pool!Kinds -> [requests : Nat, unique : Nat, duplicates : Nat]]
    <3>1. CASE pool[k][Hash[r]] # None
      <4>1. stats' = [stats EXCEPT ![k].requests = @ + 1, ![k].duplicates = @ + 1]
        BY <1>4, <2>1, <3>1 DEF Pool!AddResource
      <4>. QED
        BY <2>2, <4>1
    <3>2. CASE pool[k][Hash[r]] = None
      <4>1. stats' = [stats EXCEPT ![k].requests = @ + 1, ![k].unique = @ + 1]
        BY <1>4, <2>1, <3>2 DEF Pool!AddResource
      <4>. QED
        BY <2>2, <4>1
    <3>. QED
      BY <3>1, <3>2
  <2>4. pool' \in [Pool!Kinds -> [Pool!Hashes -> Resources \cup {None}]]
    <3>1. pool' = pool \/ pool' = [pool EXCEPT ![k][Hash[r]] = r]
      BY <1>4, <2>1 DEF Pool!AddResource
    <3>2. pool[k] \in [Pool!Hashes -> Resources \cup {None}]
      BY <2>1
    <3>3. [pool[k] EXCEPT ![Hash[r]] = r] \in [Pool!Hashes -> Resources \cup {None}]
      BY <2>1, <3>2
    <3>. QED
      BY <2>1, <3>1, <3>3
  <2>5. writer' \in [Pool!Kinds -> Threads \cup {None}] /\ missed' \subseteq Pool!Kinds
    BY <1>4, <2>1 DEF Pool!AddResource
  <2>. QED
    BY <1>4, <2>3, <2>4, <2>5 DEF Pool!AddResource, Pool!Goto
<1>5. ASSUME NEW t \in Threads, Pool!ClearMap(t) PROVE Pool!TypeOK'
  <2>1. at[t] + 1 \in DOMAIN Types /\ Types[at[t] + 1] \in Pool!Kinds /\ at[t] + 1 \in 0..Len(Types)
    BY <1>5 DEF Pool!ClearMap, Pool!Kinds
  <2>. QED
    BY <1>5, <2>1 DEF Pool!ClearMap
<1>6. ASSUME NEW t \in Threads, Pool!ResetStats(t) PROVE Pool!TypeOK'
  BY <1>6 DEF Pool!ResetStats, Pool!Goto
<1>7. ASSUME NEW t \in Threads, Pool!ReadMap(t) PROVE Pool!TypeOK'
  <2>1. at[t] + 1 \in DOMAIN Types /\ Types[at[t] + 1] \in Pool!Kinds /\ at[t] + 1 \in 0..Len(Types)
    BY <1>7 DEF Pool!ReadMap, Pool!Kinds
  <2>. QED
    BY <1>7, <2>1 DEF Pool!ReadMap
<1>8. ASSUME NEW t \in Threads, Pool!ReleaseMaps(t) PROVE Pool!TypeOK'
  BY <1>8 DEF Pool!ReleaseMaps, Pool!Goto
<1>9. ASSUME UNCHANGED Pool!vars PROVE Pool!TypeOK'
  BY <1>9 DEF Pool!vars
<1>. HIDE DEF Pool!SoundConstants, Pool!TypeOK
<1>. QED
  BY <1>1, <1>2, <1>3, <1>4, <1>5, <1>6, <1>7, <1>8, <1>9 DEF Pool!Next, Pool!Step

\* Every step keeps track of where the threads are.
LEMMA CallPlacesKept == ASSUME Pool!SoundConstants, Pool!TypeOK, CallPlaces, [Pool!Next]_Pool!vars PROVE CallPlaces'
<1>. USE DEF Pool!TypeOK, CallPlaces
<1>1. ASSUME NEW t \in Threads, NEW k \in Pool!Kinds, NEW r \in Resources, Pool!CallAdd(t, k, r) PROVE CallPlaces'
  BY <1>1 DEF Pool!CallAdd, Pool!Begin
<1>2. ASSUME NEW t \in Threads, NEW op \in {"clear", "usage"}, Pool!Call(t, op) PROVE CallPlaces'
  BY <1>2 DEF Pool!Call, Pool!Begin
<1>3. ASSUME NEW t \in Threads, Pool!LockMap(t) PROVE CallPlaces'
  BY <1>3 DEF Pool!LockMap, Pool!Goto
<1>4. ASSUME NEW t \in Threads, Pool!AddResource(t) PROVE CallPlaces'
  BY <1>4 DEF Pool!AddResource, Pool!Goto
<1>5. ASSUME NEW t \in Threads, Pool!ClearMap(t) PROVE CallPlaces'
  BY <1>5 DEF Pool!ClearMap
<1>6. ASSUME NEW t \in Threads, Pool!ResetStats(t) PROVE CallPlaces'
  BY <1>6 DEF Pool!ResetStats, Pool!Goto
<1>7. ASSUME NEW t \in Threads, Pool!ReadMap(t) PROVE CallPlaces'
  BY <1>7 DEF Pool!ReadMap
<1>8. ASSUME NEW t \in Threads, Pool!ReleaseMaps(t) PROVE CallPlaces'
  BY <1>8 DEF Pool!ReleaseMaps, Pool!Goto
<1>9. ASSUME UNCHANGED Pool!vars PROVE CallPlaces'
  BY <1>9 DEF Pool!vars
<1>. QED
  BY <1>1, <1>2, <1>3, <1>4, <1>5, <1>6, <1>7, <1>8, <1>9 DEF Pool!Next, Pool!Step

-----------------------------------------------------------------------------
(* Locks. *)

\* Every step keeps the discipline of the locks.
LEMMA MapLocksKept == ASSUME Pool!SoundConstants, Pool!TypeOK, CallPlaces, MapLocks, [Pool!Next]_Pool!vars PROVE MapLocks'
<1>. USE DEF Pool!TypeOK, MapLocks
<1>1. ASSUME NEW t \in Threads, NEW k \in Pool!Kinds, NEW r \in Resources, Pool!CallAdd(t, k, r) PROVE MapLocks'
  <2>1. pc[t] = "idle" /\ pc'[t] = "lock_map" /\ \A u \in Threads \ {t} : pc'[u] = pc[u] /\ adds'[u] = adds[u]
    BY <1>1 DEF Pool!CallAdd, Pool!Begin
  <2>2. writer' = writer /\ readers' = readers /\ at' = at
    BY <1>1 DEF Pool!CallAdd
  <2>3. ASSUME NEW m \in Pool!Kinds, NEW u \in Threads PROVE writer'[m] = u <=> pc'[u] = "lock_stats" /\ adds'[u].kind = m
    <3>1. CASE u = t
      BY <2>1, <2>2, <3>1
    <3>2. CASE u # t
      BY <2>1, <2>2, <3>2
    <3>. QED
      BY <3>1, <3>2
  <2>4. \A m \in Pool!Kinds : writer'[m] # None => readers'[m] = {}
    BY <2>2
  <2>5. \A m \in Pool!Kinds : \A u \in readers'[m] : pc'[u] = "usage" /\ \E i \in 1..at'[u] : Types[i] = m
    BY <2>1, <2>2
  <2>. QED
    BY <2>3, <2>4, <2>5
<1>2. ASSUME NEW t \in Threads, NEW op \in {"clear", "usage"}, Pool!Call(t, op) PROVE MapLocks'
  BY <1>2 DEF Pool!Call, Pool!Begin
<1>3. ASSUME NEW t \in Threads, Pool!LockMap(t) PROVE MapLocks'
  <2>1. PICK k \in Pool!Kinds : adds[t].kind = k /\ writer[k] = None /\ readers[k] = {}
    BY <1>3 DEF Pool!LockMap, CallPlaces
  <2>2. writer' = [writer EXCEPT ![k] = t] /\ pc' = [pc EXCEPT ![t] = "lock_stats"]
    BY <1>3, <2>1 DEF Pool!LockMap, Pool!Goto
  <2>3. pc[t] = "lock_map" /\ readers' = readers /\ adds' = adds /\ at' = at
    BY <1>3 DEF Pool!LockMap
  <2>4. t # None /\ \A u \in Threads : u # None
    BY DEF Pool!SoundConstants
  <2>5. ASSUME NEW m \in Pool!Kinds, NEW u \in Threads PROVE writer'[m] = u <=> pc'[u] = "lock_stats" /\ adds'[u].kind = m
    <3>1. CASE u = t
      BY <2>1, <2>2, <2>3, <3>1
    <3>2. CASE u # t
      BY <2>1, <2>2, <2>3, <2>4, <3>2
    <3>. QED
      BY <3>1, <3>2
  <2>6. ASSUME NEW m \in Pool!Kinds, writer'[m] # None PROVE readers'[m] = {}
    BY <2>1, <2>2, <2>3, <2>6
  <2>7. ASSUME NEW m \in Pool!Kinds, NEW u \in readers'[m] PROVE pc'[u] = "usage" /\ \E i \in 1..at'[u] : Types[i] = m
    BY <2>2, <2>3, <2>7
  <2>. QED
    BY <2>5, <2>6, <2>7
<1>4. ASSUME NEW t \in Threads, Pool!AddResource(t) PROVE MapLocks'
  <2>1. PICK k \in Pool!Kinds : adds[t].kind = k /\ writer[k] = t
    BY <1>4 DEF Pool!AddResource, CallPlaces
  <2>2. writer' = [writer EXCEPT ![k] = None] /\ pc' = [pc EXCEPT ![t] = "idle"] /\ adds' = [adds EXCEPT ![t] = None]
    BY <1>4, <2>1 DEF Pool!AddResource, Pool!Goto
  <2>3. pc[t] = "lock_stats" /\ readers' = readers /\ at' = at
    BY <1>4 DEF Pool!AddResource
  <2>4. \A u \in Threads : u # None
    BY DEF Pool!SoundConstants
  <2>5. ASSUME NEW m \in Pool!Kinds, NEW u \in Threads PROVE writer'[m] = u <=> pc'[u] = "lock_stats" /\ adds'[u].kind = m
    <3>1. CASE u = t
      BY <2>1, <2>2, <2>3, <2>4, <3>1
    <3>2. CASE u # t
      BY <2>1, <2>2, <2>3, <2>4, <3>2
    <3>. QED
      BY <3>1, <3>2
  <2>6. ASSUME NEW m \in Pool!Kinds, writer'[m] # None PROVE readers'[m] = {}
    BY <2>1, <2>2, <2>3, <2>6
  <2>7. ASSUME NEW m \in Pool!Kinds, NEW u \in readers'[m] PROVE pc'[u] = "usage" /\ \E i \in 1..at'[u] : Types[i] = m
    BY <2>2, <2>3, <2>7
  <2>. QED
    BY <2>5, <2>6, <2>7
<1>5. ASSUME NEW t \in Threads, Pool!ClearMap(t) PROVE MapLocks'
  BY <1>5 DEF Pool!ClearMap
<1>6. ASSUME NEW t \in Threads, Pool!ResetStats(t) PROVE MapLocks'
  BY <1>6 DEF Pool!ResetStats, Pool!Goto
<1>7. ASSUME NEW t \in Threads, Pool!ReadMap(t) PROVE MapLocks'
  <2>1. at[t] + 1 \in 1..Len(Types) /\ Types[at[t] + 1] \in Pool!Kinds
    BY <1>7 DEF Pool!ReadMap, Pool!Kinds, Pool!SoundConstants
  <2>2. ASSUME NEW k \in Pool!Kinds, NEW u \in readers'[k] PROVE pc'[u] = "usage" /\ \E i \in 1..at'[u] : Types[i] = k
    <3>1. CASE u \in readers[k]
      BY <1>7, <3>1 DEF Pool!ReadMap
    <3>2. CASE u \notin readers[k]
      BY <1>7, <2>1, <2>2, <3>2 DEF Pool!ReadMap
    <3>. QED
      BY <3>1, <3>2
  <2>3. writer' = writer /\ pc' = pc /\ adds' = adds
    BY <1>7 DEF Pool!ReadMap
  <2>4. ASSUME NEW k \in Pool!Kinds, writer'[k] # None PROVE readers'[k] = {}
    BY <1>7, <2>1, <2>4 DEF Pool!ReadMap
  <2>. QED
    BY <2>2, <2>3, <2>4
<1>8. ASSUME NEW t \in Threads, Pool!ReleaseMaps(t) PROVE MapLocks'
  BY <1>8 DEF Pool!ReleaseMaps, Pool!Goto
<1>9. ASSUME UNCHANGED Pool!vars PROVE MapLocks'
  BY <1>9 DEF Pool!vars
<1>. QED
  BY <1>1, <1>2, <1>3, <1>4, <1>5, <1>6, <1>7, <1>8, <1>9 DEF Pool!Next, Pool!Step

-----------------------------------------------------------------------------
(* Counters. *)

\* A step that leaves a type and its half of every clear alone keeps its account.
LEMMA Untouched ==
    ASSUME NEW k \in Pool!Kinds, CountersOf(k), pool'[k] = pool[k], stats'[k] = stats[k],
           k \in missed' <=> k \in missed, Pool!HalfCleared(k)' <=> Pool!HalfCleared(k)
    PROVE  CountersOf(k)'
<1>1. Pool!Stored(k)' = Pool!Stored(k)
  BY DEF Pool!Stored
<1>. QED
  BY <1>1 DEF CountersOf, Pool!Stored

\* A thread that has cleared nothing has no part in what is half cleared.
LEMMA ElsewhereHalf ==
    ASSUME Pool!SoundConstants, Pool!TypeOK, NEW t \in Threads, NEW k,
           \A u \in Threads \ {t} : pc'[u] = pc[u] /\ at'[u] = at[u],
           pc[t] = "clear" => at[t] = 0,
           pc'[t] = "clear" => at'[t] = 0
    PROVE  Pool!HalfCleared(k)' <=> Pool!HalfCleared(k)
<1>1. \A i \in DOMAIN Types : i \in Nat /\ i > 0
  BY DEF Pool!SoundConstants
<1>2. \A i \in DOMAIN Types : ~(pc[t] = "clear" /\ at[t] >= i) /\ ~(pc'[t] = "clear" /\ at'[t] >= i)
  BY <1>1
<1>. QED
  BY <1>2 DEF Pool!HalfCleared

\* Adding a resource keeps the counters of its type and of the others.
LEMMA AddKeeps ==
    ASSUME Pool!SoundConstants, Pool!TypeOK, CallPlaces, TypeCounters, NEW t \in Threads, Pool!AddResource(t)
    PROVE  TypeCounters'
<1>1. PICK kind \in Pool!Kinds, r \in Resources :
         adds[t].kind = kind /\ adds[t].resource = r /\ Hash[r] \in Pool!Hashes /\ r # None
  BY DEF Pool!AddResource, CallPlaces, Pool!Hashes, Pool!SoundConstants
<1>2. at[t] = 0 /\ pc[t] # "clear" /\ pc'[t] # "clear"
  BY DEF Pool!AddResource, CallPlaces, Pool!Goto, Pool!TypeOK
<1>3. \A k : Pool!HalfCleared(k)' <=> Pool!HalfCleared(k)
  <2>1. \A u \in Threads \ {t} : pc'[u] = pc[u] /\ at'[u] = at[u]
    BY DEF Pool!AddResource, Pool!Goto, Pool!TypeOK
  <2>. QED
    BY <1>2, <2>1, ElsewhereHalf
<1>4. ASSUME NEW k \in Pool!Kinds, k # kind PROVE CountersOf(k)'
  <2>1. pool'[k] = pool[k] /\ stats'[k] = stats[k]
    BY <1>1, <1>4 DEF Pool!AddResource, Pool!TypeOK
  <2>2. k \in missed' <=> k \in missed
    BY <1>1, <1>4 DEF Pool!AddResource
  <2>. QED
    BY <1>3, <2>1, <2>2, Untouched DEF TypeCounters
<1>5. CountersOf(kind)'
  <2>. DEFINE h == Hash[r]
  <2>1. CountersOf(kind)
    BY <1>1 DEF TypeCounters
  <2>2. stats[kind] \in [requests : Nat, unique : Nat, duplicates : Nat]
    BY <1>1 DEF Pool!TypeOK
  <2>3. kind \in missed' <=> kind \in missed \/ Pool!HalfCleared(kind)
    BY <1>1 DEF Pool!AddResource
  <2>4. IsFiniteSet(Pool!Stored(kind)) /\ Cardinality(Pool!Stored(kind)) \in Nat
    BY StoredFinite
  <2>5. CASE pool[kind][h] # None
    <3>1. pool' = pool /\ Pool!Stored(kind)' = Pool!Stored(kind)
      BY <1>1, <2>5 DEF Pool!AddResource, Pool!Stored
    <3>2. /\ stats'[kind].requests = stats[kind].requests + 1
          /\ stats'[kind].duplicates = stats[kind].duplicates + 1
          /\ stats'[kind].unique = stats[kind].unique
      BY <1>1, <2>2, <2>5 DEF Pool!AddResource, Pool!TypeOK
    <3>. QED
      BY <1>3, <2>1, <2>2, <2>3, <2>4, <3>1, <3>2 DEF CountersOf
  <2>6. CASE pool[kind][h] = None
    <3>1. pool'[kind] = [pool[kind] EXCEPT ![h] = r] /\ pool[kind] \in [Pool!Hashes -> Resources \cup {None}]
      BY <1>1, <2>6 DEF Pool!AddResource, Pool!TypeOK
    <3>2. Pool!Stored(kind)' = Pool!Stored(kind) \cup {h} /\ h \notin Pool!Stored(kind)
      BY <1>1, <2>6, <3>1 DEF Pool!Stored
    <3>3. Cardinality(Pool!Stored(kind)') = Cardinality(Pool!Stored(kind)) + 1
      BY <2>4, <3>2, FS_AddElement
    <3>4. \A g \in Pool!Stored(kind)' : Hash[pool'[kind][g]] = g
      BY <1>1, <2>1, <3>1, <3>2 DEF CountersOf, Pool!Stored
    <3>5. /\ stats'[kind].requests = stats[kind].requests + 1
          /\ stats'[kind].unique = stats[kind].unique + 1
          /\ stats'[kind].duplicates = stats[kind].duplicates
      BY <1>1, <2>2, <2>6 DEF Pool!AddResource, Pool!TypeOK
    <3>. QED
      BY <1>3, <2>1, <2>2, <2>3, <2>4, <3>3, <3>4, <3>5 DEF CountersOf
  <2>. QED
    BY <2>5, <2>6
<1>. QED
  BY <1>4, <1>5 DEF TypeCounters

\* Clearing one map leaves nothing of its type and the other types as they are.
LEMMA ClearKeeps ==
    ASSUME Pool!SoundConstants, Pool!TypeOK, TypeCounters, NEW t \in Threads, Pool!ClearMap(t)
    PROVE  TypeCounters'
<1>1. PICK n \in DOMAIN Types, kind \in Pool!Kinds : n = at[t] + 1 /\ kind = Types[n] /\ at[t] \in Nat
  BY DEF Pool!ClearMap, Pool!TypeOK, Pool!SoundConstants, Pool!Kinds
<1>2. pc' = pc /\ at' = [at EXCEPT ![t] = n] /\ stats' = stats
  BY <1>1 DEF Pool!ClearMap
<1>3. ASSUME NEW k \in Pool!Kinds, k # kind PROVE CountersOf(k)'
  <2>1. \A i \in DOMAIN Types : Types[i] = k => (n >= i <=> at[t] >= i)
    BY <1>1, <1>3 DEF Pool!SoundConstants
  <2>2. \A u \in Threads : \A i \in DOMAIN Types : Types[i] = k => (at'[u] >= i <=> at[u] >= i)
    BY <1>2, <2>1 DEF Pool!TypeOK
  <2>3. Pool!HalfCleared(k)' <=> Pool!HalfCleared(k)
    BY <1>2, <2>2 DEF Pool!HalfCleared
  <2>4. pool'[k] = pool[k] /\ stats'[k] = stats[k]
    BY <1>1, <1>3 DEF Pool!ClearMap, Pool!TypeOK
  <2>5. k \in missed' <=> k \in missed
    BY <1>1, <1>3 DEF Pool!ClearMap
  <2>. QED
    BY <2>3, <2>4, <2>5, Untouched DEF TypeCounters
<1>4. CountersOf(kind)'
  <2>1. pool'[kind] = [h \in Pool!Hashes |-> None]
    BY <1>1 DEF Pool!ClearMap, Pool!TypeOK
  <2>2. Pool!Stored(kind)' = {}
    BY <2>1 DEF Pool!Stored
  <2>3. Pool!HalfCleared(kind)'
    <3>1. pc'[t] = "clear" /\ at'[t] >= n
      BY <1>1, <1>2 DEF Pool!ClearMap, Pool!TypeOK
    <3>. QED
      BY <1>1, <3>1 DEF Pool!HalfCleared
  <2>4. CountersOf(kind)
    BY <1>1 DEF TypeCounters
  <2>. QED
    BY <1>2, <2>2, <2>3, <2>4 DEF CountersOf
<1>. QED
  BY <1>3, <1>4 DEF TypeCounters

\* A clear that resets the counters has emptied every map, and what it does not
\* count was added to a map it had already emptied.
LEMMA ResetKeeps ==
    ASSUME Pool!SoundConstants, Pool!TypeOK, TypeCounters, NEW t \in Threads, Pool!ResetStats(t)
    PROVE  TypeCounters'
<1>. SUFFICES ASSUME NEW k \in Pool!Kinds PROVE CountersOf(k)'
  BY DEF TypeCounters
<1>1. Pool!HalfCleared(k)
  <2>1. PICK i \in DOMAIN Types : Types[i] = k
    BY DEF Pool!Kinds
  <2>2. pc[t] = "clear" /\ at[t] >= i
    BY <2>1 DEF Pool!ResetStats, Pool!SoundConstants
  <2>. QED
    BY <2>1, <2>2 DEF Pool!HalfCleared
<1>2. stats'[k] = [requests |-> 0, unique |-> 0, duplicates |-> 0]
  BY DEF Pool!ResetStats
<1>3. pool' = pool /\ missed' = missed /\ Pool!Stored(k)' = Pool!Stored(k)
  BY DEF Pool!ResetStats, Pool!Stored
<1>4. k \in missed \/ Pool!Stored(k) = {}
  BY <1>1 DEF TypeCounters, CountersOf
<1>5. \A h \in Pool!Stored(k) : Hash[pool[k][h]] = h
  BY DEF TypeCounters, CountersOf
<1>. QED
  BY <1>2, <1>3, <1>4, <1>5, StoredFinite, FS_EmptySet DEF CountersOf

\* Every step keeps the counters.
LEMMA TypeCountersKept == ASSUME Pool!SoundConstants, Pool!TypeOK, CallPlaces, TypeCounters, [Pool!Next]_Pool!vars PROVE TypeCounters'
<1>1. ASSUME pool' = pool, stats' = stats, missed' = missed, NEW t \in Threads,
             \A u \in Threads \ {t} : pc'[u] = pc[u] /\ at'[u] = at[u],
             pc[t] = "clear" => at[t] = 0,
             pc'[t] = "clear" => at'[t] = 0
      PROVE  TypeCounters'
  <2>1. \A k : Pool!HalfCleared(k)' <=> Pool!HalfCleared(k)
    BY <1>1, ElsewhereHalf
  <2>. QED
    BY <1>1, <2>1, Untouched DEF TypeCounters
<1>2. ASSUME NEW t \in Threads, NEW k \in Pool!Kinds, NEW r \in Resources, Pool!CallAdd(t, k, r) PROVE TypeCounters'
  BY <1>1, <1>2 DEF Pool!CallAdd, Pool!Begin, Pool!TypeOK
<1>3. ASSUME NEW t \in Threads, NEW op \in {"clear", "usage"}, Pool!Call(t, op) PROVE TypeCounters'
  BY <1>1, <1>3 DEF Pool!Call, Pool!Begin, CallPlaces, Pool!TypeOK
<1>4. ASSUME NEW t \in Threads, Pool!LockMap(t) PROVE TypeCounters'
  BY <1>1, <1>4 DEF Pool!LockMap, Pool!Goto, Pool!TypeOK
<1>5. ASSUME NEW t \in Threads, Pool!ReadMap(t) PROVE TypeCounters'
  BY <1>1, <1>5 DEF Pool!ReadMap, Pool!TypeOK
<1>6. ASSUME NEW t \in Threads, Pool!ReleaseMaps(t) PROVE TypeCounters'
  BY <1>1, <1>6 DEF Pool!ReleaseMaps, Pool!Goto, Pool!TypeOK
<1>7. ASSUME UNCHANGED Pool!vars PROVE TypeCounters'
  <2>1. \A k : Pool!HalfCleared(k)' <=> Pool!HalfCleared(k)
    BY <1>7 DEF Pool!vars, Pool!HalfCleared
  <2>. QED
    BY <1>7, <2>1, Untouched DEF Pool!vars, TypeCounters
<1>. QED
  BY <1>2, <1>3, <1>4, <1>5, <1>6, <1>7, AddKeeps, ClearKeeps, ResetKeeps DEF Pool!Next, Pool!Step

-----------------------------------------------------------------------------
(* The theorems. *)

\* What holds in every state of the pool: resource_pool.rs takes the map of a type
\* before the statistics to add, and the maps one after another to clear.
THEOREM PoolInvariance == ASSUME Pool!SoundConstants PROVE Pool!Spec => []PoolIInv
<1>1. Pool!Init => PoolIInv
  BY PoolInit
<1>2. PoolIInv /\ [Pool!Next]_Pool!vars => PoolIInv'
  BY PoolTypeKept, CallPlacesKept, MapLocksKept, TypeCountersKept DEF PoolIInv
<1>. QED
  BY <1>1, <1>2, PTL DEF Pool!Spec

\* While nothing is being cleared the statistics count what the pool holds, but
\* for what was added between the two halves of a clear.
THEOREM StatsMatchPoolAlways == ASSUME Pool!SoundConstants PROVE Pool!Spec => []Pool!StatsMatchPool
<1>1. PoolIInv => Pool!StatsMatchPool
  BY PoolSizes DEF PoolIInv, TypeCounters, CountersOf, Pool!HalfCleared, Pool!StatsMatchPool
<1>. QED
  BY <1>1, PoolInvariance, PTL

\* add_*_resource waits for the statistics with a map in hand and memory_usage for
\* a map with others in hand: neither can be waiting for the other in turn.
THEOREM NoWaitInCircleAlways == ASSUME Pool!SoundConstants PROVE Pool!Spec => []NoWaitInCircle
<1>1. ASSUME Pool!SoundConstants, PoolIInv PROVE NoWaitInCircle
  BY <1>1 DEF Pool!SoundConstants, PoolIInv, Pool!TypeOK, MapLocks, NoWaitInCircle
<1>. QED
  BY <1>1, PoolInvariance, PTL

-----------------------------------------------------------------------------
(* The memory pool *)

CONSTANTS Upper, Capacity, Typical, Preallocated, Sizes, MaxHeld
VARIABLES b_enabled, b_queues, b_size, b_stats, b_stats_lock, b_pools_lock, b_pc, b_asked, b_held, b_calls, b_topped

Buffers == INSTANCE MemoryPool WITH
    enabled <- b_enabled, queues <- b_queues, current_size <- b_size, stats <- b_stats,
    stats_lock <- b_stats_lock, pools_lock <- b_pools_lock, pc <- b_pc, asked <- b_asked,
    held <- b_held, calls <- b_calls, topped_up <- b_topped

\* The counters.
BufferStats == [total_requests : Nat, pool_hits : Nat, pool_misses : Nat,
                new_allocations : Nat, direct_allocations : Nat]

\* The steps of a request that has the statistics.
Requesting == {"take", "taken", "missed", "got", "allocate"}

\* Types, those of sizes excepted, which are sums.
BufferTypes ==
    /\ b_queues \in [Buffers!Classes -> Seq(Nat)]
    /\ b_stats \in BufferStats
    /\ b_stats_lock \in Threads \cup {None} /\ b_pools_lock \in Threads \cup {None}
    /\ b_pc \in [Threads -> Buffers!Labels]
    /\ b_asked \in [Threads -> Nat \cup {None}]
    /\ b_held \in [Threads -> Seq(Buffers!Buffer)]

\* Who holds which lock, and what was asked for.
BufferLocks ==
    \A t \in Threads :
       /\ b_stats_lock = t <=> b_pc[t] \in Requesting
       /\ b_pools_lock = t <=> b_pc[t] \in {"taken", "missed", "leave"}
       /\ b_pc[t] \in {"get", "take", "taken", "missed", "got", "allocate"} => b_asked[t] \in Sizes

Counted(waiting, missing) ==
    /\ b_stats.total_requests = b_stats.pool_hits + b_stats.pool_misses + b_stats.direct_allocations + waiting
    /\ b_stats.pool_misses = b_stats.new_allocations + missing

\* What the counters say of the request under way.
RequestsCounted ==
    /\ b_stats_lock = None => Counted(0, 0)
    /\ \A t \in Threads :
          /\ b_pc[t] = "take" => Counted(1, 0)
          /\ b_pc[t] \in {"taken", "got"} => Counted(0, 0)
          /\ b_pc[t] \in {"missed", "allocate"} => Counted(0, 1)

\* The buffer just taken is the last one of its thread, and is of use.
BufferFits ==
    \A t \in Threads : b_pc[t] \in {"taken", "got"} =>
       /\ b_held[t][Len(b_held[t])].class = Buffers!from_size(b_asked[t])
       /\ b_held[t][Len(b_held[t])].capacity >= b_asked[t]

BuffersIInv == BufferTypes /\ BufferLocks /\ RequestsCounted /\ BufferFits /\ Buffers!QueuesBounded

\* A thread does one of these.
BufferStep(t) ==
    \/ \E n \in Sizes : Buffers!CallGetBuffer(t, n)
    \/ \E i \in 1..MaxHeld, grown \in {0, 1} : Buffers!CallDrop(t, i, grown)
    \/ \E op \in {"preallocate", "clear", "memory_usage", "stats"} : Buffers!CallOther(t, op)
    \/ Buffers!Step(t)

\* Of the numbers of a set, one is least.
LEMMA LeastOne ==
    ASSUME NEW S \in SUBSET Nat, S # {}
    PROVE  \E n \in S : \A m \in S : ~(m < n)
<1>1. PICK n \in S : \A m \in S : <<m, n>> \notin OpToRel(<, Nat)
  BY NatLessThanWellFounded, WFMin
<1>. QED
  BY <1>1 DEF OpToRel

\* Each size has a class.
LEMMA SizeHasClass ==
    ASSUME Buffers!SoundConstants, NEW n \in Nat
    PROVE  Buffers!from_size(n) \in Buffers!Classes
<1>. DEFINE classes == {c \in Buffers!Classes : n <= Upper[c] \/ c = Len(Capacity)}
<1>1. Buffers!Classes = 1..Len(Capacity) /\ Len(Capacity) \in Nat \ {0}
  BY DEF Buffers!SoundConstants, Buffers!Classes
<1>2. classes # {} /\ classes \in SUBSET Nat
  BY <1>1
<1>3. PICK c \in classes : \A d \in classes : ~(d < c)
  <2>. HIDE DEF classes
  <2>. QED
    BY <1>2, LeastOne
<1>4. c \in Buffers!Classes /\ (n <= Upper[c] \/ c = Len(Capacity))
  OBVIOUS
<1>5. ASSUME NEW smaller \in 1..(c - 1) PROVE n > Upper[smaller]
  <2>1. smaller \in Buffers!Classes /\ smaller < c
    BY <1>1, <1>4
  <2>2. ~(n <= Upper[smaller])
    BY <1>3, <2>1
  <2>3. Upper[smaller] \in Nat
    BY <2>1 DEF Buffers!SoundConstants
  <2>. QED
    BY <2>2, <2>3
<1>. HIDE DEF classes
<1>6. \E d \in Buffers!Classes :
         /\ n <= Upper[d] \/ d = Len(Capacity)
         /\ \A smaller \in 1..(d - 1) : n > Upper[smaller]
  BY <1>4, <1>5
<1>. QED
  BY <1>6 DEF Buffers!from_size


\* A buffer more leaves the buffers in use typed, and is the last one of its thread.
LEMMA AppendHeld ==
    ASSUME NEW h \in [Threads -> Seq(Buffers!Buffer)], NEW t \in Threads, NEW buffer \in Buffers!Buffer
    PROVE  /\ [h EXCEPT ![t] = Append(@, buffer)] \in [Threads -> Seq(Buffers!Buffer)]
           /\ [h EXCEPT ![t] = Append(@, buffer)][t][Len([h EXCEPT ![t] = Append(@, buffer)][t])] = buffer
<1>1. h[t] \in Seq(Buffers!Buffer)
  OBVIOUS
<1>2. Append(h[t], buffer) \in Seq(Buffers!Buffer) /\ Append(h[t], buffer)[Len(Append(h[t], buffer))] = buffer
  BY <1>1
<1>. QED
  BY <1>1, <1>2

\* Counting leaves the counters numbers.
LEMMA StatsTyped ==
    ASSUME NEW s \in BufferStats
    PROVE  /\ [s EXCEPT !.total_requests = @ + 1] \in BufferStats
           /\ [s EXCEPT !.total_requests = @ + 1, !.direct_allocations = @ + 1] \in BufferStats
           /\ [s EXCEPT !.pool_hits = @ + 1] \in BufferStats
           /\ [s EXCEPT !.pool_misses = @ + 1] \in BufferStats
           /\ [s EXCEPT !.new_allocations = @ + 1] \in BufferStats
<1>1. [s EXCEPT !.total_requests = @ + 1] \in BufferStats
  BY DEF BufferStats
<1>2. [s EXCEPT !.total_requests = @ + 1, !.direct_allocations = @ + 1] \in BufferStats
  <2>1. ASSUME NEW r \in BufferStats PROVE [r EXCEPT !.direct_allocations = @ + 1] \in BufferStats
    BY DEF BufferStats
  <2>2. [[s EXCEPT !.total_requests = @ + 1] EXCEPT !.direct_allocations = @ + 1] \in BufferStats
    BY <1>1, <2>1
  <2>3. [s EXCEPT !.total_requests = @ + 1, !.direct_allocations = @ + 1]
        = [[s EXCEPT !.total_requests = @ + 1] EXCEPT !.direct_allocations = @ + 1]
    BY DEF BufferStats
  <2>. HIDE DEF BufferStats
  <2>. QED
    BY <2>2, <2>3
<1>3. [s EXCEPT !.pool_hits = @ + 1] \in BufferStats
  BY DEF BufferStats
<1>4. [s EXCEPT !.pool_misses = @ + 1] \in BufferStats
  BY DEF BufferStats
<1>5. [s EXCEPT !.new_allocations = @ + 1] \in BufferStats
  BY DEF BufferStats
<1>. QED
  BY <1>1, <1>2, <1>3, <1>4, <1>5

\* What taking the first buffer of a queue leaves.
LEMMA SmallerTyped ==
    ASSUME NEW q \in Seq(Nat), q # <<>>
    PROVE  Head(q) \in Nat /\ Tail(q) \in Seq(Nat) /\ Len(Tail(q)) = Len(q) - 1 /\ Len(q) \in Nat
OBVIOUS

\* The beginning of get_buffer: the request is counted, and waits or is served at once.
LEMMA CountRequestEffect ==
    ASSUME Buffers!SoundConstants, BufferTypes, BufferLocks, NEW t \in Threads, Buffers!CountRequest(t)
    PROVE  /\ b_stats_lock = None /\ b_asked[t] \in Nat
           /\ \/ /\ b_stats' = [b_stats EXCEPT !.total_requests = @ + 1]
                 /\ b_stats_lock' = t /\ b_pc' = [b_pc EXCEPT ![t] = "take"] /\ b_held' = b_held
              \/ /\ b_stats' = [b_stats EXCEPT !.total_requests = @ + 1, !.direct_allocations = @ + 1]
                 /\ b_stats_lock' = None /\ b_pc' = [b_pc EXCEPT ![t] = "idle"]
                 /\ b_held' = [b_held EXCEPT ![t] = Append(@, [capacity |-> b_asked[t], class |-> None])]
<1>1. b_asked[t] \in Nat
  BY DEF Buffers!CountRequest, BufferLocks, Buffers!SoundConstants
<1>. QED
  BY <1>1 DEF Buffers!CountRequest, Buffers!Goto

\* The middle of get_buffer: the first buffer of the class is taken, or there is none.
LEMMA TakeBufferEffect ==
    ASSUME Buffers!SoundConstants, BufferTypes, BufferLocks, NEW t \in Threads, Buffers!TakeBuffer(t)
    PROVE  \E class \in Buffers!Classes, size \in Nat :
              /\ b_pc[t] = "take" /\ class = Buffers!from_size(b_asked[t]) /\ b_asked[t] \in Nat /\ size >= b_asked[t]
              /\ \/ /\ b_queues[class] # <<>> /\ b_queues' = [b_queues EXCEPT ![class] = Tail(@)]
                    /\ b_held' = [b_held EXCEPT ![t] = Append(@, [capacity |-> size, class |-> class])]
                    /\ b_stats' = [b_stats EXCEPT !.pool_hits = @ + 1]
                    /\ b_pc' = [b_pc EXCEPT ![t] = "taken"]
                 \/ /\ b_queues' = b_queues /\ b_held' = b_held
                    /\ b_stats' = [b_stats EXCEPT !.pool_misses = @ + 1]
                    /\ b_pc' = [b_pc EXCEPT ![t] = "missed"]
<1>. DEFINE class == Buffers!from_size(b_asked[t])
            size == Buffers!LargerOf(Head(b_queues[class]), b_asked[t])
<1>1. b_asked[t] \in Nat /\ b_pc[t] = "take"
  BY DEF Buffers!TakeBuffer, BufferLocks, Buffers!SoundConstants
<1>2. class \in Buffers!Classes
  BY <1>1, SizeHasClass
<1>3. CASE b_queues[class] # <<>>
  <2>1. b_queues[class] \in Seq(Nat)
    BY <1>2 DEF BufferTypes
  <2>2. Head(b_queues[class]) \in Nat
    BY <1>3, <2>1, SmallerTyped
  <2>3. size \in Nat /\ size >= b_asked[t]
    BY <1>1, <2>2 DEF Buffers!LargerOf
  <2>4. /\ b_queues' = [b_queues EXCEPT ![class] = Tail(@)]
        /\ b_held' = [b_held EXCEPT ![t] = Append(@, [capacity |-> size, class |-> class])]
        /\ b_stats' = [b_stats EXCEPT !.pool_hits = @ + 1]
        /\ b_pc' = [b_pc EXCEPT ![t] = "taken"]
    BY <1>3 DEF Buffers!TakeBuffer, Buffers!Goto
  <2>5. class = Buffers!from_size(b_asked[t])
    OBVIOUS
  <2>. HIDE DEF class, size
  <2>. QED
    BY <1>1, <1>2, <1>3, <2>3, <2>4, <2>5
<1>4. CASE b_queues[class] = <<>>
  <2>1. /\ b_queues' = b_queues /\ b_held' = b_held
        /\ b_stats' = [b_stats EXCEPT !.pool_misses = @ + 1]
        /\ b_pc' = [b_pc EXCEPT ![t] = "missed"]
    BY <1>4 DEF Buffers!TakeBuffer, Buffers!Goto
  <2>2. class = Buffers!from_size(b_asked[t]) /\ b_asked[t] >= b_asked[t]
    BY <1>1
  <2>. HIDE DEF class
  <2>. QED
    BY <1>1, <1>2, <2>1, <2>2
<1>. QED
  BY <1>3, <1>4

\* The end of get_buffer: a request that found nothing is given a new buffer.
LEMMA ReturnBufferEffect ==
    ASSUME Buffers!SoundConstants, BufferTypes, BufferLocks, NEW t \in Threads, Buffers!ReturnBuffer(t)
    PROVE  /\ b_pc[t] \in {"got", "allocate"} /\ b_stats_lock' = None /\ b_pc' = [b_pc EXCEPT ![t] = "idle"]
           /\ b_pc[t] = "got" => b_stats' = b_stats /\ b_held' = b_held
           /\ b_pc[t] = "allocate" =>
                 /\ b_stats' = [b_stats EXCEPT !.new_allocations = @ + 1]
                 /\ \E buffer \in Buffers!Buffer : b_held' = [b_held EXCEPT ![t] = Append(@, buffer)]
<1>. DEFINE class == Buffers!from_size(b_asked[t])
            buffer == [capacity |-> Buffers!LargerOf(b_asked[t], Typical[class]), class |-> class]
<1>1. b_asked[t] \in Nat
  BY DEF Buffers!ReturnBuffer, BufferLocks, Buffers!SoundConstants
<1>2. class \in Buffers!Classes
  BY <1>1, SizeHasClass
<1>3. Typical[class] \in Nat
  BY <1>2 DEF Buffers!SoundConstants
<1>4. buffer \in Buffers!Buffer
  BY <1>1, <1>2, <1>3 DEF Buffers!Buffer, Buffers!LargerOf
<1>5. b_pc[t] = "allocate" => b_stats' = [b_stats EXCEPT !.new_allocations = @ + 1]
                              /\ b_held' = [b_held EXCEPT ![t] = Append(@, buffer)]
  BY DEF Buffers!ReturnBuffer
<1>6. /\ b_pc[t] \in {"got", "allocate"} /\ b_stats_lock' = None /\ b_pc' = [b_pc EXCEPT ![t] = "idle"]
      /\ b_pc[t] = "got" => b_stats' = b_stats /\ b_held' = b_held
  BY DEF Buffers!ReturnBuffer, Buffers!Goto
<1>. HIDE DEF buffer
<1>. QED
  BY <1>4, <1>5, <1>6

\* The initial state.
LEMMA BuffersInit == ASSUME Buffers!SoundConstants, Buffers!Init PROVE BuffersIInv
<1>1. BufferTypes
  BY DEF Buffers!Init, BufferTypes, BufferStats, Buffers!Labels
<1>2. BufferLocks
  BY DEF Buffers!SoundConstants, Buffers!Init, BufferLocks, Requesting
<1>3. RequestsCounted
  BY DEF Buffers!Init, RequestsCounted, Counted
<1>4. BufferFits
  BY DEF Buffers!Init, BufferFits
<1>5. Buffers!QueuesBounded
  BY DEF Buffers!SoundConstants, Buffers!Init, Buffers!QueuesBounded, Buffers!Classes
<1>. QED
  BY <1>1, <1>2, <1>3, <1>4, <1>5 DEF BuffersIInv

\* No step takes a lock that is held, and none is kept longer than needed.
LEMMA BufferLocksKept ==
    ASSUME Buffers!SoundConstants, BufferTypes, BufferLocks, NEW t \in Threads, BufferStep(t)
    PROVE  BufferLocks'
<1>. USE DEF Buffers!SoundConstants, BufferTypes, BufferLocks, Requesting, Buffers!Goto, Buffers!Begin
<1>1. ASSUME NEW n \in Sizes, Buffers!CallGetBuffer(t, n) PROVE BufferLocks'
  BY <1>1 DEF Buffers!CallGetBuffer
<1>2. ASSUME NEW i \in 1..MaxHeld, NEW grown \in {0, 1}, Buffers!CallDrop(t, i, grown) PROVE BufferLocks'
  BY <1>2 DEF Buffers!CallDrop
<1>3. ASSUME NEW op \in {"preallocate", "clear", "memory_usage", "stats"}, Buffers!CallOther(t, op) PROVE BufferLocks'
  BY <1>3 DEF Buffers!CallOther
<1>4. CASE Buffers!CountRequest(t)
  BY <1>4 DEF Buffers!CountRequest
<1>5. CASE Buffers!TakeBuffer(t)
  BY <1>5 DEF Buffers!TakeBuffer
<1>6. CASE Buffers!LeavePools(t)
  BY <1>6 DEF Buffers!LeavePools
<1>7. CASE Buffers!ReturnBuffer(t)
  BY <1>7 DEF Buffers!ReturnBuffer
<1>8. CASE Buffers!Preallocate(t)
  BY <1>8 DEF Buffers!Preallocate
<1>9. CASE Buffers!ClearPools(t)
  BY <1>9 DEF Buffers!ClearPools
<1>10. CASE Buffers!memory_usage(t)
  BY <1>10 DEF Buffers!memory_usage
<1>11. CASE Buffers!ReadStats(t)
  BY <1>11 DEF Buffers!ReadStats
<1>12. CASE Buffers!Leave(t)
  BY <1>12 DEF Buffers!Leave
<1>. HIDE DEF Buffers!SoundConstants, BufferTypes, BufferLocks
<1>. QED
  BY <1>1, <1>2, <1>3, <1>4, <1>5, <1>6, <1>7, <1>8, <1>9, <1>10, <1>11, <1>12 DEF BufferStep, Buffers!Step

\* Types stay.
LEMMA BufferTypesKept ==
    ASSUME Buffers!SoundConstants, BufferTypes, BufferLocks, NEW t \in Threads, BufferStep(t)
    PROVE  BufferTypes'
<1>. USE DEF Buffers!SoundConstants, BufferTypes, Requesting, Buffers!Goto, Buffers!Begin
<1>1. ASSUME NEW n \in Sizes, Buffers!CallGetBuffer(t, n) PROVE BufferTypes'
  BY <1>1 DEF Buffers!CallGetBuffer, Buffers!Labels
<1>2. ASSUME NEW i \in 1..MaxHeld, NEW grown \in {0, 1}, Buffers!CallDrop(t, i, grown) PROVE BufferTypes'
  <2>1. i \in DOMAIN b_held[t] /\ b_held[t] \in Seq(Buffers!Buffer) /\ b_held[t][i] \in Buffers!Buffer
    BY <1>2 DEF Buffers!CallDrop
  <2>2. b_held[t][i].capacity + grown \in Nat /\ b_held[t][i].class \in Buffers!Classes \cup {None}
    BY <2>1 DEF Buffers!Buffer
  <2>3. Buffers!RemoveAt(b_held[t], i) \in Seq(Buffers!Buffer)
    BY <2>1 DEF Buffers!RemoveAt
  <2>4. b_held' \in [Threads -> Seq(Buffers!Buffer)]
    BY <1>2, <2>3 DEF Buffers!CallDrop
  <2>5. b_queues' \in [Buffers!Classes -> Seq(Nat)]
    <3>. DEFINE size  == b_held[t][i].capacity + grown
                class == b_held[t][i].class
    <3>1. size \in Nat /\ class \in Buffers!Classes \cup {None} /\ b_queues \in [Buffers!Classes -> Seq(Nat)]
      BY <2>2
    <3>2. \/ b_queues' = b_queues
          \/ class # None /\ b_queues' = [b_queues EXCEPT ![class] = Append(@, size)]
      BY <1>2 DEF Buffers!CallDrop
    <3>3. class # None => class \in Buffers!Classes /\ b_queues[class] \in Seq(Nat)
      BY <3>1
    <3>. HIDE DEF size, class, Buffers!SoundConstants, BufferTypes
    <3>4. class # None => Append(b_queues[class], size) \in Seq(Nat)
      BY <3>1, <3>3
    <3>. QED
      BY <3>1, <3>2, <3>3, <3>4
  <2>6. b_pc' \in [Threads -> Buffers!Labels] /\ b_pools_lock' \in Threads \cup {None}
    BY <1>2 DEF Buffers!CallDrop, Buffers!Labels
  <2>. QED
    BY <1>2, <2>4, <2>5, <2>6 DEF Buffers!CallDrop
<1>3. ASSUME NEW op \in {"preallocate", "clear", "memory_usage", "stats"}, Buffers!CallOther(t, op) PROVE BufferTypes'
  BY <1>3 DEF Buffers!CallOther, Buffers!Labels
<1>4. CASE Buffers!CountRequest(t)
  <2>. HIDE DEF Buffers!SoundConstants, BufferTypes
  <2>1. b_asked[t] \in Nat
    BY <1>4, CountRequestEffect
  <2>2. [capacity |-> b_asked[t], class |-> None] \in Buffers!Buffer
    BY <2>1 DEF Buffers!Buffer
  <2>3. b_held \in [Threads -> Seq(Buffers!Buffer)] /\ b_stats \in BufferStats
    BY DEF BufferTypes
  <2>4. b_held' \in [Threads -> Seq(Buffers!Buffer)]
    <3>1. CASE b_held' = b_held
      BY <2>3, <3>1
    <3>2. CASE b_held' = [b_held EXCEPT ![t] = Append(@, [capacity |-> b_asked[t], class |-> None])]
      BY <2>2, <2>3, <3>2, AppendHeld
    <3>. QED
      BY <1>4, <3>1, <3>2, CountRequestEffect
  <2>5. b_stats' \in BufferStats
    <3>1. b_stats' = [b_stats EXCEPT !.total_requests = @ + 1]
          \/ b_stats' = [b_stats EXCEPT !.total_requests = @ + 1, !.direct_allocations = @ + 1]
      BY <1>4, CountRequestEffect
    <3>. QED
      BY <2>3, <3>1, StatsTyped
  <2>6. b_pc' \in [Threads -> Buffers!Labels] /\ b_stats_lock' \in Threads \cup {None}
    BY <1>4 DEF Buffers!CountRequest, Buffers!Labels, BufferTypes
  <2>7. b_asked' \in [Threads -> Nat \cup {None}]
    BY <1>4 DEF Buffers!CountRequest, BufferTypes
  <2>8. b_queues' = b_queues /\ b_pools_lock' = b_pools_lock
    BY <1>4 DEF Buffers!CountRequest
  <2>. QED
    BY <2>4, <2>5, <2>6, <2>7, <2>8 DEF BufferTypes
<1>5. CASE Buffers!TakeBuffer(t)
  <2>. HIDE DEF Buffers!SoundConstants, BufferTypes
  <2>1. b_held \in [Threads -> Seq(Buffers!Buffer)] /\ b_stats \in BufferStats
        /\ b_queues \in [Buffers!Classes -> Seq(Nat)] /\ b_pc \in [Threads -> Buffers!Labels]
    BY DEF BufferTypes
  <2>2. PICK class \in Buffers!Classes, size \in Nat :
              \/ /\ b_queues[class] # <<>> /\ b_queues' = [b_queues EXCEPT ![class] = Tail(@)]
                 /\ b_held' = [b_held EXCEPT ![t] = Append(@, [capacity |-> size, class |-> class])]
                 /\ b_stats' = [b_stats EXCEPT !.pool_hits = @ + 1]
                 /\ b_pc' = [b_pc EXCEPT ![t] = "taken"]
              \/ /\ b_queues' = b_queues /\ b_held' = b_held
                 /\ b_stats' = [b_stats EXCEPT !.pool_misses = @ + 1]
                 /\ b_pc' = [b_pc EXCEPT ![t] = "missed"]
    BY <1>5, TakeBufferEffect
  <2>3. [capacity |-> size, class |-> class] \in Buffers!Buffer
    BY DEF Buffers!Buffer
  <2>4. b_held' \in [Threads -> Seq(Buffers!Buffer)]
    <3>1. CASE b_held' = b_held
      BY <2>1, <3>1
    <3>2. CASE b_held' = [b_held EXCEPT ![t] = Append(@, [capacity |-> size, class |-> class])]
      BY <2>1, <2>3, <3>2, AppendHeld
    <3>. QED
      BY <2>2, <3>1, <3>2
  <2>5. b_queues[class] # <<>> => Tail(b_queues[class]) \in Seq(Nat)
    BY <2>1
  <2>6. b_queues' \in [Buffers!Classes -> Seq(Nat)]
    BY <2>1, <2>2, <2>5
  <2>7. b_pc' \in [Threads -> Buffers!Labels]
    BY <2>1, <2>2 DEF Buffers!Labels
  <2>8. b_stats' \in BufferStats
    <3>1. b_stats' = [b_stats EXCEPT !.pool_hits = @ + 1] \/ b_stats' = [b_stats EXCEPT !.pool_misses = @ + 1]
      BY <2>2
    <3>. QED
      BY <2>1, <3>1, StatsTyped
  <2>9. b_stats_lock' = b_stats_lock /\ b_pools_lock' = t /\ b_asked' = b_asked
    BY <1>5 DEF Buffers!TakeBuffer
  <2>. QED
    BY <2>4, <2>6, <2>7, <2>8, <2>9 DEF BufferTypes
<1>6. CASE Buffers!LeavePools(t)
  BY <1>6 DEF Buffers!LeavePools, Buffers!Labels
<1>7. CASE Buffers!ReturnBuffer(t)
  <2>. HIDE DEF Buffers!SoundConstants, BufferTypes
  <2>1. b_held \in [Threads -> Seq(Buffers!Buffer)] /\ b_stats \in BufferStats
        /\ b_pc \in [Threads -> Buffers!Labels]
    BY DEF BufferTypes
  <2>2. b_held' \in [Threads -> Seq(Buffers!Buffer)]
    <3>1. CASE b_held' = b_held
      BY <2>1, <3>1
    <3>2. CASE \E buffer \in Buffers!Buffer : b_held' = [b_held EXCEPT ![t] = Append(@, buffer)]
      BY <2>1, <3>2, AppendHeld
    <3>. QED
      BY <1>7, <3>1, <3>2, ReturnBufferEffect
  <2>3. b_stats' \in BufferStats
    <3>1. b_stats' = b_stats \/ b_stats' = [b_stats EXCEPT !.new_allocations = @ + 1]
      BY <1>7, ReturnBufferEffect
    <3>. QED
      BY <2>1, <3>1, StatsTyped
  <2>4. b_pc' \in [Threads -> Buffers!Labels] /\ b_stats_lock' = None
    BY <1>7, <2>1, ReturnBufferEffect DEF Buffers!Labels
  <2>5. b_asked' \in [Threads -> Nat \cup {None}]
    BY <1>7 DEF Buffers!ReturnBuffer, BufferTypes
  <2>6. b_queues' = b_queues /\ b_pools_lock' = b_pools_lock
    BY <1>7 DEF Buffers!ReturnBuffer
  <2>. QED
    BY <2>2, <2>3, <2>4, <2>5, <2>6 DEF BufferTypes
<1>8. CASE Buffers!Preallocate(t)
  <2>1. ASSUME NEW c \in Buffers!Classes
        PROVE  b_queues[c] \o [i \in 1..Preallocated[c] |-> Typical[c]] \in Seq(Nat)
    <3>1. [i \in 1..Preallocated[c] |-> Typical[c]] \in Seq(Nat) /\ b_queues[c] \in Seq(Nat)
      OBVIOUS
    <3>. QED
      BY <3>1
  <2>2. \/ b_queues' = b_queues
        \/ b_queues' = [c \in Buffers!Classes |-> b_queues[c] \o [i \in 1..Preallocated[c] |-> Typical[c]]]
    BY <1>8 DEF Buffers!Preallocate
  <2>3. b_queues' \in [Buffers!Classes -> Seq(Nat)]
    <3>1. b_queues \in [Buffers!Classes -> Seq(Nat)]
      OBVIOUS
    <3>. HIDE DEF Buffers!SoundConstants, BufferTypes
    <3>. QED
      BY <2>1, <2>2, <3>1
  <2>4. b_pc' \in [Threads -> Buffers!Labels] /\ b_pools_lock' \in Threads \cup {None}
    BY <1>8 DEF Buffers!Preallocate, Buffers!Labels
  <2>5. b_stats' = b_stats /\ b_stats_lock' = b_stats_lock /\ b_asked' = b_asked /\ b_held' = b_held
    BY <1>8 DEF Buffers!Preallocate
  <2>. QED
    BY <2>3, <2>4, <2>5
<1>9. CASE Buffers!ClearPools(t)
  BY <1>9 DEF Buffers!ClearPools, Buffers!Labels
<1>10. CASE Buffers!memory_usage(t)
  BY <1>10 DEF Buffers!memory_usage, Buffers!Labels
<1>11. CASE Buffers!ReadStats(t)
  BY <1>11 DEF Buffers!ReadStats, Buffers!Labels
<1>12. CASE Buffers!Leave(t)
  BY <1>12 DEF Buffers!Leave, Buffers!Labels
<1>. HIDE DEF Buffers!SoundConstants, BufferTypes
<1>. QED
  BY <1>1, <1>2, <1>3, <1>4, <1>5, <1>6, <1>7, <1>8, <1>9, <1>10, <1>11, <1>12 DEF BufferStep, Buffers!Step

\* Each step of a request counts what it has to.
LEMMA RequestsCountedKept ==
    ASSUME Buffers!SoundConstants, BufferTypes, BufferLocks, RequestsCounted, NEW t \in Threads, BufferStep(t)
    PROVE  RequestsCounted'
<1>. USE DEF Buffers!SoundConstants, BufferTypes, BufferStats, BufferLocks, Requesting, RequestsCounted, Counted, Buffers!Goto, Buffers!Begin
<1>1. ASSUME NEW n \in Sizes, Buffers!CallGetBuffer(t, n) PROVE RequestsCounted'
  BY <1>1 DEF Buffers!CallGetBuffer
<1>2. ASSUME NEW i \in 1..MaxHeld, NEW grown \in {0, 1}, Buffers!CallDrop(t, i, grown) PROVE RequestsCounted'
  BY <1>2 DEF Buffers!CallDrop
<1>3. ASSUME NEW op \in {"preallocate", "clear", "memory_usage", "stats"}, Buffers!CallOther(t, op) PROVE RequestsCounted'
  BY <1>3 DEF Buffers!CallOther
<1>4. CASE Buffers!CountRequest(t)
  <2>1. b_stats \in BufferStats /\ b_pc \in [Threads -> Buffers!Labels] /\ b_stats_lock = None
    BY <1>4 DEF Buffers!CountRequest
  <2>2. \A u \in Threads : b_pc[u] \notin Requesting
    BY <2>1
  <2>3. Counted(0, 0)
    BY <2>1
  <2>4. \/ /\ b_stats' = [b_stats EXCEPT !.total_requests = @ + 1]
           /\ b_stats_lock' = t /\ b_pc' = [b_pc EXCEPT ![t] = "take"]
        \/ /\ b_stats' = [b_stats EXCEPT !.total_requests = @ + 1, !.direct_allocations = @ + 1]
           /\ b_stats_lock' = None /\ b_pc' = [b_pc EXCEPT ![t] = "idle"]
    BY <1>4, CountRequestEffect
  <2>5. t # None
    OBVIOUS
  <2>. HIDE DEF Buffers!SoundConstants, BufferTypes, BufferLocks, RequestsCounted, Counted
  <2>6. CASE b_stats_lock' = t /\ b_pc' = [b_pc EXCEPT ![t] = "take"]
             /\ b_stats' = [b_stats EXCEPT !.total_requests = @ + 1]
    <3>1. Counted(1, 0)'
      BY <2>1, <2>3, <2>6 DEF Counted
    <3>2. b_pc'[t] = "take" /\ \A u \in Threads \ {t} : b_pc'[u] \notin Requesting
      BY <2>1, <2>2, <2>6
    <3>. QED
      BY <2>5, <2>6, <3>1, <3>2 DEF RequestsCounted
  <2>7. CASE b_stats_lock' = None /\ b_pc' = [b_pc EXCEPT ![t] = "idle"]
             /\ b_stats' = [b_stats EXCEPT !.total_requests = @ + 1, !.direct_allocations = @ + 1]
    <3>1. Counted(0, 0)'
      BY <2>1, <2>3, <2>7 DEF Counted
    <3>2. \A u \in Threads : b_pc'[u] \notin Requesting
      BY <2>1, <2>2, <2>7
    <3>. QED
      BY <3>1, <3>2 DEF RequestsCounted
  <2>. QED
    BY <2>4, <2>6, <2>7
<1>5. CASE Buffers!TakeBuffer(t)
  <2>1. b_stats \in BufferStats /\ b_pc \in [Threads -> Buffers!Labels] /\ b_pc[t] = "take" /\ b_stats_lock' = b_stats_lock
    BY <1>5 DEF Buffers!TakeBuffer
  <2>2. b_stats_lock = t /\ t # None /\ Counted(1, 0) /\ \A u \in Threads \ {t} : b_pc[u] \notin Requesting
    BY <2>1
  <2>. HIDE DEF Buffers!SoundConstants, BufferTypes, BufferLocks, RequestsCounted, Counted
  <2>3. \/ b_stats' = [b_stats EXCEPT !.pool_hits = @ + 1] /\ b_pc' = [b_pc EXCEPT ![t] = "taken"]
        \/ b_stats' = [b_stats EXCEPT !.pool_misses = @ + 1] /\ b_pc' = [b_pc EXCEPT ![t] = "missed"]
    BY <1>5, TakeBufferEffect
  <2>4. \A u \in Threads \ {t} : b_pc'[u] \notin Requesting
    BY <2>1, <2>2, <2>3
  <2>5. CASE b_stats' = [b_stats EXCEPT !.pool_hits = @ + 1] /\ b_pc' = [b_pc EXCEPT ![t] = "taken"]
    <3>1. Counted(0, 0)'
      BY <2>1, <2>2, <2>5 DEF Counted
    <3>2. b_pc'[t] = "taken"
      BY <2>1, <2>5
    <3>. QED
      BY <2>1, <2>2, <2>4, <3>1, <3>2 DEF RequestsCounted
  <2>6. CASE b_stats' = [b_stats EXCEPT !.pool_misses = @ + 1] /\ b_pc' = [b_pc EXCEPT ![t] = "missed"]
    <3>1. Counted(0, 1)'
      BY <2>1, <2>2, <2>6 DEF Counted
    <3>2. b_pc'[t] = "missed"
      BY <2>1, <2>6
    <3>. QED
      BY <2>1, <2>2, <2>4, <3>1, <3>2 DEF RequestsCounted
  <2>. QED
    BY <2>3, <2>5, <2>6
<1>6. CASE Buffers!LeavePools(t)
  BY <1>6 DEF Buffers!LeavePools
<1>7. CASE Buffers!ReturnBuffer(t)
  <2>1. b_stats \in BufferStats /\ b_pc \in [Threads -> Buffers!Labels] /\ b_pc[t] \in {"got", "allocate"}
    BY <1>7 DEF Buffers!ReturnBuffer
  <2>2. b_stats_lock = t /\ \A u \in Threads \ {t} : b_pc[u] \notin Requesting
    BY <2>1
  <2>3. (b_pc[t] = "got" => Counted(0, 0)) /\ (b_pc[t] = "allocate" => Counted(0, 1))
    BY <2>1
  <2>. HIDE DEF Buffers!SoundConstants, BufferTypes, BufferLocks, RequestsCounted, Counted
  <2>4. /\ b_pc' = [b_pc EXCEPT ![t] = "idle"]
        /\ b_pc[t] = "got" => b_stats' = b_stats
        /\ b_pc[t] = "allocate" => b_stats' = [b_stats EXCEPT !.new_allocations = @ + 1]
    BY <1>7, ReturnBufferEffect
  <2>5. \A u \in Threads : b_pc'[u] \notin Requesting
    BY <2>1, <2>2, <2>4
  <2>6. Counted(0, 0)'
    <3>1. CASE b_pc[t] = "got"
      BY <2>3, <2>4, <3>1 DEF Counted
    <3>2. CASE b_pc[t] = "allocate"
      BY <2>1, <2>3, <2>4, <3>2 DEF Counted
    <3>. QED
      BY <2>1, <3>1, <3>2
  <2>. QED
    BY <2>5, <2>6 DEF RequestsCounted
<1>8. CASE Buffers!Preallocate(t)
  BY <1>8 DEF Buffers!Preallocate
<1>9. CASE Buffers!ClearPools(t)
  BY <1>9 DEF Buffers!ClearPools
<1>10. CASE Buffers!memory_usage(t)
  BY <1>10 DEF Buffers!memory_usage
<1>11. CASE Buffers!ReadStats(t)
  BY <1>11 DEF Buffers!ReadStats
<1>12. CASE Buffers!Leave(t)
  BY <1>12 DEF Buffers!Leave
<1>. HIDE DEF Buffers!SoundConstants, BufferTypes, BufferLocks, RequestsCounted
<1>. QED
  BY <1>1, <1>2, <1>3, <1>4, <1>5, <1>6, <1>7, <1>8, <1>9, <1>10, <1>11, <1>12 DEF BufferStep, Buffers!Step

\* The buffer just taken is of the class asked for and large enough.
LEMMA BufferFitsKept ==
    ASSUME Buffers!SoundConstants, BufferTypes, BufferLocks, BufferFits, NEW t \in Threads, BufferStep(t)
    PROVE  BufferFits'
<1>. USE DEF Buffers!SoundConstants, BufferTypes, BufferFits, Requesting, Buffers!Goto, Buffers!Begin
<1>1. ASSUME NEW n \in Sizes, Buffers!CallGetBuffer(t, n) PROVE BufferFits'
  BY <1>1 DEF Buffers!CallGetBuffer
<1>2. ASSUME NEW i \in 1..MaxHeld, NEW grown \in {0, 1}, Buffers!CallDrop(t, i, grown) PROVE BufferFits'
  BY <1>2 DEF Buffers!CallDrop
<1>3. ASSUME NEW op \in {"preallocate", "clear", "memory_usage", "stats"}, Buffers!CallOther(t, op) PROVE BufferFits'
  BY <1>3 DEF Buffers!CallOther
<1>4. CASE Buffers!CountRequest(t)
  BY <1>4 DEF Buffers!CountRequest
<1>5. CASE Buffers!TakeBuffer(t)
  <2>1. b_held \in [Threads -> Seq(Buffers!Buffer)] /\ b_pc \in [Threads -> Buffers!Labels] /\ b_asked' = b_asked
    BY <1>5 DEF Buffers!TakeBuffer
  <2>. HIDE DEF Buffers!SoundConstants, BufferTypes
  <2>2. PICK class \in Buffers!Classes, size \in Nat :
              /\ class = Buffers!from_size(b_asked[t]) /\ size >= b_asked[t]
              /\ \/ /\ b_held' = [b_held EXCEPT ![t] = Append(@, [capacity |-> size, class |-> class])]
                    /\ b_pc' = [b_pc EXCEPT ![t] = "taken"]
                 \/ /\ b_held' = b_held
                    /\ b_pc' = [b_pc EXCEPT ![t] = "missed"]
    BY <1>5, TakeBufferEffect
  <2>. DEFINE buffer == [capacity |-> size, class |-> class]
  <2>3. buffer \in Buffers!Buffer /\ buffer.class = class /\ buffer.capacity = size
    BY DEF Buffers!Buffer
  <2>4. CASE b_held' = b_held /\ b_pc' = [b_pc EXCEPT ![t] = "missed"]
    BY <2>1, <2>4
  <2>5. CASE b_held' = [b_held EXCEPT ![t] = Append(@, buffer)] /\ b_pc' = [b_pc EXCEPT ![t] = "taken"]
    <3>. HIDE DEF buffer
    <3>1. b_held'[t][Len(b_held'[t])] = buffer
      BY <2>1, <2>3, <2>5, AppendHeld
    <3>2. \A u \in Threads \ {t} : b_held'[u] = b_held[u] /\ b_pc'[u] = b_pc[u]
      BY <2>1, <2>5
    <3>3. b_held'[t][Len(b_held'[t])].class = Buffers!from_size(b_asked'[t])
          /\ b_held'[t][Len(b_held'[t])].capacity >= b_asked'[t]
      BY <2>1, <2>2, <2>3, <3>1
    <3>4. ASSUME NEW u \in Threads, b_pc'[u] \in {"taken", "got"}
          PROVE  b_held'[u][Len(b_held'[u])].class = Buffers!from_size(b_asked'[u])
                 /\ b_held'[u][Len(b_held'[u])].capacity >= b_asked'[u]
      BY <2>1, <3>2, <3>3, <3>4
    <3>. QED
      BY <3>4
  <2>. QED
    BY <2>2, <2>4, <2>5
<1>6. CASE Buffers!LeavePools(t)
  BY <1>6 DEF Buffers!LeavePools
<1>7. CASE Buffers!ReturnBuffer(t)
  BY <1>7 DEF Buffers!ReturnBuffer
<1>8. CASE Buffers!Preallocate(t)
  BY <1>8 DEF Buffers!Preallocate
<1>9. CASE Buffers!ClearPools(t)
  BY <1>9 DEF Buffers!ClearPools
<1>10. CASE Buffers!memory_usage(t)
  BY <1>10 DEF Buffers!memory_usage
<1>11. CASE Buffers!ReadStats(t)
  BY <1>11 DEF Buffers!ReadStats
<1>12. CASE Buffers!Leave(t)
  BY <1>12 DEF Buffers!Leave
<1>. HIDE DEF Buffers!SoundConstants, BufferTypes, BufferFits
<1>. QED
  BY <1>1, <1>2, <1>3, <1>4, <1>5, <1>6, <1>7, <1>8, <1>9, <1>10, <1>11, <1>12 DEF BufferStep, Buffers!Step

\* A queue grows only if it has room, or if it is topped up.
LEMMA QueuesBoundedKept ==
    ASSUME Buffers!SoundConstants, BufferTypes, BufferLocks, Buffers!QueuesBounded, NEW t \in Threads, BufferStep(t)
    PROVE  Buffers!QueuesBounded'
<1>. USE DEF Buffers!SoundConstants, BufferTypes, Buffers!QueuesBounded, Buffers!Goto, Buffers!Begin
<1>1. ASSUME NEW n \in Sizes, Buffers!CallGetBuffer(t, n) PROVE Buffers!QueuesBounded'
  BY <1>1 DEF Buffers!CallGetBuffer
<1>2. ASSUME NEW i \in 1..MaxHeld, NEW grown \in {0, 1}, Buffers!CallDrop(t, i, grown) PROVE Buffers!QueuesBounded'
  <2>. DEFINE buffer == b_held[t][i]
              size == buffer.capacity + grown
  <2>1. buffer \in Buffers!Buffer
    BY <1>2 DEF Buffers!CallDrop
  <2>2. size \in Nat
    BY <2>1 DEF Buffers!Buffer
  <2>3. CASE UNCHANGED b_queues
    BY <1>2, <2>3 DEF Buffers!CallDrop
  <2>4. CASE /\ buffer.class # None /\ Len(b_queues[buffer.class]) < Capacity[buffer.class]
             /\ b_queues' = [b_queues EXCEPT ![buffer.class] = Append(@, size)]
    <3>1. buffer.class \in Buffers!Classes
      BY <2>1, <2>4 DEF Buffers!Buffer
    <3>. HIDE DEF size, buffer
    <3>2. \A c \in Buffers!Classes : Capacity[c] \in Nat /\ Len(b_queues[c]) \in Nat
      BY DEF Buffers!Classes
    <3>3. ASSUME NEW c \in Buffers!Classes PROVE ~b_topped => Len(b_queues'[c]) <= Capacity[c]
      <4>1. CASE c = buffer.class
        <5>1. b_queues'[c] = Append(b_queues[c], size) /\ Len(b_queues'[c]) = Len(b_queues[c]) + 1
          <6>1. b_queues[c] \in Seq(Nat) /\ b_queues \in [Buffers!Classes -> Seq(Nat)]
            OBVIOUS
          <6>. HIDE DEF Buffers!SoundConstants, BufferTypes, Buffers!QueuesBounded
          <6>2. b_queues'[c] = Append(b_queues[c], size)
            BY <2>4, <3>1, <4>1, <6>1
          <6>. QED
            BY <2>2, <6>1, <6>2
        <5>. QED
          BY <2>4, <3>2, <4>1, <5>1
      <4>2. CASE c # buffer.class
        <5>1. b_queues'[c] = b_queues[c]
          BY <2>4, <4>2
        <5>. QED
          BY <5>1
      <4>. QED
        BY <4>1, <4>2
    <3>. QED
      BY <1>2, <3>3 DEF Buffers!CallDrop
  <2>. QED
    BY <1>2, <2>3, <2>4 DEF Buffers!CallDrop
<1>3. ASSUME NEW op \in {"preallocate", "clear", "memory_usage", "stats"}, Buffers!CallOther(t, op) PROVE Buffers!QueuesBounded'
  BY <1>3 DEF Buffers!CallOther
<1>4. CASE Buffers!CountRequest(t)
  BY <1>4 DEF Buffers!CountRequest
<1>5. CASE Buffers!TakeBuffer(t)
  <2>1. b_queues \in [Buffers!Classes -> Seq(Nat)] /\ b_topped' = b_topped
        /\ \A c \in Buffers!Classes : Capacity[c] \in Nat
    <3>1. b_queues \in [Buffers!Classes -> Seq(Nat)] /\ \A c \in Buffers!Classes : Capacity[c] \in Nat
      BY DEF Buffers!Classes
    <3>. QED
      BY <1>5, <3>1 DEF Buffers!TakeBuffer
  <2>. HIDE DEF Buffers!SoundConstants, BufferTypes
  <2>2. PICK class \in Buffers!Classes :
              \/ b_queues' = b_queues
              \/ b_queues[class] # <<>> /\ b_queues' = [b_queues EXCEPT ![class] = Tail(@)]
    BY <1>5, TakeBufferEffect
  <2>3. ASSUME NEW c \in Buffers!Classes, Len(b_queues[c]) <= Capacity[c] PROVE Len(b_queues'[c]) <= Capacity[c]
    <3>1. Capacity[c] \in Nat /\ b_queues[c] \in Seq(Nat)
      BY <2>1
    <3>2. CASE b_queues'[c] = b_queues[c]
      BY <2>3, <3>2
    <3>3. CASE b_queues[c] # <<>> /\ b_queues'[c] = Tail(b_queues[c])
      <4>1. Len(Tail(b_queues[c])) = Len(b_queues[c]) - 1 /\ Len(b_queues[c]) \in Nat
        BY <3>1, <3>3, SmallerTyped
      <4>. QED
        BY <2>3, <3>1, <3>3, <4>1
    <3>. QED
      BY <2>1, <2>2, <3>2, <3>3
  <2>. QED
    BY <2>1, <2>3
<1>6. CASE Buffers!LeavePools(t)
  BY <1>6 DEF Buffers!LeavePools
<1>7. CASE Buffers!ReturnBuffer(t)
  BY <1>7 DEF Buffers!ReturnBuffer
<1>8. CASE Buffers!Preallocate(t)
  <2>1. CASE b_queues' = b_queues /\ b_topped' = b_topped
    BY <2>1
  <2>2. CASE /\ b_queues' = [c \in Buffers!Classes |-> b_queues[c] \o [i \in 1..Preallocated[c] |-> Typical[c]]]
             /\ b_topped' = (b_topped \/ Buffers!InUse)
    <3>1. SUFFICES ASSUME ~b_topped' , NEW c \in Buffers!Classes PROVE Len(b_queues'[c]) <= Capacity[c]
      OBVIOUS
    <3>2. b_queues[c] = <<>>
      BY <2>2, <3>1 DEF Buffers!InUse
    <3>. DEFINE made == [i \in 1..Preallocated[c] |-> Typical[c]]
    <3>3. made \in Seq(Nat) /\ Len(made) = Preallocated[c]
      OBVIOUS
    <3>4. b_queues'[c] = b_queues[c] \o made
      BY <2>2
    <3>. HIDE DEF made
    <3>5. Len(<<>> \o made) = Len(made)
      BY <3>3
    <3>. QED
      BY <3>2, <3>3, <3>4, <3>5
  <2>. QED
    BY <1>8, <2>1, <2>2 DEF Buffers!Preallocate
<1>9. CASE Buffers!ClearPools(t)
  BY <1>9 DEF Buffers!ClearPools, Buffers!Classes
<1>10. CASE Buffers!memory_usage(t)
  BY <1>10 DEF Buffers!memory_usage
<1>11. CASE Buffers!ReadStats(t)
  BY <1>11 DEF Buffers!ReadStats
<1>12. CASE Buffers!Leave(t)
  BY <1>12 DEF Buffers!Leave
<1>. HIDE DEF Buffers!SoundConstants, BufferTypes, Buffers!QueuesBounded
<1>. QED
  BY <1>1, <1>2, <1>3, <1>4, <1>5, <1>6, <1>7, <1>8, <1>9, <1>10, <1>11, <1>12 DEF BufferStep, Buffers!Step

\* The memory pool of memory_pool.rs keeps its inductive invariant: who holds which
\* lock, and what the counters say of the request under way.
THEOREM BuffersInvariance == ASSUME Buffers!SoundConstants PROVE Buffers!Spec => []BuffersIInv
<1>1. ASSUME BuffersIInv, [Buffers!Next]_Buffers!vars PROVE BuffersIInv'
  <2>1. ASSUME NEW t \in Threads, BufferStep(t) PROVE BuffersIInv'
    BY <1>1, <2>1, BufferTypesKept, BufferLocksKept, RequestsCountedKept, BufferFitsKept, QueuesBoundedKept
       DEF BuffersIInv
  <2>2. CASE UNCHANGED Buffers!vars
    BY <1>1, <2>2 DEF Buffers!vars, BuffersIInv, BufferTypes, BufferLocks, RequestsCounted, Counted,
                      BufferFits, Buffers!QueuesBounded
  <2>3. CASE Buffers!Next
    <3>1. PICK t \in Threads : BufferStep(t)
      BY <2>3 DEF Buffers!Next, BufferStep
    <3>. QED
      BY <2>1, <3>1
  <2>. QED
    BY <1>1, <2>2, <2>3
<1>. QED
  BY <1>1, BuffersInit, PTL DEF Buffers!Spec

\* Every get_buffer is counted as a hit, a miss with an allocation, or a direct
\* allocation, and is given a buffer of its class that is large enough.
THEOREM RequestsAddUpAlways == ASSUME Buffers!SoundConstants PROVE Buffers!Spec => []Buffers!RequestsAddUp
<1>1. ASSUME BuffersIInv PROVE Buffers!RequestsAddUp
  <2>1. b_stats_lock = None => Counted(0, 0)
    BY <1>1 DEF BuffersIInv, RequestsCounted
  <2>2. BufferFits /\ b_stats \in BufferStats
    BY <1>1 DEF BuffersIInv, BufferTypes
  <2>. QED
    <3>1. b_stats_lock = None =>
             /\ b_stats.total_requests = b_stats.pool_hits + b_stats.pool_misses + b_stats.direct_allocations
             /\ b_stats.new_allocations = b_stats.pool_misses
      <4>1. ASSUME b_stats_lock = None PROVE Counted(0, 0)
        BY <2>1, <4>1
      <4>. QED
        BY <2>2, <4>1 DEF Counted, BufferStats
    <3>. QED
      BY <2>2, <3>1 DEF BufferFits, Buffers!RequestsAddUp
<1>. QED
  BY <1>1, BuffersInvariance, PTL

\* The queues of dropped buffers stay within the capacity of their class.
THEOREM QueuesBoundedAlways == ASSUME Buffers!SoundConstants PROVE Buffers!Spec => []Buffers!QueuesBounded
<1>1. BuffersIInv => Buffers!QueuesBounded
  BY DEF BuffersIInv
<1>. QED
  BY <1>1, BuffersInvariance, PTL

\* The steps that take a lock, and wait while another thread holds it.
WaitsForStats(t) == b_pc[t] \in {"get", "stats"}
WaitsForQueues(t) == b_pc[t] \in {"take", "preallocate", "clear", "memory_usage"}

\* Who holds the queues waits for nothing, who holds the statistics at most for the queues.
QueuesAreReleased ==
    /\ b_pools_lock # None =>
         b_pools_lock \in Threads /\ ~WaitsForStats(b_pools_lock) /\ ~WaitsForQueues(b_pools_lock)
    /\ b_stats_lock # None => b_stats_lock \in Threads /\ ~WaitsForStats(b_stats_lock)

\* get_buffer waits for the queues with the statistics in hand; no thread waits for
\* anything with the queues in hand, so that no wait closes a circle.
THEOREM QueuesAreReleasedAlways == ASSUME Buffers!SoundConstants PROVE Buffers!Spec => []QueuesAreReleased
<1>1. ASSUME BuffersIInv PROVE QueuesAreReleased
  BY <1>1 DEF BuffersIInv, BufferTypes, BufferLocks, Requesting, QueuesAreReleased, WaitsForStats, WaitsForQueues
<1>. QED
  BY <1>1, BuffersInvariance, PTL

-----------------------------------------------------------------------------
(* Calculated forms *)

CONSTANTS FormFields, FieldValues, Calculations, Formats, Depths, MaxValue
VARIABLES v_settings, v_values, v_calculations, v_formats, v_events, v_stage, v_field, v_order, v_previous, v_told,
          v_before, v_calls

Forms == INSTANCE FormCalculation WITH
    Fields <- FormFields, Values <- FieldValues,
    settings <- v_settings, field_values <- v_values, js_calculations <- v_calculations,
    field_formats <- v_formats, events <- v_events, stage <- v_stage, field <- v_field, order <- v_order,
    previous <- v_previous, told <- v_told, before <- v_before, calls <- v_calls

\* A calculation for each field, or none.
CalculationsOf == [FormFields -> Calculations \cup {None}]

\* Types.
FormTypes ==
    /\ v_calculations \in CalculationsOf
    /\ v_events \in Seq(Among(v_events))
    /\ v_stage \in {"idle", "own", "rest"}

\* Between calls there is nothing to go back to, unless the last call has.
Settled ==
    v_stage = "idle" =>
       \/ v_before = None
       \/ v_before = [values |-> v_values, calculations |-> v_calculations, events |-> v_events]

\* What a call under way keeps is what it found.
CalculationsKept ==
    /\ v_before.calculations \in CalculationsOf /\ v_field \in FormFields
    /\ IF v_told.op = "add"
       THEN /\ v_previous.calculation = v_before.calculations[v_field]
            /\ \E calculation \in Calculations :
                  v_calculations = [v_before.calculations EXCEPT ![v_field] = calculation]
       ELSE v_calculations = v_before.calculations

\* The events that were there are the first ones.
EventsKept ==
    /\ v_previous.length \in 0..Len(v_events)
    /\ v_before.events = SubSeq(v_events, 1, v_previous.length)

\* The values are kept, unless nothing is left to be calculated.
SavedValues ==
    \/ v_previous.values = {v_before.values}
    \/ v_previous.values = {} /\ v_stage = "rest" /\ v_order = <<>>

\* A call under way can be undone.
Reversible ==
    v_stage # "idle" =>
       /\ v_before = [values |-> v_before.values, calculations |-> v_before.calculations, events |-> v_before.events]
       /\ CalculationsKept /\ EventsKept /\ SavedValues

\* The inductive invariant.
FormsIInv == FormTypes /\ Settled /\ Reversible

\* A longer sequence begins like a shorter one.
LEMMA Prefix ==
    ASSUME NEW S, NEW s \in Seq(S), NEW e, NEW n \in 0..Len(s)
    PROVE  /\ n \in 0..Len(Append(s, e))
           /\ SubSeq(Append(s, e), 1, n) = SubSeq(s, 1, n)
<1>. DEFINE T == S \cup {e}
<1>1. s \in Seq(T) /\ e \in T
  OBVIOUS
<1>. HIDE DEF T
<1>. QED
  BY <1>1

\* Of the events, Log makes a sequence that begins with them.
LEMMA LogExtends ==
    ASSUME FormTypes, NEW type, NEW f, NEW old, NEW new, NEW n \in 0..Len(v_events)
    PROVE  /\ Forms!Log(type, f, old, new) \in Seq(Among(Forms!Log(type, f, old, new)))
           /\ n \in 0..Len(Forms!Log(type, f, old, new))
           /\ SubSeq(Forms!Log(type, f, old, new), 1, n) = SubSeq(v_events, 1, n)
<1>. DEFINE event == [type |-> type, field |-> f, old |-> old, new |-> new]
            log == Forms!Log(type, f, old, new)
<1>1. v_events \in Seq(Among(v_events))
  BY DEF FormTypes
<1>2. CASE log = v_events
  BY <1>1, <1>2
<1>3. CASE log = Append(v_events, event)
  <2>. HIDE DEF event, log
  <2>1. log \in Seq(Among(v_events) \cup {event})
    BY <1>1, <1>3, Appended
  <2>2. log \in Seq(Among(log))
    BY <2>1 DEF Among
  <2>3. n \in 0..Len(log) /\ SubSeq(log, 1, n) = SubSeq(v_events, 1, n)
    BY <1>1, <1>3, Prefix
  <2>. QED
    BY <2>2, <2>3 DEF log
<1>. QED
  BY <1>2, <1>3 DEF Forms!Log

\* The whole is its own beginning.
LEMMA WholeSequence ==
    ASSUME NEW S, NEW s \in Seq(S)
    PROVE  Len(s) \in 0..Len(s) /\ SubSeq(s, 1, Len(s)) = s
OBVIOUS

\* A sequence is one of what it holds.
LEMMA OfItsOwn == ASSUME NEW S, NEW s \in Seq(S) PROVE s \in Seq(Among(s))
  BY DEF Among

\* A beginning of the events is a sequence.
LEMMA PrefixTyped ==
    ASSUME NEW s, s \in Seq(Among(s)), NEW n \in 0..Len(s)
    PROVE  SubSeq(s, 1, n) \in Seq(Among(SubSeq(s, 1, n)))
<1>1. SubSeq(s, 1, n) \in Seq(Among(s))
  OBVIOUS
<1>. QED
  BY <1>1, OfItsOwn

\* The initial state.
LEMMA FormsInit == ASSUME Forms!Init PROVE FormsIInv
  BY DEF Forms!Init, FormsIInv, FormTypes, Settled, Reversible, CalculationsOf, Among

\* Going back restores all there was.
LEMMA RestoreKeeps ==
    ASSUME FormsIInv, v_stage # "idle", v_order # <<>> \/ v_stage = "own", NEW answer, Forms!Restore(answer)
    PROVE  FormsIInv'
<1>1. Reversible /\ FormTypes
  BY DEF FormsIInv
<1>2. v_before = [values |-> v_before.values, calculations |-> v_before.calculations, events |-> v_before.events]
      /\ CalculationsKept /\ EventsKept /\ v_previous.values = {v_before.values}
  BY <1>1 DEF Reversible, SavedValues
<1>3. v_values' = v_before.values
  BY <1>2 DEF Forms!Restore
<1>4. v_calculations' = v_before.calculations
  <2>1. CASE v_told.op = "add"
    <3>1. PICK calculation \in Calculations : v_calculations = [v_before.calculations EXCEPT ![v_field] = calculation]
      BY <1>2, <2>1 DEF CalculationsKept
    <3>2. v_calculations' = [v_calculations EXCEPT ![v_field] = v_before.calculations[v_field]]
      BY <1>2, <2>1 DEF CalculationsKept, Forms!Restore
    <3>. QED
      BY <1>2, <3>1, <3>2 DEF CalculationsKept, CalculationsOf
  <2>2. CASE v_told.op # "add"
    BY <1>2, <2>2 DEF CalculationsKept, Forms!Restore
  <2>. QED
    BY <2>1, <2>2
<1>5. v_events' = v_before.events /\ v_events' \in Seq(Among(v_events'))
  <2>1. v_events' = SubSeq(v_events, 1, v_previous.length)
    BY DEF Forms!Restore, Forms!EventsBefore
  <2>2. v_events \in Seq(Among(v_events)) /\ v_previous.length \in 0..Len(v_events)
    BY <1>1, <1>2 DEF FormTypes, EventsKept
  <2>3. SubSeq(v_events, 1, v_previous.length) \in Seq(Among(SubSeq(v_events, 1, v_previous.length)))
    BY <2>2, PrefixTyped
  <2>. QED
    BY <1>2, <2>1, <2>3 DEF EventsKept
<1>6. v_stage' = "idle" /\ v_before' = v_before
  BY DEF Forms!Restore
<1>7. FormTypes'
  BY <1>2, <1>4, <1>5, <1>6 DEF FormTypes, CalculationsKept
<1>8. Settled'
  BY <1>2, <1>3, <1>4, <1>5, <1>6 DEF Settled
<1>. QED
  BY <1>6, <1>7, <1>8 DEF FormsIInv, Reversible

\* A call begins to change things: what it found is remembered.
LEMMA SetKeeps ==
    ASSUME FormsIInv, NEW f \in FormFields, NEW value \in FieldValues, Forms!SetFieldValue(f, value)
    PROVE  FormsIInv'
<1>1. FormTypes
  BY DEF FormsIInv
<1>2. v_events \in Seq(Among(v_events)) /\ v_calculations \in CalculationsOf /\ Len(v_events) \in 0..Len(v_events)
      /\ SubSeq(v_events, 1, Len(v_events)) = v_events
  BY <1>1, WholeSequence DEF FormTypes
<1>3. /\ v_before' = [values |-> v_values, calculations |-> v_calculations, events |-> v_events]
      /\ v_previous'.length = Len(v_events) /\ v_told'.op = "set"
      /\ v_previous'.values = IF v_order' = <<>> THEN {} ELSE {v_values}
      /\ v_events' = Forms!Log("changed", f, v_values[f], value)
      /\ v_calculations' = v_calculations /\ v_stage' = "rest" /\ v_field' = f
  BY DEF Forms!SetFieldValue, Forms!Remember, Forms!Answer
<1>4. v_events' \in Seq(Among(v_events')) /\ Len(v_events) \in 0..Len(v_events')
      /\ SubSeq(v_events', 1, Len(v_events)) = v_events
  BY <1>1, <1>2, <1>3, LogExtends
<1>5. FormTypes'
  BY <1>2, <1>3, <1>4 DEF FormTypes
<1>6. CalculationsKept'
  BY <1>2, <1>3 DEF CalculationsKept
<1>7. EventsKept'
  BY <1>3, <1>4 DEF EventsKept
<1>8. SavedValues'
  BY <1>3 DEF SavedValues
<1>. QED
  BY <1>3, <1>5, <1>6, <1>7, <1>8 DEF FormsIInv, Settled, Reversible

\* A calculation is added: the one it takes the place of is remembered.
LEMMA AddKeepsForms ==
    ASSUME FormsIInv, NEW f \in FormFields, NEW calculation \in Calculations, Forms!AddCalculation(f, calculation)
    PROVE  FormsIInv'
<1>1. v_events \in Seq(Among(v_events)) /\ v_calculations \in CalculationsOf
  BY DEF FormsIInv, FormTypes
<1>2. Len(v_events) \in 0..Len(v_events) /\ SubSeq(v_events, 1, Len(v_events)) = v_events
  BY <1>1, WholeSequence
<1>3. /\ v_before' = [values |-> v_values, calculations |-> v_calculations, events |-> v_events]
      /\ v_previous' = [values |-> {v_values}, length |-> Len(v_events), calculation |-> v_calculations[f]]
      /\ v_told'.op = "add" /\ v_events' = v_events
      /\ v_calculations' = [v_calculations EXCEPT ![f] = calculation] /\ v_stage' = "own" /\ v_field' = f
  BY DEF Forms!AddCalculation, Forms!Remember, Forms!Answer
<1>4. FormTypes'
  BY <1>1, <1>3 DEF FormTypes, CalculationsOf
<1>5. CalculationsKept'
  BY <1>1, <1>3 DEF CalculationsKept
<1>6. EventsKept'
  BY <1>2, <1>3 DEF EventsKept
<1>7. SavedValues'
  BY <1>3 DEF SavedValues
<1>. QED
  BY <1>3, <1>4, <1>5, <1>6, <1>7 DEF FormsIInv, Settled, Reversible

\* A field is calculated, or the call goes back.
LEMMA CalculateFieldKeeps == ASSUME FormsIInv, Forms!CalculateField PROVE FormsIInv'
<1>1. CASE Forms!Restore("failed")
  BY <1>1, RestoreKeeps DEF Forms!CalculateField
<1>2. CASE ~Forms!Restore("failed")
  <2>1. v_stage # "idle" /\ v_order # <<>> /\ FormTypes /\ Reversible
    BY DEF Forms!CalculateField, FormsIInv
  <2>2. PICK f \in {Head(v_order)}, value \in Forms!Calculate(Head(v_order), v_values) :
            v_events' = Forms!Log("calculated", f, v_values[f], value)
    BY <1>2 DEF Forms!CalculateField
  <2>3. /\ v_calculations' = v_calculations /\ v_stage' = v_stage /\ v_previous' = v_previous
        /\ v_told' = v_told /\ v_before' = v_before /\ v_field' = v_field
    BY <1>2 DEF Forms!CalculateField
  <2>4. CalculationsKept /\ EventsKept /\ v_previous.values = {v_before.values}
    BY <2>1 DEF Reversible, SavedValues
  <2>5. v_previous.length \in 0..Len(v_events) /\ v_before.events = SubSeq(v_events, 1, v_previous.length)
    BY <2>4 DEF EventsKept
  <2>6. v_events' \in Seq(Among(v_events')) /\ v_previous.length \in 0..Len(v_events')
        /\ SubSeq(v_events', 1, v_previous.length) = SubSeq(v_events, 1, v_previous.length)
    BY <2>1, <2>2, <2>5, LogExtends
  <2>7. FormTypes'
    BY <2>1, <2>3, <2>6 DEF FormTypes
  <2>8. CalculationsKept'
    BY <2>3, <2>4 DEF CalculationsKept
  <2>9. EventsKept'
    BY <2>3, <2>5, <2>6 DEF EventsKept
  <2>10. SavedValues'
    BY <2>3, <2>4 DEF SavedValues
  <2>. QED
    BY <2>1, <2>3, <2>7, <2>8, <2>9, <2>10 DEF FormsIInv, Settled, Reversible
<1>. QED
  BY <1>1, <1>2

\* All is to be calculated again: nothing has changed yet.
LEMMA RecalculateKeeps == ASSUME FormsIInv, Forms!RecalculateDependents PROVE FormsIInv'
<1>1. CASE Forms!Restore("deep")
  BY <1>1, RestoreKeeps DEF Forms!RecalculateDependents
<1>2. CASE ~Forms!Restore("deep")
  <2>1. v_stage = "own" /\ FormTypes /\ Reversible
    BY DEF Forms!RecalculateDependents, FormsIInv
  <2>2. /\ v_calculations' = v_calculations /\ v_stage' = "rest" /\ v_previous' = v_previous
        /\ v_told' = v_told /\ v_before' = v_before /\ v_field' = v_field /\ v_events' = v_events
    BY <1>2 DEF Forms!RecalculateDependents
  <2>3. CalculationsKept /\ EventsKept /\ v_previous.values = {v_before.values}
    BY <2>1 DEF Reversible, SavedValues
  <2>. QED
    BY <2>1, <2>2, <2>3 DEF FormsIInv, FormTypes, Settled, Reversible, CalculationsKept, EventsKept, SavedValues
<1>. QED
  BY <1>1, <1>2

\* What cannot be undone happens only between calls.
LEMMA OtherKeeps ==
    ASSUME FormsIInv,
           \/ Forms!ClearEvents \/ Forms!Return
           \/ \E f \in FormFields, value \in FieldValues : Forms!SetRefused(f, value)
           \/ \E f \in FormFields, calculation \in Calculations : Forms!AddRefused(f, calculation)
           \/ \E f \in FormFields, format \in Formats : Forms!SetFieldFormat(f, format)
    PROVE  FormsIInv'
<1>1. v_stage' = "idle" /\ v_before' = None /\ v_calculations' = v_calculations /\ v_events' \in {v_events, <<>>}
  BY DEF Forms!ClearEvents, Forms!Return, Forms!SetRefused, Forms!AddRefused, Forms!SetFieldFormat,
         Forms!Unchanged, Forms!Call
<1>2. v_events' \in Seq(Among(v_events')) /\ v_calculations \in CalculationsOf
  <2>1. v_events \in Seq(Among(v_events)) /\ v_calculations \in CalculationsOf
    BY DEF FormsIInv, FormTypes
  <2>2. <<>> \in Seq(Among(<<>>))
    OBVIOUS
  <2>. QED
    BY <1>1, <2>1, <2>2
<1>. QED
  BY <1>1, <1>2 DEF FormsIInv, FormTypes, Settled, Reversible

\* The forms of calculation_system.rs keep their inductive invariant: a call under way
\* has kept what it needs to undo itself.
THEOREM FormsInvariance == Forms!Spec => []FormsIInv
<1>1. ASSUME FormsIInv, [Forms!Next]_Forms!vars PROVE FormsIInv'
  <2>1. CASE UNCHANGED Forms!vars
    BY <1>1, <2>1 DEF Forms!vars, FormsIInv, FormTypes, Settled, Reversible, CalculationsKept, EventsKept, SavedValues
  <2>2. CASE Forms!Next
    BY <1>1, <2>2, SetKeeps, AddKeepsForms, CalculateFieldKeeps, RecalculateKeeps, OtherKeeps DEF Forms!Next
  <2>. QED
    BY <1>1, <2>1, <2>2
<1>. QED
  BY <1>1, FormsInit, PTL DEF Forms!Spec

\* A call that fails leaves values, calculations and events as they were, whichever of
\* its steps has failed.
THEOREM FailureLeavesNoTraceAlways == Forms!Spec => []Forms!FailureLeavesNoTrace
<1>1. FormsIInv => Forms!FailureLeavesNoTrace
  BY DEF FormsIInv, Settled, Forms!FailureLeavesNoTrace
<1>. QED
  BY <1>1, FormsInvariance, PTL

-----------------------------------------------------------------------------
(* Scanned pages *)

CONSTANTS Scans, MaxThreads, Processors
VARIABLES s_scanned, s_outcome, s_call, s_chunks, s_pc, s_thread, s_at, s_found, s_joined, s_results

Scanned == INSTANCE ScannedPages WITH
    scanned <- s_scanned, outcome <- s_outcome, call <- s_call, chunks <- s_chunks, pc <- s_pc,
    thread <- s_thread, at <- s_at, found <- s_found, joined <- s_joined, results <- s_results

\* What stands in a sequence of pages.
InChunk(pages) == {pages[i] : i \in DOMAIN pages}

\* The chunks of threads hold each page once, and in order.
ChunksSound(parts) ==
    /\ parts \in Seq(Seq(Nat))
    /\ \A t \in DOMAIN parts : Scanned!Ascending(parts[t])
    /\ \A t, u \in DOMAIN parts : t # u => InChunk(parts[t]) \cap InChunk(parts[u]) = {}
    /\ UNION {InChunk(parts[t]) : t \in DOMAIN parts} = InChunk(s_scanned)

\* Of the first n pages, those recognised, in order.
RecognisedUpTo(pages, n, these) ==
    /\ these \in Seq(Nat) /\ Scanned!Ascending(these)
    /\ InChunk(these) = {pages[i] : i \in {k \in 1..n : s_outcome[pages[k]] = "text"}}

\* Division with remainder.
LEMMA Quotient ==
    ASSUME NEW n \in Nat, NEW d \in Nat, d > 0
    PROVE  n \div d \in Nat /\ d * (n \div d) <= n /\ n < d * (n \div d) + d
  OBVIOUS

\* A larger number of chunks covers more.
LEMMA ProductsKeepOrder ==
    ASSUME NEW a \in Nat, NEW b \in Nat, NEW d \in Nat, a <= b
    PROVE  a * d \in Nat /\ b * d \in Nat /\ a * d <= b * d
<1>1. b - a \in Nat
  OBVIOUS
<1>2. (b - a) * d \in Nat /\ a * d \in Nat /\ b * d \in Nat
  BY <1>1
<1>3. b * d = a * d + (b - a) * d
  BY <1>1
<1>. QED
  BY <1>2, <1>3

\* Each position is in one chunk.
LEMMA PositionInOneChunk ==
    ASSUME NEW n \in Nat, NEW d \in Nat, d > 0, NEW p \in 1..n
    PROVE  /\ \E i \in 1..((n + d - 1) \div d) : (i - 1) * d + 1 <= p /\ p <= i * d
           /\ \A i, j \in Nat \ {0} :
                 (i - 1) * d + 1 <= p /\ p <= i * d /\ (j - 1) * d + 1 <= p /\ p <= j * d => i = j
<1>. DEFINE q == (p - 1) \div d
            m == (n + d - 1) \div d
<1>1. q \in Nat /\ d * q <= p - 1 /\ p - 1 < d * q + d
  BY Quotient
<1>2. m \in Nat /\ n + d - 1 < d * m + d
  BY Quotient
<1>. HIDE DEF q, m
<1>3. q * d = d * q /\ (q + 1) * d = d * q + d /\ m * d = d * m
  BY <1>1, <1>2
<1>4. q + 1 <= m
  <2>1. CASE m <= q
    <3>1. m * d <= q * d
      BY <1>1, <1>2, <2>1, ProductsKeepOrder
    <3>2. m * d \in Nat /\ q * d \in Nat
      BY <1>1, <1>2
    <3>. QED
      BY <1>1, <1>2, <1>3, <3>1, <3>2
  <2>2. CASE ~(m <= q)
    BY <1>1, <1>2, <2>2
  <2>. QED
    BY <2>1, <2>2
<1>5. q + 1 \in 1..m /\ ((q + 1) - 1) * d + 1 <= p /\ p <= (q + 1) * d
  BY <1>1, <1>2, <1>3, <1>4
<1>6. ASSUME NEW i \in Nat \ {0}, NEW j \in Nat \ {0}, i < j, p <= i * d, (j - 1) * d + 1 <= p
      PROVE  FALSE
  <2>1. i * d \in Nat /\ (j - 1) * d \in Nat /\ i * d <= (j - 1) * d
    <3>1. j - 1 \in Nat /\ i <= j - 1
      BY <1>6
    <3>. QED
      BY <3>1, ProductsKeepOrder
  <2>. QED
    BY <1>6, <2>1
<1>7. ASSUME NEW i \in Nat \ {0}, NEW j \in Nat \ {0},
             (i - 1) * d + 1 <= p /\ p <= i * d /\ (j - 1) * d + 1 <= p /\ p <= j * d
      PROVE  i = j
  <2>1. ~(i < j) /\ ~(j < i)
    BY <1>6, <1>7
  <2>. QED
    BY <2>1
<1>8. \E i \in 1..m : (i - 1) * d + 1 <= p /\ p <= i * d
  BY <1>5
<1>. QED
  BY <1>7, <1>8 DEF m

\* What a part of a sequence has where.
LEMMA PartAt ==
    ASSUME NEW s \in Seq(Nat), NEW lo \in Nat, lo > 0, NEW hi \in Nat, hi <= Len(s)
    PROVE  /\ SubSeq(s, lo, hi) \in Seq(Nat)
           /\ \A i \in DOMAIN SubSeq(s, lo, hi) : i + lo - 1 \in lo..hi /\ i + lo - 1 \in DOMAIN s
                                                  /\ SubSeq(s, lo, hi)[i] = s[i + lo - 1]
           /\ \A p \in lo..hi : p - lo + 1 \in DOMAIN SubSeq(s, lo, hi) /\ SubSeq(s, lo, hi)[p - lo + 1] = s[p]
<1>1. SubSeq(s, lo, hi) \in Seq(Nat) /\ DOMAIN SubSeq(s, lo, hi) = 1..(hi - lo + 1)
  <2>1. CASE lo <= hi
    BY <2>1
  <2>2. CASE ~(lo <= hi)
    BY <2>2
  <2>. QED
    BY <2>1, <2>2
<1>2. ASSUME NEW i \in 1..(hi - lo + 1) PROVE SubSeq(s, lo, hi)[i] = s[i + lo - 1] /\ i + lo - 1 \in lo..hi
  OBVIOUS
<1>3. \A i \in lo..hi : i \in DOMAIN s
  OBVIOUS
<1>4. ASSUME NEW p \in lo..hi PROVE p - lo + 1 \in 1..(hi - lo + 1) /\ SubSeq(s, lo, hi)[p - lo + 1] = s[p]
  OBVIOUS
<1>. QED
  BY <1>1, <1>2, <1>3, <1>4

\* A part of what ascends.
LEMMA PartIs ==
    ASSUME NEW s \in Seq(Nat), Scanned!Ascending(s), NEW lo \in Nat, lo > 0, NEW hi \in Nat, hi <= Len(s)
    PROVE  /\ SubSeq(s, lo, hi) \in Seq(Nat)
           /\ Scanned!Ascending(SubSeq(s, lo, hi))
           /\ InChunk(SubSeq(s, lo, hi)) = {s[p] : p \in lo..hi}
<1>. DEFINE part == SubSeq(s, lo, hi)
<1>1. /\ part \in Seq(Nat)
      /\ \A i \in DOMAIN part : i + lo - 1 \in lo..hi /\ i + lo - 1 \in DOMAIN s /\ part[i] = s[i + lo - 1]
      /\ \A p \in lo..hi : p - lo + 1 \in DOMAIN part /\ part[p - lo + 1] = s[p]
  BY PartAt
<1>. HIDE DEF part
<1>2. ASSUME NEW a \in DOMAIN part, NEW b \in DOMAIN part, a < b PROVE part[a] < part[b]
  <2>1. a \in Nat /\ b \in Nat
    <3>1. part \in Seq(Nat)
      BY <1>1
    <3>. QED
      BY <3>1
  <2>2. a + lo - 1 < b + lo - 1
    BY <1>2, <2>1
  <2>3. a + lo - 1 \in DOMAIN s /\ b + lo - 1 \in DOMAIN s /\ part[a] = s[a + lo - 1] /\ part[b] = s[b + lo - 1]
    BY <1>1
  <2>. QED
    BY <2>2, <2>3 DEF Scanned!Ascending
<1>3. InChunk(part) = {s[p] : p \in lo..hi}
  BY <1>1 DEF InChunk
<1>4. Scanned!Ascending(part)
  BY <1>2 DEF Scanned!Ascending
<1>. QED
  BY <1>1, <1>3, <1>4 DEF part

\* Different positions have different pages.
LEMMA PagesDiffer ==
    ASSUME NEW s \in Seq(Nat), Scanned!Ascending(s), NEW p \in DOMAIN s, NEW q \in DOMAIN s, s[p] = s[q]
    PROVE  p = q
<1>1. p \in Nat /\ q \in Nat /\ s[p] \in Nat /\ s[q] \in Nat
  OBVIOUS
<1>2. ~(p < q) /\ ~(q < p)
  BY <1>1 DEF Scanned!Ascending
<1>. QED
  BY <1>1, <1>2

\* The chunks divide the pages.
LEMMA ChunksAre ==
    ASSUME Scanned!SoundConstants, s_scanned \in Scans, s_scanned # <<>>,
           Scanned!ThreadCount \in Nat, Scanned!ThreadCount > 0
    PROVE  ChunksSound(Scanned!Chunks) /\ Scanned!Chunks # <<>>
<1>. DEFINE n == Len(s_scanned)
            k == Scanned!ThreadCount
            d == Scanned!ChunkSize
            m == (n + d - 1) \div d
            lo(i) == (i - 1) * d + 1
            hi(i) == Scanned!Smaller(i * d, n)
            parts == Scanned!Chunks
<1>1. s_scanned \in Seq(Nat) /\ Scanned!Ascending(s_scanned)
  BY DEF Scanned!SoundConstants, Scanned!Ascending
<1>2. n \in Nat /\ n > 0 /\ DOMAIN s_scanned = 1..n
  BY <1>1
<1>3. d \in Nat /\ d > 0
  <2>1. n + k - 1 \in Nat /\ d = (n + k - 1) \div k
    BY <1>2 DEF Scanned!ChunkSize
  <2>2. d \in Nat /\ n + k - 1 < k * d + k
    <3>. HIDE DEF n, k, d
    <3>. QED
      BY <2>1, Quotient DEF k
  <2>3. d # 0
    BY <1>2, <2>2
  <2>. QED
    BY <2>2, <2>3
<1>4. parts = [i \in 1..m |-> SubSeq(s_scanned, lo(i), hi(i))]
  BY DEF Scanned!Chunks, Scanned!Chunk
<1>. HIDE DEF n, k, d, parts
<1>5. m \in Nat
  <2>1. n + d - 1 \in Nat
    BY <1>2, <1>3
  <2>. QED
    BY <1>3, <2>1, Quotient
<1>6. ASSUME NEW i \in 1..m
      PROVE  /\ lo(i) \in Nat /\ lo(i) > 0 /\ hi(i) \in Nat /\ hi(i) <= n
             /\ \A p \in 1..n : p \in lo(i)..hi(i) <=> lo(i) <= p /\ p <= i * d
  <2>1. i - 1 \in Nat /\ i \in Nat
    BY <1>5
  <2>2. (i - 1) * d \in Nat /\ i * d \in Nat
    BY <1>3, <2>1
  <2>. QED
    BY <1>2, <2>2 DEF Scanned!Smaller
<1>. HIDE DEF m, lo, hi
<1>7. DOMAIN parts = 1..m /\ \A i \in 1..m : parts[i] = SubSeq(s_scanned, lo(i), hi(i))
  BY <1>4
<1>8. ASSUME NEW i \in 1..m
      PROVE  /\ parts[i] \in Seq(Nat)
             /\ Scanned!Ascending(parts[i])
             /\ InChunk(parts[i]) = {s_scanned[p] : p \in lo(i)..hi(i)}
  <2>1. parts[i] = SubSeq(s_scanned, lo(i), hi(i)) /\ lo(i) \in Nat /\ lo(i) > 0 /\ hi(i) \in Nat /\ hi(i) <= Len(s_scanned)
    BY <1>6, <1>7 DEF n
  <2>. DEFINE a == lo(i)
              b == hi(i)
  <2>2. a \in Nat /\ a > 0 /\ b \in Nat /\ b <= Len(s_scanned) /\ parts[i] = SubSeq(s_scanned, a, b)
    BY <2>1
  <2>. HIDE DEF a, b
  <2>3. /\ parts[i] \in Seq(Nat)
        /\ Scanned!Ascending(parts[i])
        /\ InChunk(parts[i]) = {s_scanned[p] : p \in a..b}
    BY <1>1, <2>2, PartIs
  <2>. QED
    BY <2>3 DEF a, b
<1>9. ASSUME NEW p \in 1..n
      PROVE  /\ \E i \in 1..m : p \in lo(i)..hi(i)
             /\ \A i, j \in 1..m : p \in lo(i)..hi(i) /\ p \in lo(j)..hi(j) => i = j
  <2>1. /\ \E i \in 1..m : lo(i) <= p /\ p <= i * d
        /\ \A i, j \in Nat \ {0} : lo(i) <= p /\ p <= i * d /\ lo(j) <= p /\ p <= j * d => i = j
    BY <1>2, <1>3, PositionInOneChunk DEF m, lo
  <2>2. \A i \in 1..m : p \in lo(i)..hi(i) <=> lo(i) <= p /\ p <= i * d
    BY <1>6
  <2>3. \A i \in 1..m : i \in Nat \ {0}
    BY <1>5
  <2>. QED
    BY <2>1, <2>2, <2>3
<1>10. \A i \in 1..m : lo(i)..hi(i) \subseteq 1..n
  BY <1>2, <1>6
<1>11. parts \in Seq(Seq(Nat))
  BY <1>4, <1>5, <1>7, <1>8
<1>12. ASSUME NEW t \in 1..m, NEW u \in 1..m, t # u, NEW page \in InChunk(parts[t]), page \in InChunk(parts[u])
       PROVE  FALSE
  <2>1. PICK p \in lo(t)..hi(t), q \in lo(u)..hi(u) : page = s_scanned[p] /\ page = s_scanned[q]
    BY <1>8, <1>12
  <2>2. p \in 1..n /\ q \in 1..n /\ s_scanned[p] = s_scanned[q]
    BY <1>10, <2>1
  <2>3. p = q
    BY <1>1, <1>2, <2>2, PagesDiffer
  <2>. QED
    BY <1>9, <1>12, <2>1, <2>2, <2>3
<1>13. UNION {InChunk(parts[t]) : t \in DOMAIN parts} = InChunk(s_scanned)
  <2>1. ASSUME NEW t \in 1..m PROVE InChunk(parts[t]) \subseteq InChunk(s_scanned)
    <3>1. InChunk(parts[t]) = {s_scanned[p] : p \in lo(t)..hi(t)} /\ lo(t)..hi(t) \subseteq DOMAIN s_scanned
      BY <1>2, <1>8, <1>10
    <3>. QED
      BY <3>1 DEF InChunk
  <2>2. ASSUME NEW p \in 1..n PROVE \E t \in 1..m : s_scanned[p] \in InChunk(parts[t])
    <3>1. PICK t \in 1..m : p \in lo(t)..hi(t)
      BY <1>9
    <3>2. InChunk(parts[t]) = {s_scanned[r] : r \in lo(t)..hi(t)}
      BY <1>8
    <3>3. s_scanned[p] \in {s_scanned[r] : r \in lo(t)..hi(t)}
      BY <3>1
    <3>. QED
      BY <3>2, <3>3
  <2>. QED
    <3>1. InChunk(s_scanned) = {s_scanned[p] : p \in 1..n} /\ DOMAIN parts = 1..m
      BY <1>2, <1>7 DEF InChunk
    <3>. QED
      BY <2>1, <2>2, <3>1
<1>14. parts # <<>>
  <2>1. 1 \in 1..n
    BY <1>2
  <2>2. 1..m # {}
    BY <1>9, <2>1
  <2>. QED
    <3>1. DOMAIN parts # {} /\ DOMAIN <<>> = {}
      BY <1>7, <2>2
    <3>. QED
      BY <3>1
<1>15. \A t \in DOMAIN parts : Scanned!Ascending(parts[t])
  BY <1>7, <1>8
<1>16. \A t, u \in DOMAIN parts : t # u => InChunk(parts[t]) \cap InChunk(parts[u]) = {}
  BY <1>7, <1>12
<1>17. ChunksSound(parts)
  BY <1>11, <1>13, <1>15, <1>16 DEF ChunksSound
<1>. QED
  BY <1>14, <1>17 DEF parts

\* A page more.
LEMMA RecogniseOne ==
    ASSUME NEW pages \in Seq(Nat), Scanned!Ascending(pages), NEW n \in Nat, n < Len(pages), NEW these,
           RecognisedUpTo(pages, n, these)
    PROVE  /\ s_outcome[pages[n + 1]] = "text" => RecognisedUpTo(pages, n + 1, Append(these, pages[n + 1]))
           /\ s_outcome[pages[n + 1]] # "text" => RecognisedUpTo(pages, n + 1, these)
<1>. DEFINE page == pages[n + 1]
            more == Append(these, page)
<1>1. n + 1 \in DOMAIN pages /\ page \in Nat /\ 1..(n + 1) = 1..n \cup {n + 1} /\ 1..n \subseteq DOMAIN pages
  OBVIOUS
<1>2. these \in Seq(Nat) /\ Scanned!Ascending(these)
      /\ InChunk(these) = {pages[i] : i \in {k \in 1..n : s_outcome[pages[k]] = "text"}}
  BY DEF RecognisedUpTo
<1>3. CASE s_outcome[page] = "text"
  <2>. HIDE DEF page
  <2>1. more \in Seq(Nat) /\ DOMAIN more = DOMAIN these \cup {Len(these) + 1} /\ more[Len(these) + 1] = page
        /\ \A i \in DOMAIN these : more[i] = these[i] /\ i < Len(these) + 1 /\ i \in Nat
    BY <1>1, <1>2
  <2>2. Len(these) + 1 \notin DOMAIN these /\ Len(these) + 1 \in Nat
    BY <1>2
  <2>. HIDE DEF more
  <2>3. ASSUME NEW i \in DOMAIN these PROVE these[i] < page
    <3>1. PICK k \in 1..n : these[i] = pages[k]
      BY <1>2 DEF InChunk
    <3>2. k < n + 1
      OBVIOUS
    <3>. QED
      BY <1>1, <3>1, <3>2 DEF Scanned!Ascending, page
  <2>4. Scanned!Ascending(more)
    <3>1. ASSUME NEW i \in DOMAIN more, NEW j \in DOMAIN more, i < j PROVE more[i] < more[j]
      <4>1. i \in DOMAIN these
        BY <2>1, <2>2, <3>1
      <4>2. CASE j \in DOMAIN these
        BY <1>2, <2>1, <3>1, <4>1, <4>2 DEF Scanned!Ascending
      <4>3. CASE j = Len(these) + 1
        BY <2>1, <2>3, <4>1, <4>3
      <4>. QED
        BY <2>1, <4>2, <4>3
    <3>. QED
      BY <3>1 DEF Scanned!Ascending
  <2>5. InChunk(more) = InChunk(these) \cup {page}
    BY <2>1 DEF InChunk
  <2>6. {pages[i] : i \in {k \in 1..(n + 1) : s_outcome[pages[k]] = "text"}}
        = {pages[i] : i \in {k \in 1..n : s_outcome[pages[k]] = "text"}} \cup {page}
    BY <1>1, <1>3 DEF page
  <2>7. RecognisedUpTo(pages, n + 1, more)
    BY <1>2, <2>1, <2>4, <2>5, <2>6 DEF RecognisedUpTo
  <2>. QED
    BY <1>3, <2>7 DEF more, page
<1>4. CASE s_outcome[page] # "text"
  <2>1. {k \in 1..(n + 1) : s_outcome[pages[k]] = "text"} = {k \in 1..n : s_outcome[pages[k]] = "text"}
    BY <1>1, <1>4
  <2>2. RecognisedUpTo(pages, n + 1, these)
    BY <1>2, <2>1 DEF RecognisedUpTo
  <2>. QED
    BY <1>4, <2>2
<1>. QED
  BY <1>3, <1>4

\* Types, of what is counted as far as needed.
ScanTypes ==
    /\ s_scanned \in Scans /\ s_call \in Scanned!Calls
    /\ s_pc \in {"called", "page", "spawn", "join", "returned", "panicked"}
    /\ s_thread \in [Scanned!Hands -> {"none", "running", "ended", "panicked"}]
    /\ s_at \in [Scanned!Hands -> Nat] /\ s_found \in [Scanned!Hands -> Seq(Nat)]
    /\ s_results \in Seq(Nat) /\ s_joined \in Nat

\* process_scanned_pages_batch with batches of no pages.
InBatchesOfNone == s_call.op = "batches" /\ s_call.limit = 0

\* Before the call has begun, and of a thread that is not spawned, nothing is done.
NothingYet ==
    /\ s_pc = "called" => s_chunks = <<>>
    /\ \A t \in Scanned!Hands : (s_chunks # <<>> \/ s_pc = "called") /\ s_thread[t] = "none" =>
          s_at[t] = 0 /\ s_found[t] = <<>>

\* A caller that works alone has got this far.
Alone ==
    s_chunks = <<>> =>
       /\ \A t \in Scanned!Hands : s_thread[t] = "none"
       /\ s_joined = 0
       /\ s_pc \notin {"spawn", "join"}
       /\ s_pc = "called" => s_results = <<>>
       /\ s_pc = "page" => s_at[1] < Len(s_scanned) /\ RecognisedUpTo(s_scanned, s_at[1], s_results) /\ ~InBatchesOfNone
       /\ s_pc = "returned" =>
             IF InBatchesOfNone THEN s_results = <<>> ELSE RecognisedUpTo(s_scanned, Len(s_scanned), s_results)
       /\ s_pc = "panicked" => Scanned!Panics(s_scanned)

\* A thread has recognised what it has done of its chunk.
ThreadsExact ==
    \A t \in Scanned!Hands : s_chunks # <<>> /\ s_thread[t] # "none" =>
       /\ t \in DOMAIN s_chunks
       /\ s_at[t] <= Len(s_chunks[t])
       /\ RecognisedUpTo(s_chunks[t], s_at[t], s_found[t])
       /\ s_thread[t] = "ended" => s_at[t] = Len(s_chunks[t])
       /\ s_thread[t] \in {"running", "ended"} => \A i \in 1..s_at[t] : s_outcome[s_chunks[t][i]] # "panic"
       /\ s_thread[t] = "panicked" => Scanned!Panics(s_chunks[t])

\* Threads are spawned one after another and then joined.
SpawnedInOrder ==
    s_chunks # <<>> =>
       /\ ChunksSound(s_chunks)
       /\ s_pc \in {"spawn", "join", "returned"}
       /\ \A t, u \in Scanned!Hands : s_thread[t] # "none" /\ u < t => s_thread[u] # "none"
       /\ s_pc = "spawn" => s_joined = 0 /\ \A t \in Scanned!Hands : s_thread[t] # "none" => t < Len(s_chunks)
       /\ s_pc # "spawn" => Len(s_chunks) \in Scanned!Hands /\ s_thread[Len(s_chunks)] # "none"
       /\ \A t \in 1..s_joined : t \in Scanned!Hands /\ s_thread[t] \in {"ended", "panicked"}
       /\ s_pc = "join" => s_joined < Len(s_chunks)
       /\ s_pc = "returned" => s_joined = Len(s_chunks)

\* The vector has what the threads that have ended found, thread by thread.
VectorExact ==
    s_chunks # <<>> =>
       /\ InChunk(s_results) = UNION {InChunk(s_found[t]) : t \in {u \in Scanned!Hands : s_thread[u] = "ended"}}
       /\ \A t \in DOMAIN s_chunks : Scanned!Together(InChunk(s_chunks[t]))

\* The inductive invariant.
ScanIInv == ScanTypes /\ NothingYet /\ Alone /\ ThreadsExact /\ SpawnedInOrder /\ VectorExact

\* There are threads, numbered from 1.
LEMMA HandsAre == ASSUME Scanned!SoundConstants PROVE Scanned!Hands \subseteq Nat \ {0} /\ 1 \in Scanned!Hands
                                                       /\ \A t \in Scanned!Hands : 1..t \subseteq Scanned!Hands
  BY DEF Scanned!SoundConstants, Scanned!Hands

\* The initial state.
LEMMA ScanInit == ASSUME Scanned!SoundConstants, Scanned!Init PROVE ScanIInv
<1>1. ScanTypes
  BY DEF Scanned!Init, ScanTypes
<1>2. NothingYet /\ Alone /\ ThreadsExact /\ SpawnedInOrder /\ VectorExact
  BY DEF Scanned!Init, NothingYet, Alone, ThreadsExact, SpawnedInOrder, VectorExact
<1>. QED
  BY <1>1, <1>2 DEF ScanIInv

\* Nothing of no pages.
LEMMA RecognisedNone == ASSUME NEW pages PROVE RecognisedUpTo(pages, 0, <<>>)
<1>1. {k \in 1..0 : s_outcome[pages[k]] = "text"} = {}
  OBVIOUS
<1>2. InChunk(<<>>) = {}
  BY DEF InChunk
<1>. QED
  BY <1>1, <1>2 DEF RecognisedUpTo, Scanned!Ascending

\* The call divides the pages, or goes through them alone.
LEMMA BeginKeeps == ASSUME Scanned!SoundConstants, ScanIInv, Scanned!Begin PROVE ScanIInv'
<1>1. /\ s_pc = "called" /\ s_chunks = <<>> /\ s_results = <<>> /\ s_scanned \in Scans /\ s_joined = 0
      /\ \A t \in Scanned!Hands : s_thread[t] = "none" /\ s_at[t] = 0 /\ s_found[t] = <<>>
  BY DEF ScanIInv, ScanTypes, NothingYet, Alone, Scanned!Begin
<1>2. /\ s_scanned' = s_scanned /\ s_outcome' = s_outcome /\ s_call' = s_call /\ s_thread' = s_thread
      /\ s_at' = s_at /\ s_found' = s_found /\ s_joined' = s_joined /\ s_results' = s_results
  BY DEF Scanned!Begin
<1>3. s_scanned \in Seq(Nat) /\ 1 \in Scanned!Hands
  BY <1>1, HandsAre DEF Scanned!SoundConstants
<1>4. ScanTypes'
  BY <1>2 DEF ScanIInv, ScanTypes, Scanned!Begin
<1>5. CASE s_scanned = <<>> \/ InBatchesOfNone
  <2>1. s_pc' = "returned" /\ s_chunks' = <<>>
    BY <1>1, <1>5 DEF Scanned!Begin, InBatchesOfNone
  <2>2. InBatchesOfNone' <=> InBatchesOfNone
    BY <1>2 DEF InBatchesOfNone
  <2>3. RecognisedUpTo(s_scanned, 0, <<>>)'
    BY <1>2, RecognisedNone DEF RecognisedUpTo, InChunk
  <2>4. s_scanned = <<>> => Len(s_scanned) = 0
    OBVIOUS
  <2>5. Alone'
    BY <1>1, <1>2, <1>5, <2>1, <2>2, <2>3, <2>4 DEF Alone
  <2>6. NothingYet' /\ ThreadsExact' /\ SpawnedInOrder' /\ VectorExact'
    BY <1>1, <1>2, <2>1 DEF NothingYet, ThreadsExact, SpawnedInOrder, VectorExact
  <2>. QED
    BY <1>4, <2>5, <2>6 DEF ScanIInv
<1>6. CASE /\ ~(s_scanned = <<>> \/ InBatchesOfNone)
           /\ s_call.op = "parallel" /\ Scanned!ThreadCount > 1
  <2>1. s_pc' = "spawn" /\ s_chunks' = Scanned!Chunks
    BY <1>6 DEF Scanned!Begin, InBatchesOfNone
  <2>2. Scanned!ThreadCount \in Nat
    <3>1. s_call.limit = None \/ s_call.limit \in 0..MaxThreads
      <4>1. s_call \in Scanned!Calls
        BY DEF ScanIInv, ScanTypes
      <4>2. s_call \in {[op |-> "one by one", limit |-> None], [op |-> "parallel", limit |-> None]}
            \/ s_call \in [op : {"batches", "parallel"}, limit : 0..MaxThreads]
        BY <4>1 DEF Scanned!Calls
      <4>3. CASE s_call \in {[op |-> "one by one", limit |-> None], [op |-> "parallel", limit |-> None]}
        <5>1. CASE s_call = [op |-> "one by one", limit |-> None]
          BY <5>1
        <5>2. CASE s_call = [op |-> "parallel", limit |-> None]
          BY <5>2
        <5>. QED
          BY <4>3, <5>1, <5>2
      <4>4. CASE s_call \in [op : {"batches", "parallel"}, limit : 0..MaxThreads]
        BY <4>4
      <4>. QED
        BY <4>2, <4>3, <4>4
    <3>2. Len(s_scanned) \in Nat /\ Processors \in Nat /\ MaxThreads \in Nat
      BY <1>3 DEF Scanned!SoundConstants
    <3>. QED
      BY <3>1, <3>2 DEF Scanned!ThreadCount, Scanned!Smaller
  <2>3. ChunksSound(Scanned!Chunks) /\ Scanned!Chunks # <<>>
    BY <1>1, <1>6, <2>2, ChunksAre
  <2>4. ChunksSound(s_chunks)' /\ s_chunks' # <<>>
    <3>1. PICK parts : parts = Scanned!Chunks /\ ChunksSound(parts) /\ parts # <<>>
      BY <2>3
    <3>2. s_chunks' = parts /\ ChunksSound(parts) /\ parts # <<>>
      BY <2>1, <3>1
    <3>3. /\ parts \in Seq(Seq(Nat)) /\ \A t \in DOMAIN parts : Scanned!Ascending(parts[t])
          /\ \A t, u \in DOMAIN parts : t # u => InChunk(parts[t]) \cap InChunk(parts[u]) = {}
          /\ UNION {InChunk(parts[t]) : t \in DOMAIN parts} = InChunk(s_scanned')
      BY <1>2, <3>2 DEF ChunksSound
    <3>. QED
      BY <3>2, <3>3 DEF ChunksSound
  <2>5. Alone' /\ NothingYet' /\ ThreadsExact'
    BY <1>1, <1>2, <2>1, <2>4 DEF Alone, NothingYet, ThreadsExact
  <2>6. SpawnedInOrder'
    BY <1>1, <1>2, <2>1, <2>4 DEF SpawnedInOrder
  <2>7. VectorExact'
    <3>1. InChunk(s_results') = {} /\ DOMAIN s_results' = {}
      BY <1>1, <1>2 DEF InChunk
    <3>2. UNION {InChunk(s_found'[t]) : t \in {u \in Scanned!Hands : s_thread'[u] = "ended"}} = {}
      BY <1>1, <1>2
    <3>. QED
      BY <3>1, <3>2 DEF VectorExact, Scanned!Together
  <2>. QED
    BY <1>4, <2>5, <2>6, <2>7 DEF ScanIInv
<1>7. CASE /\ ~(s_scanned = <<>> \/ InBatchesOfNone)
           /\ ~(s_call.op = "parallel" /\ Scanned!ThreadCount > 1)
  <2>1. s_pc' = "page" /\ s_chunks' = <<>>
    BY <1>1, <1>7 DEF Scanned!Begin, InBatchesOfNone
  <2>2. InBatchesOfNone' <=> InBatchesOfNone
    BY <1>2 DEF InBatchesOfNone
  <2>3. RecognisedUpTo(s_scanned, 0, <<>>)'
    BY <1>2, RecognisedNone DEF RecognisedUpTo, InChunk
  <2>4. 0 < Len(s_scanned)
    BY <1>3, <1>7
  <2>5. Alone'
    BY <1>1, <1>2, <1>3, <1>7, <2>1, <2>2, <2>3, <2>4 DEF Alone
  <2>6. NothingYet' /\ ThreadsExact' /\ SpawnedInOrder' /\ VectorExact'
    BY <1>1, <1>2, <2>1 DEF NothingYet, ThreadsExact, SpawnedInOrder, VectorExact
  <2>. QED
    BY <1>4, <2>5, <2>6 DEF ScanIInv
<1>. QED
  BY <1>5, <1>6, <1>7

\* A caller that works alone has done a page.
LEMMA CallerPageKeeps == ASSUME Scanned!SoundConstants, ScanIInv, Scanned!CallerPage PROVE ScanIInv'
<1>1. s_pc = "page" /\ ScanTypes /\ NothingYet /\ Alone /\ SpawnedInOrder
  BY DEF ScanIInv, Scanned!CallerPage
<1>2. s_chunks = <<>>
  BY <1>1 DEF SpawnedInOrder
<1>. DEFINE n == s_at[1]
            page == s_scanned[n + 1]
<1>3. /\ \A t \in Scanned!Hands : s_thread[t] = "none"
      /\ n < Len(s_scanned) /\ RecognisedUpTo(s_scanned, n, s_results) /\ ~InBatchesOfNone /\ s_joined = 0
  BY <1>1, <1>2 DEF Alone
<1>4. s_scanned \in Seq(Nat) /\ Scanned!Ascending(s_scanned) /\ 1 \in Scanned!Hands
  BY <1>1, HandsAre DEF Scanned!SoundConstants, ScanTypes, Scanned!Ascending
<1>5. n \in Nat /\ n + 1 \in DOMAIN s_scanned /\ page \in Nat
  <2>1. n \in Nat
    BY <1>1, <1>4 DEF ScanTypes
  <2>. QED
    BY <1>3, <1>4, <2>1
<1>6. /\ s_scanned' = s_scanned /\ s_outcome' = s_outcome /\ s_call' = s_call /\ s_thread' = s_thread
      /\ s_found' = s_found /\ s_joined' = s_joined /\ s_chunks' = <<>>
      /\ s_at' = [s_at EXCEPT ![1] = n + 1]
      /\ s_results' = IF s_outcome[page] = "text" THEN Append(s_results, page) ELSE s_results
      /\ s_pc' = IF s_outcome[page] = "panic" THEN "panicked"
                 ELSE IF n + 1 = Len(s_scanned) THEN "returned" ELSE "page"
  BY <1>2 DEF Scanned!CallerPage
<1>7. s_at'[1] = n + 1 /\ s_at' \in [Scanned!Hands -> Nat]
  BY <1>1, <1>4, <1>5, <1>6 DEF ScanTypes
<1>8. RecognisedUpTo(s_scanned, n + 1, s_results')
  <2>. HIDE DEF n
  <2>. QED
    BY <1>3, <1>4, <1>5, <1>6, RecogniseOne
<1>9. RecognisedUpTo(s_scanned, s_at[1], s_results)'
  BY <1>5, <1>6, <1>7, <1>8 DEF RecognisedUpTo
<1>10. ScanTypes'
  BY <1>1, <1>6, <1>7, <1>8 DEF ScanTypes, RecognisedUpTo
<1>11. Scanned!Panics(s_scanned)' <=> Scanned!Panics(s_scanned)
  BY <1>6 DEF Scanned!Panics
<1>12. s_outcome[page] = "panic" => Scanned!Panics(s_scanned)
  BY <1>5 DEF Scanned!Panics
<1>13. Alone'
  <2>1. InBatchesOfNone' <=> InBatchesOfNone
    BY <1>6 DEF InBatchesOfNone
  <2>2. n + 1 # Len(s_scanned) => n + 1 < Len(s_scanned)
    BY <1>3, <1>4, <1>5
  <2>3. s_pc' = "returned" => RecognisedUpTo(s_scanned, Len(s_scanned), s_results)'
    <3>1. s_pc' = "returned" => s_at'[1] = Len(s_scanned')
      BY <1>6, <1>7
    <3>. QED
      BY <1>9, <3>1 DEF RecognisedUpTo
  <2>4. s_pc' = "page" => s_at'[1] < Len(s_scanned')
    BY <1>6, <1>7, <2>2
  <2>. HIDE DEF n
  <2>. QED
    BY <1>3, <1>6, <1>9, <1>11, <1>12, <2>1, <2>3, <2>4 DEF Alone
<1>14. NothingYet' /\ ThreadsExact' /\ SpawnedInOrder' /\ VectorExact'
  BY <1>6 DEF NothingYet, ThreadsExact, SpawnedInOrder, VectorExact
<1>. QED
  BY <1>10, <1>13, <1>14 DEF ScanIInv

\* The thread of the next chunk is spawned.
LEMMA SpawnKeeps == ASSUME Scanned!SoundConstants, ScanIInv, Scanned!Spawn PROVE ScanIInv'
<1>1. s_pc = "spawn" /\ ScanTypes /\ NothingYet /\ Alone /\ ThreadsExact /\ SpawnedInOrder /\ VectorExact
  BY DEF ScanIInv, Scanned!Spawn
<1>2. s_chunks # <<>> /\ ChunksSound(s_chunks)
  BY <1>1 DEF Alone, SpawnedInOrder
<1>3. PICK t \in Scanned!Hands :
         /\ s_thread[t] = "none" /\ \A u \in Scanned!Hands : u < t => s_thread[u] # "none"
         /\ s_thread' = [s_thread EXCEPT ![t] = "running"]
         /\ s_pc' = IF t = Len(s_chunks) THEN "join" ELSE "spawn"
  BY DEF Scanned!Spawn
<1>4. /\ s_scanned' = s_scanned /\ s_outcome' = s_outcome /\ s_call' = s_call /\ s_at' = s_at
      /\ s_found' = s_found /\ s_joined' = s_joined /\ s_chunks' = s_chunks /\ s_results' = s_results
  BY DEF Scanned!Spawn
<1>5. Scanned!Hands \subseteq Nat \ {0} /\ \A u \in Scanned!Hands : 1..u \subseteq Scanned!Hands
  BY HandsAre
<1>6. s_thread'[t] = "running" /\ (\A u \in Scanned!Hands \ {t} : s_thread'[u] = s_thread[u])
      /\ s_thread' \in [Scanned!Hands -> {"none", "running", "ended", "panicked"}]
  BY <1>1, <1>3 DEF ScanTypes
<1>7. Len(s_chunks) \in Nat \ {0} /\ DOMAIN s_chunks = 1..Len(s_chunks)
  BY <1>2 DEF ChunksSound
<1>8. /\ s_joined = 0 /\ \A u \in Scanned!Hands : s_thread[u] # "none" => u < Len(s_chunks)
  BY <1>1, <1>2 DEF SpawnedInOrder
<1>9. t <= Len(s_chunks) /\ t \in DOMAIN s_chunks
  <2>1. CASE Len(s_chunks) < t
    <3>1. Len(s_chunks) \in Scanned!Hands
      BY <1>5, <1>7, <2>1
    <3>2. Len(s_chunks) < Len(s_chunks)
      BY <1>3, <1>8, <2>1, <3>1
    <3>. QED
      BY <1>7, <3>2
  <2>2. CASE ~(Len(s_chunks) < t)
    BY <1>5, <1>7, <2>2
  <2>. QED
    BY <2>1, <2>2
<1>10. ScanTypes'
  BY <1>1, <1>3, <1>4, <1>6 DEF ScanTypes
<1>11. NothingYet'
  BY <1>1, <1>2, <1>3, <1>4, <1>6 DEF NothingYet
<1>12. Alone'
  BY <1>2, <1>4 DEF Alone
<1>13. ThreadsExact'
  <2>1. s_at[t] = 0 /\ s_found[t] = <<>>
    BY <1>1, <1>2, <1>3 DEF NothingYet
  <2>2. RecognisedUpTo(s_chunks[t], 0, <<>>)
    BY RecognisedNone
  <2>3. Len(s_chunks[t]) \in Nat
    BY <1>2, <1>9 DEF ChunksSound
  <2>4. ASSUME NEW u \in Scanned!Hands, s_thread'[u] # "none"
        PROVE  /\ u \in DOMAIN s_chunks'
               /\ s_at'[u] <= Len(s_chunks'[u])
               /\ RecognisedUpTo(s_chunks[u], s_at[u], s_found[u])
               /\ s_thread'[u] = "ended" => s_at'[u] = Len(s_chunks'[u])
               /\ s_thread'[u] \in {"running", "ended"} => \A i \in 1..s_at'[u] : s_outcome'[s_chunks'[u][i]] # "panic"
               /\ s_thread'[u] = "panicked" => Scanned!Panics(s_chunks[u])
    <3>1. CASE u = t
      BY <1>4, <1>6, <1>9, <2>1, <2>2, <2>3, <3>1
    <3>2. CASE u # t
      BY <1>1, <1>2, <1>4, <1>6, <2>4, <3>2 DEF ThreadsExact
    <3>. QED
      BY <3>1, <3>2
  <2>5. ASSUME NEW u \in Scanned!Hands, s_thread'[u] # "none"
        PROVE  RecognisedUpTo(s_chunks[u], s_at[u], s_found[u])'
               /\ (s_thread'[u] = "panicked" => Scanned!Panics(s_chunks[u])')
    <3>1. RecognisedUpTo(s_chunks[u], s_at[u], s_found[u])'
      BY <1>4, <2>4, <2>5 DEF RecognisedUpTo
    <3>2. s_thread'[u] = "panicked" => Scanned!Panics(s_chunks[u])'
      BY <1>4, <2>4, <2>5 DEF Scanned!Panics
    <3>. QED
      BY <3>1, <3>2
  <2>. QED
    BY <2>4, <2>5 DEF ThreadsExact
<1>14. SpawnedInOrder'
  <2>1. ChunksSound(s_chunks)'
    BY <1>2, <1>4 DEF ChunksSound
  <2>2. \A a, b \in Scanned!Hands : s_thread'[a] # "none" /\ b < a => s_thread'[b] # "none"
    <3>1. \A a, b \in Scanned!Hands : s_thread[a] # "none" /\ b < a => s_thread[b] # "none"
      BY <1>1, <1>2 DEF SpawnedInOrder
    <3>. QED
      BY <1>3, <1>6, <3>1
  <2>3. s_pc' = "spawn" => \A u \in Scanned!Hands : s_thread'[u] # "none" => u < Len(s_chunks)
    <3>1. s_pc' = "spawn" => t < Len(s_chunks)
      BY <1>3, <1>5, <1>7, <1>9
    <3>. QED
      BY <1>6, <1>8, <3>1
  <2>4. s_pc' # "spawn" => Len(s_chunks) \in Scanned!Hands /\ s_thread'[Len(s_chunks)] # "none"
    BY <1>3, <1>6
  <2>5. s_pc' \in {"spawn", "join"}
    BY <1>3
  <2>6. \A u \in 1..s_joined : FALSE
    BY <1>8
  <2>. QED
    BY <1>4, <1>7, <1>8, <2>1, <2>2, <2>3, <2>4, <2>5, <2>6 DEF SpawnedInOrder
<1>15. VectorExact'
  <2>1. {u \in Scanned!Hands : s_thread'[u] = "ended"} = {u \in Scanned!Hands : s_thread[u] = "ended"}
    BY <1>3, <1>6
  <2>2. InChunk(s_results) = UNION {InChunk(s_found[u]) : u \in {w \in Scanned!Hands : s_thread[w] = "ended"}}
        /\ \A u \in DOMAIN s_chunks : Scanned!Together(InChunk(s_chunks[u]))
    BY <1>1, <1>2 DEF VectorExact
  <2>3. ASSUME NEW u \in DOMAIN s_chunks PROVE Scanned!Together(InChunk(s_chunks[u]))'
    BY <1>4, <2>2, <2>3 DEF Scanned!Together, InChunk
  <2>. QED
    BY <1>4, <2>1, <2>2, <2>3 DEF VectorExact
<1>. QED
  BY <1>10, <1>11, <1>12, <1>13, <1>14, <1>15 DEF ScanIInv

\* The caller joins the next thread.
LEMMA JoinKeeps == ASSUME Scanned!SoundConstants, ScanIInv, Scanned!Join PROVE ScanIInv'
<1>1. s_pc = "join" /\ ScanTypes /\ NothingYet /\ Alone /\ ThreadsExact /\ SpawnedInOrder /\ VectorExact
  BY DEF ScanIInv, Scanned!Join
<1>2. s_chunks # <<>> /\ ChunksSound(s_chunks) /\ s_joined < Len(s_chunks)
  BY <1>1 DEF Alone, SpawnedInOrder
<1>3. /\ s_thread[s_joined + 1] \in {"ended", "panicked"} /\ s_joined' = s_joined + 1
      /\ s_pc' = IF s_joined + 1 = Len(s_chunks) THEN "returned" ELSE "join"
      /\ s_scanned' = s_scanned /\ s_outcome' = s_outcome /\ s_call' = s_call /\ s_at' = s_at
      /\ s_found' = s_found /\ s_thread' = s_thread /\ s_chunks' = s_chunks /\ s_results' = s_results
  BY DEF Scanned!Join
<1>4. Len(s_chunks) \in Nat \ {0} /\ s_joined \in Nat
  BY <1>1, <1>2 DEF ChunksSound, ScanTypes
<1>5. s_joined + 1 \in Scanned!Hands
  <2>1. Len(s_chunks) \in Scanned!Hands
    BY <1>1, <1>2 DEF SpawnedInOrder
  <2>2. 1..Len(s_chunks) \subseteq Scanned!Hands
    BY <2>1, HandsAre
  <2>. QED
    BY <1>2, <1>4, <2>2
<1>6. ScanTypes'
  BY <1>1, <1>3, <1>4 DEF ScanTypes
<1>7. NothingYet' /\ Alone' /\ ThreadsExact' /\ VectorExact'
  <2>1. NothingYet' /\ Alone'
    BY <1>1, <1>2, <1>3 DEF NothingYet, Alone
  <2>2. ThreadsExact'
    <3>1. ASSUME NEW u \in Scanned!Hands, s_thread[u] # "none"
          PROVE  RecognisedUpTo(s_chunks[u], s_at[u], s_found[u])'
                 /\ (s_thread[u] = "panicked" => Scanned!Panics(s_chunks[u])')
      <4>1. RecognisedUpTo(s_chunks[u], s_at[u], s_found[u]) /\ (s_thread[u] = "panicked" => Scanned!Panics(s_chunks[u]))
        BY <1>1, <1>2, <3>1 DEF ThreadsExact
      <4>2. RecognisedUpTo(s_chunks[u], s_at[u], s_found[u])'
        BY <1>3, <4>1 DEF RecognisedUpTo
      <4>3. s_thread[u] = "panicked" => Scanned!Panics(s_chunks[u])'
        BY <1>3, <4>1 DEF Scanned!Panics
      <4>. QED
        BY <4>2, <4>3
    <3>. QED
      BY <1>1, <1>2, <1>3, <3>1 DEF ThreadsExact
  <2>3. VectorExact'
    <3>1. InChunk(s_results) = UNION {InChunk(s_found[u]) : u \in {w \in Scanned!Hands : s_thread[w] = "ended"}}
          /\ \A u \in DOMAIN s_chunks : Scanned!Together(InChunk(s_chunks[u]))
      BY <1>1, <1>2 DEF VectorExact
    <3>2. ASSUME NEW u \in DOMAIN s_chunks PROVE Scanned!Together(InChunk(s_chunks[u]))'
      BY <1>3, <3>1, <3>2 DEF Scanned!Together, InChunk
    <3>. QED
      BY <1>3, <3>1, <3>2 DEF VectorExact
  <2>. QED
    BY <2>1, <2>2, <2>3
<1>8. SpawnedInOrder'
  <2>1. ChunksSound(s_chunks)'
    BY <1>2, <1>3 DEF ChunksSound
  <2>2. \A t \in 1..s_joined' : t \in Scanned!Hands /\ s_thread'[t] \in {"ended", "panicked"}
    <3>1. \A t \in 1..s_joined : t \in Scanned!Hands /\ s_thread[t] \in {"ended", "panicked"}
      BY <1>1, <1>2 DEF SpawnedInOrder
    <3>2. \A t \in 1..s_joined' : t \in 1..s_joined \/ t = s_joined + 1
      BY <1>3, <1>4
    <3>. QED
      BY <1>3, <1>5, <3>1, <3>2
  <2>3. s_pc' # "returned" => s_joined' < Len(s_chunks')
    BY <1>2, <1>3, <1>4
  <2>4. /\ \A t, u \in Scanned!Hands : s_thread[t] # "none" /\ u < t => s_thread[u] # "none"
        /\ Len(s_chunks) \in Scanned!Hands /\ s_thread[Len(s_chunks)] # "none"
    BY <1>1, <1>2 DEF SpawnedInOrder
  <2>5. s_pc' \in {"join", "returned"}
    BY <1>3
  <2>. QED
    BY <1>3, <2>1, <2>2, <2>3, <2>4, <2>5 DEF SpawnedInOrder
<1>. QED
  BY <1>6, <1>7, <1>8 DEF ScanIInv

\* A thread has done a page of its chunk.
LEMMA ThreadPageKeeps ==
    ASSUME Scanned!SoundConstants, ScanIInv, NEW t \in Scanned!Hands, Scanned!ThreadPage(t)
    PROVE  ScanIInv'
<1>1. s_thread[t] = "running" /\ ScanTypes /\ NothingYet /\ Alone /\ ThreadsExact /\ SpawnedInOrder /\ VectorExact
  BY DEF ScanIInv, Scanned!ThreadPage
<1>2. s_chunks # <<>> /\ ChunksSound(s_chunks)
  BY <1>1 DEF Alone, SpawnedInOrder
<1>. DEFINE n == s_at[t]
            page == s_chunks[t][n + 1]
<1>3. t \in DOMAIN s_chunks /\ RecognisedUpTo(s_chunks[t], n, s_found[t]) /\ n \in Nat
      /\ \A i \in 1..n : s_outcome[s_chunks[t][i]] # "panic"
  BY <1>1, <1>2 DEF ThreadsExact, ScanTypes
<1>4. s_chunks[t] \in Seq(Nat) /\ Scanned!Ascending(s_chunks[t]) /\ n < Len(s_chunks[t])
  BY <1>2, <1>3 DEF ChunksSound, Scanned!ThreadPage
<1>5. /\ s_scanned' = s_scanned /\ s_outcome' = s_outcome /\ s_call' = s_call /\ s_pc' = s_pc
      /\ s_joined' = s_joined /\ s_chunks' = s_chunks /\ s_results' = s_results
  BY DEF Scanned!ThreadPage
<1>6. /\ s_at' = [s_at EXCEPT ![t] = n + 1]
      /\ s_found' = [s_found EXCEPT ![t] = IF s_outcome[page] = "text" THEN Append(s_found[t], page) ELSE s_found[t]]
      /\ s_thread' = [s_thread EXCEPT ![t] = IF s_outcome[page] = "panic" THEN "panicked" ELSE "running"]
  BY <1>1 DEF Scanned!ThreadPage
<1>7. /\ s_at'[t] = n + 1 /\ s_at' \in [Scanned!Hands -> Nat]
      /\ s_thread'[t] = IF s_outcome[page] = "panic" THEN "panicked" ELSE "running"
      /\ s_thread' \in [Scanned!Hands -> {"none", "running", "ended", "panicked"}]
      /\ s_found'[t] = IF s_outcome[page] = "text" THEN Append(s_found[t], page) ELSE s_found[t]
      /\ \A u \in Scanned!Hands \ {t} : s_at'[u] = s_at[u] /\ s_thread'[u] = s_thread[u] /\ s_found'[u] = s_found[u]
  BY <1>1, <1>3, <1>6 DEF ScanTypes
<1>8. RecognisedUpTo(s_chunks[t], n + 1, s_found'[t])
  <2>. HIDE DEF n
  <2>. QED
    BY <1>3, <1>4, <1>7, RecogniseOne
<1>9. s_found' \in [Scanned!Hands -> Seq(Nat)]
  <2>1. s_found'[t] \in Seq(Nat) /\ s_found \in [Scanned!Hands -> Seq(Nat)]
    BY <1>1, <1>8 DEF RecognisedUpTo, ScanTypes
  <2>2. s_found' = [s_found EXCEPT ![t] = s_found'[t]]
    BY <1>6, <1>7
  <2>. QED
    BY <2>1, <2>2
<1>10. ScanTypes'
  BY <1>1, <1>5, <1>7, <1>9 DEF ScanTypes
<1>11. NothingYet' /\ Alone'
  BY <1>1, <1>2, <1>5, <1>7 DEF NothingYet, Alone
<1>12. ThreadsExact'
  <2>1. n + 1 <= Len(s_chunks[t]) /\ n + 1 \in DOMAIN s_chunks[t] /\ 1..(n + 1) = 1..n \cup {n + 1}
    BY <1>3, <1>4
  <2>2. s_outcome[page] = "panic" => Scanned!Panics(s_chunks[t])
    BY <2>1 DEF Scanned!Panics
  <2>3. s_outcome[page] # "panic" => \A i \in 1..(n + 1) : s_outcome[s_chunks[t][i]] # "panic"
    BY <1>3, <2>1
  <2>4. ASSUME NEW u \in Scanned!Hands, s_thread'[u] # "none"
        PROVE  /\ u \in DOMAIN s_chunks
               /\ s_at'[u] <= Len(s_chunks[u])
               /\ RecognisedUpTo(s_chunks[u], s_at'[u], s_found'[u])
               /\ s_thread'[u] = "ended" => s_at'[u] = Len(s_chunks[u])
               /\ s_thread'[u] \in {"running", "ended"} => \A i \in 1..s_at'[u] : s_outcome[s_chunks[u][i]] # "panic"
               /\ s_thread'[u] = "panicked" => Scanned!Panics(s_chunks[u])
    <3>1. CASE u = t
      <4>. HIDE DEF n, page
      <4>. QED
        BY <1>3, <1>7, <1>8, <2>1, <2>2, <2>3, <3>1
    <3>2. CASE u # t
      BY <1>1, <1>2, <1>7, <2>4, <3>2 DEF ThreadsExact
    <3>. QED
      BY <3>1, <3>2
  <2>. HIDE DEF n, page
  <2>5. ASSUME NEW u \in Scanned!Hands, s_thread'[u] # "none"
        PROVE  RecognisedUpTo(s_chunks[u], s_at[u], s_found[u])'
               /\ (s_thread'[u] = "panicked" => Scanned!Panics(s_chunks[u])')
    <3>1. RecognisedUpTo(s_chunks[u], s_at[u], s_found[u])'
      BY <1>5, <2>4, <2>5 DEF RecognisedUpTo
    <3>2. s_thread'[u] = "panicked" => Scanned!Panics(s_chunks[u])'
      BY <1>5, <2>4, <2>5 DEF Scanned!Panics
    <3>. QED
      BY <3>1, <3>2
  <2>. QED
    BY <1>5, <2>4, <2>5 DEF ThreadsExact
<1>13. SpawnedInOrder'
  <2>1. ChunksSound(s_chunks)'
    BY <1>2, <1>5 DEF ChunksSound
  <2>2. \A u \in Scanned!Hands : (s_thread'[u] # "none" <=> s_thread[u] # "none")
                                 /\ (s_thread[u] \in {"ended", "panicked"} => s_thread'[u] = s_thread[u])
    BY <1>1, <1>7
  <2>. HIDE DEF n, page
  <2>. QED
    BY <1>1, <1>2, <1>5, <2>1, <2>2 DEF SpawnedInOrder
<1>14. VectorExact'
  <2>1. {u \in Scanned!Hands : s_thread'[u] = "ended"} = {u \in Scanned!Hands : s_thread[u] = "ended"}
    BY <1>1, <1>7
  <2>2. \A u \in Scanned!Hands : s_thread[u] = "ended" => s_found'[u] = s_found[u]
    BY <1>1, <1>7
  <2>3. InChunk(s_results) = UNION {InChunk(s_found[u]) : u \in {w \in Scanned!Hands : s_thread[w] = "ended"}}
        /\ \A u \in DOMAIN s_chunks : Scanned!Together(InChunk(s_chunks[u]))
    BY <1>1, <1>2 DEF VectorExact
  <2>4. UNION {InChunk(s_found'[u]) : u \in {w \in Scanned!Hands : s_thread'[w] = "ended"}}
        = UNION {InChunk(s_found[u]) : u \in {w \in Scanned!Hands : s_thread[w] = "ended"}}
    BY <2>1, <2>2
  <2>. HIDE DEF n, page
  <2>5. ASSUME NEW u \in DOMAIN s_chunks PROVE Scanned!Together(InChunk(s_chunks[u]))'
    BY <1>5, <2>3, <2>5 DEF Scanned!Together, InChunk
  <2>. QED
    BY <1>5, <2>3, <2>4, <2>5 DEF VectorExact
<1>. QED
  BY <1>10, <1>11, <1>12, <1>13, <1>14 DEF ScanIInv

\* One sequence behind another.
LEMMA Joined ==
    ASSUME NEW r \in Seq(Nat), NEW f \in Seq(Nat)
    PROVE  /\ r \o f \in Seq(Nat) /\ DOMAIN (r \o f) = 1..(Len(r) + Len(f)) /\ Len(r) \in Nat /\ Len(f) \in Nat
           /\ \A i \in DOMAIN r : i \in Nat /\ i <= Len(r) /\ i \in DOMAIN (r \o f) /\ (r \o f)[i] = r[i]
           /\ \A i \in DOMAIN f : i + Len(r) \in DOMAIN (r \o f) /\ (r \o f)[i + Len(r)] = f[i]
           /\ \A i \in DOMAIN (r \o f) :
                 \/ i \in DOMAIN r
                 \/ i > Len(r) /\ i - Len(r) \in DOMAIN f /\ (r \o f)[i] = f[i - Len(r)]
<1>. DEFINE rf == r \o f
<1>1. rf \in Seq(Nat) /\ Len(rf) = Len(r) + Len(f) /\ Len(r) \in Nat /\ Len(f) \in Nat
  OBVIOUS
<1>2. DOMAIN rf = 1..(Len(r) + Len(f)) /\ DOMAIN r = 1..Len(r) /\ DOMAIN f = 1..Len(f)
  BY <1>1
<1>3. \A i \in 1..Len(r) : rf[i] = r[i]
  OBVIOUS
<1>4. \A i \in 1..(Len(r) + Len(f)) : i > Len(r) => rf[i] = f[i - Len(r)]
  OBVIOUS
<1>. HIDE DEF rf
<1>5. \A i \in DOMAIN r : i \in Nat /\ i <= Len(r) /\ i \in DOMAIN rf /\ rf[i] = r[i]
  BY <1>1, <1>2, <1>3
<1>6. ASSUME NEW i \in DOMAIN f PROVE i + Len(r) \in DOMAIN rf /\ rf[i + Len(r)] = f[i]
  <2>1. i \in Nat /\ i > 0 /\ i <= Len(f)
    BY <1>1, <1>2
  <2>2. i + Len(r) \in 1..(Len(r) + Len(f)) /\ i + Len(r) > Len(r) /\ (i + Len(r)) - Len(r) = i
    BY <1>1, <2>1
  <2>. QED
    BY <1>2, <1>4, <2>2
<1>7. ASSUME NEW i \in DOMAIN rf
      PROVE  i \in DOMAIN r \/ (i > Len(r) /\ i - Len(r) \in DOMAIN f /\ rf[i] = f[i - Len(r)])
  BY <1>1, <1>2, <1>4
<1>. QED
  BY <1>1, <1>2, <1>5, <1>6, <1>7 DEF rf

\* What is put behind other pages stays together, if those are others.
LEMMA PutBehind ==
    ASSUME ScanTypes, NEW f \in Seq(Nat), s_results' = s_results \o f, Scanned!Ascending(f),
           NEW P, NEW Q, P \cap Q = {}, InChunk(f) \subseteq P, InChunk(s_results) \cap P = {},
           Scanned!Together(Q)
    PROVE  Scanned!Together(P)' /\ Scanned!Together(Q)'
<1>. DEFINE r == s_results
            n == Len(r)
<1>1. r \in Seq(Nat)
  BY DEF ScanTypes
<1>2. PICK rf : rf = r \o f
  OBVIOUS
<1>3. /\ rf \in Seq(Nat) /\ DOMAIN rf \subseteq Nat /\ n \in Nat
      /\ \A i \in DOMAIN r : i \in Nat /\ i <= n /\ i \in DOMAIN rf /\ rf[i] = r[i]
      /\ \A i \in DOMAIN f : i + n \in DOMAIN rf /\ rf[i + n] = f[i]
      /\ \A i \in DOMAIN rf : i \in DOMAIN r \/ (i > n /\ i - n \in DOMAIN f /\ rf[i] = f[i - n])
      /\ \A i \in DOMAIN rf, j \in DOMAIN rf : i..j \subseteq DOMAIN rf
  <2>1. DOMAIN rf = 1..(Len(r) + Len(f)) /\ Len(r) \in Nat /\ Len(f) \in Nat
    BY <1>1, <1>2, Joined
  <2>2. DOMAIN rf \subseteq Nat /\ \A i \in DOMAIN rf, j \in DOMAIN rf : i..j \subseteq DOMAIN rf
    BY <2>1
  <2>. QED
    BY <1>1, <1>2, <2>2, Joined
<1>4. s_results' = rf
  BY <1>2
<1>5. \A i \in DOMAIN r : r[i] \notin P
  BY DEF InChunk
<1>6. \A i \in DOMAIN f : f[i] \in P /\ f[i] \notin Q
  BY DEF InChunk
<1>7. \A i \in DOMAIN r, j \in DOMAIN r : i < j /\ r[i] \in Q /\ r[j] \in Q =>
          r[i] < r[j] /\ \A k \in i..j : r[k] \in Q
  BY DEF Scanned!Together
<1>8. \A i \in DOMAIN r, j \in DOMAIN r : i..j \subseteq DOMAIN r
  BY <1>1
<1>. HIDE DEF r, n
<1>9. ASSUME NEW i \in DOMAIN rf, NEW j \in DOMAIN rf, i < j, rf[i] \in P, rf[j] \in P
      PROVE  rf[i] < rf[j] /\ \A k \in i..j : rf[k] \in P
  <2>1. i \in Nat /\ j \in Nat
    BY <1>3
  <2>2. i > n /\ i - n \in DOMAIN f /\ rf[i] = f[i - n] /\ j > n /\ j - n \in DOMAIN f /\ rf[j] = f[j - n]
    BY <1>3, <1>5, <1>9
  <2>3. i - n < j - n
    BY <1>3, <1>9, <2>1
  <2>4. rf[i] < rf[j]
    BY <2>2, <2>3 DEF Scanned!Ascending
  <2>5. ASSUME NEW k \in i..j PROVE rf[k] \in P
    <3>1. k \in DOMAIN rf /\ k \in Nat /\ k > n
      BY <1>3, <2>1, <2>2
    <3>2. k \notin DOMAIN r
      BY <1>3, <3>1
    <3>. QED
      BY <1>3, <1>6, <3>1, <3>2
  <2>. QED
    BY <2>4, <2>5
<1>10. ASSUME NEW i \in DOMAIN rf, NEW j \in DOMAIN rf, i < j, rf[i] \in Q, rf[j] \in Q
       PROVE  rf[i] < rf[j] /\ \A k \in i..j : rf[k] \in Q
  <2>1. i \in DOMAIN r /\ j \in DOMAIN r /\ rf[i] = r[i] /\ rf[j] = r[j]
    BY <1>3, <1>6, <1>10
  <2>2. r[i] < r[j] /\ \A k \in i..j : r[k] \in Q
    BY <1>7, <1>10, <2>1
  <2>3. \A k \in i..j : k \in DOMAIN r /\ rf[k] = r[k]
    BY <1>3, <1>8, <2>1
  <2>. QED
    BY <2>1, <2>2, <2>3
<1>11. Scanned!Together(P)'
  BY <1>4, <1>9 DEF Scanned!Together
<1>12. Scanned!Together(Q)'
  BY <1>4, <1>10 DEF Scanned!Together
<1>. QED
  BY <1>11, <1>12

\* A thread ends: what it has found is put behind what is there.
LEMMA PublishKeeps ==
    ASSUME Scanned!SoundConstants, ScanIInv, NEW t \in Scanned!Hands, Scanned!Publish(t)
    PROVE  ScanIInv'
<1>1. s_thread[t] = "running" /\ ScanTypes /\ NothingYet /\ Alone /\ ThreadsExact /\ SpawnedInOrder /\ VectorExact
  BY DEF ScanIInv, Scanned!Publish
<1>2. s_chunks # <<>> /\ ChunksSound(s_chunks)
  BY <1>1 DEF Alone, SpawnedInOrder
<1>3. t \in DOMAIN s_chunks /\ RecognisedUpTo(s_chunks[t], s_at[t], s_found[t]) /\ s_at[t] = Len(s_chunks[t])
      /\ \A i \in 1..s_at[t] : s_outcome[s_chunks[t][i]] # "panic"
  BY <1>1, <1>2 DEF ThreadsExact, Scanned!Publish
<1>4. /\ s_scanned' = s_scanned /\ s_outcome' = s_outcome /\ s_call' = s_call /\ s_pc' = s_pc /\ s_at' = s_at
      /\ s_found' = s_found /\ s_joined' = s_joined /\ s_chunks' = s_chunks
      /\ s_results' = s_results \o s_found[t]
      /\ s_thread' = [s_thread EXCEPT ![t] = "ended"]
  BY DEF Scanned!Publish
<1>5. s_thread'[t] = "ended" /\ (\A u \in Scanned!Hands \ {t} : s_thread'[u] = s_thread[u])
      /\ s_thread' \in [Scanned!Hands -> {"none", "running", "ended", "panicked"}]
  BY <1>1, <1>4 DEF ScanTypes
<1>6. s_found[t] \in Seq(Nat) /\ s_results \in Seq(Nat) /\ Scanned!Ascending(s_found[t])
  BY <1>1, <1>3 DEF ScanTypes, RecognisedUpTo
<1>7. s_results' \in Seq(Nat)
  BY <1>4, <1>6, Joined
<1>8. ScanTypes'
  BY <1>1, <1>4, <1>5, <1>7 DEF ScanTypes
<1>9. NothingYet' /\ Alone'
  BY <1>1, <1>2, <1>4, <1>5 DEF NothingYet, Alone
<1>10. ThreadsExact'
  <2>1. ASSUME NEW u \in Scanned!Hands, s_thread'[u] # "none"
        PROVE  /\ u \in DOMAIN s_chunks
               /\ s_at[u] <= Len(s_chunks[u])
               /\ RecognisedUpTo(s_chunks[u], s_at[u], s_found[u])
               /\ s_thread'[u] = "ended" => s_at[u] = Len(s_chunks[u])
               /\ s_thread'[u] \in {"running", "ended"} => \A i \in 1..s_at[u] : s_outcome[s_chunks[u][i]] # "panic"
               /\ s_thread'[u] = "panicked" => Scanned!Panics(s_chunks[u])
    BY <1>1, <1>2, <1>3, <1>5, <2>1 DEF ThreadsExact
  <2>2. ASSUME NEW u \in Scanned!Hands, s_thread'[u] # "none"
        PROVE  RecognisedUpTo(s_chunks[u], s_at[u], s_found[u])'
               /\ (s_thread'[u] = "panicked" => Scanned!Panics(s_chunks[u])')
    <3>1. RecognisedUpTo(s_chunks[u], s_at[u], s_found[u])'
      BY <1>4, <2>1, <2>2 DEF RecognisedUpTo
    <3>2. s_thread'[u] = "panicked" => Scanned!Panics(s_chunks[u])'
      BY <1>4, <2>1, <2>2 DEF Scanned!Panics
    <3>. QED
      BY <3>1, <3>2
  <2>. QED
    BY <1>4, <2>1, <2>2 DEF ThreadsExact
<1>11. SpawnedInOrder'
  <2>1. ChunksSound(s_chunks)'
    BY <1>2, <1>4 DEF ChunksSound
  <2>2. \A u \in Scanned!Hands : (s_thread'[u] # "none" <=> s_thread[u] # "none")
                                 /\ (s_thread[u] \in {"ended", "panicked"} => s_thread'[u] = s_thread[u])
    BY <1>1, <1>5
  <2>. QED
    BY <1>1, <1>2, <1>4, <2>1, <2>2 DEF SpawnedInOrder
<1>12. VectorExact'
  <2>. DEFINE ended == {u \in Scanned!Hands : s_thread[u] = "ended"}
              chunk == InChunk(s_chunks[t])
  <2>1. InChunk(s_results) = UNION {InChunk(s_found[u]) : u \in ended}
        /\ \A u \in DOMAIN s_chunks : Scanned!Together(InChunk(s_chunks[u]))
    BY <1>1, <1>2 DEF VectorExact
  <2>2. {u \in Scanned!Hands : s_thread'[u] = "ended"} = ended \cup {t}
    BY <1>5
  <2>3. t \notin ended
    BY <1>1
  <2>4. ASSUME NEW u \in Scanned!Hands, u \in ended \cup {t}
        PROVE  u \in DOMAIN s_chunks /\ InChunk(s_found[u]) \subseteq InChunk(s_chunks[u])
    <3>1. u \in DOMAIN s_chunks /\ RecognisedUpTo(s_chunks[u], s_at[u], s_found[u]) /\ s_at[u] \in Nat /\ s_at[u] <= Len(s_chunks[u])
      BY <1>1, <1>2, <2>4 DEF ThreadsExact, ScanTypes
    <3>2. s_chunks[u] \in Seq(Nat)
      BY <1>2, <3>1 DEF ChunksSound
    <3>3. 1..s_at[u] \subseteq DOMAIN s_chunks[u]
      BY <3>1, <3>2
    <3>. QED
      BY <3>1, <3>3 DEF RecognisedUpTo, InChunk
  <2>5. InChunk(s_results') = InChunk(s_results) \cup InChunk(s_found[t])
    <3>1. PICK r, f, rf : r = s_results /\ f = s_found[t] /\ rf = r \o f
      OBVIOUS
    <3>2. r \in Seq(Nat) /\ f \in Seq(Nat)
      BY <1>6, <3>1
    <3>3. /\ \A i \in DOMAIN r : i \in DOMAIN rf /\ rf[i] = r[i]
          /\ \A i \in DOMAIN f : i + Len(r) \in DOMAIN rf /\ rf[i + Len(r)] = f[i]
          /\ \A i \in DOMAIN rf : i \in DOMAIN r \/ (i - Len(r) \in DOMAIN f /\ rf[i] = f[i - Len(r)])
      BY <3>1, <3>2, Joined
    <3>4. InChunk(rf) = InChunk(r) \cup InChunk(f)
      BY <3>3 DEF InChunk
    <3>. QED
      BY <1>4, <3>1, <3>4
  <2>6. InChunk(s_results') = UNION {InChunk(s_found'[u]) : u \in {w \in Scanned!Hands : s_thread'[w] = "ended"}}
    <3>. HIDE DEF ended
    <3>. QED
      BY <1>4, <2>1, <2>2, <2>5
  <2>7. InChunk(s_results) \cap chunk = {}
    <3>1. ASSUME NEW u \in ended PROVE InChunk(s_found[u]) \cap chunk = {}
      <4>1. u \in Scanned!Hands /\ u # t
        BY <2>3
      <4>2. u \in DOMAIN s_chunks /\ InChunk(s_found[u]) \subseteq InChunk(s_chunks[u])
        BY <2>4, <4>1
      <4>3. InChunk(s_chunks[u]) \cap chunk = {}
        BY <1>2, <1>3, <4>1, <4>2 DEF ChunksSound
      <4>. QED
        BY <4>2, <4>3
    <3>. HIDE DEF ended, chunk
    <3>. QED
      BY <2>1, <3>1
  <2>8. InChunk(s_found[t]) \subseteq chunk
    BY <2>4
  <2>9. ASSUME NEW u \in DOMAIN s_chunks, u # t
        PROVE  Scanned!Together(chunk)' /\ Scanned!Together(InChunk(s_chunks[u]))'
    <3>1. PICK P, Q : P = chunk /\ Q = InChunk(s_chunks[u])
      OBVIOUS
    <3>2. P \cap Q = {}
      BY <1>2, <1>3, <2>9, <3>1 DEF ChunksSound
    <3>3. InChunk(s_found[t]) \subseteq P /\ InChunk(s_results) \cap P = {} /\ Scanned!Together(Q)
      BY <2>1, <2>7, <2>8, <3>1
    <3>4. PICK f \in Seq(Nat) : f = s_found[t]
      BY <1>6
    <3>5. s_results' = s_results \o f /\ Scanned!Ascending(f) /\ InChunk(f) \subseteq P
      BY <1>4, <1>6, <3>3, <3>4
    <3>6. Scanned!Together(P)' /\ Scanned!Together(Q)'
      BY <1>1, <3>2, <3>3, <3>5, PutBehind
    <3>7. P = chunk' /\ Q = InChunk(s_chunks[u])'
      BY <1>4, <3>1 DEF InChunk
    <3>. QED
      BY <3>6, <3>7
  <2>10. Scanned!Together(chunk)'
    <3>1. PICK P : P = chunk
      OBVIOUS
    <3>2. PICK f \in Seq(Nat) : f = s_found[t]
      BY <1>6
    <3>3. s_results' = s_results \o f /\ Scanned!Ascending(f) /\ InChunk(f) \subseteq P /\ InChunk(s_results) \cap P = {}
      BY <1>4, <1>6, <2>7, <2>8, <3>1, <3>2
    <3>4. P \cap {} = {} /\ Scanned!Together({})
      BY DEF Scanned!Together
    <3>5. Scanned!Together(P)'
      BY <1>1, <3>3, <3>4, PutBehind
    <3>6. P = chunk'
      BY <1>4, <3>1 DEF InChunk
    <3>. QED
      BY <3>5, <3>6
  <2>11. \A u \in DOMAIN s_chunks' : Scanned!Together(InChunk(s_chunks[u]))'
    BY <1>4, <2>9, <2>10
  <2>. QED
    BY <2>6, <2>11 DEF VectorExact
<1>. QED
  BY <1>8, <1>9, <1>10, <1>11, <1>12 DEF ScanIInv

\* The scans of page_analysis.rs keep their inductive invariant: what each thread has
\* found of its chunk, and that chunks divide the pages.
THEOREM ScanInvariance == ASSUME Scanned!SoundConstants PROVE Scanned!Spec => []ScanIInv
<1>1. ASSUME ScanIInv, [Scanned!Next]_Scanned!vars PROVE ScanIInv'
  <2>1. CASE UNCHANGED Scanned!vars
    <3>1. ScanTypes' /\ NothingYet'
      BY <1>1, <2>1 DEF Scanned!vars, ScanIInv, ScanTypes, NothingYet
    <3>2. Alone'
      BY <1>1, <2>1 DEF Scanned!vars, ScanIInv, Alone, InBatchesOfNone, RecognisedUpTo, Scanned!Panics
    <3>3. ThreadsExact'
      <4>1. s_chunks' = s_chunks /\ s_at' = s_at /\ s_found' = s_found /\ s_pc' = s_pc
        BY <2>1 DEF Scanned!vars
      <4>2. ThreadsExact
        BY <1>1 DEF ScanIInv
      <4>3. s_outcome' = s_outcome /\ s_thread' = s_thread
        BY <2>1 DEF Scanned!vars
      <4>4. ASSUME NEW t \in Scanned!Hands, s_chunks # <<>>, s_thread[t] # "none"
            PROVE  RecognisedUpTo(s_chunks[t], s_at[t], s_found[t])'
        <5>1. RecognisedUpTo(s_chunks[t], s_at[t], s_found[t])
          BY <4>2, <4>4 DEF ThreadsExact
        <5>. QED
          BY <5>1, <4>1, <4>3 DEF RecognisedUpTo
      <4>5. ASSUME NEW t \in Scanned!Hands, Scanned!Panics(s_chunks[t]) PROVE Scanned!Panics(s_chunks[t])'
        BY <4>1, <4>3, <4>5 DEF Scanned!Panics
      <4>. QED
        BY <4>1, <4>2, <4>3, <4>4, <4>5 DEF ThreadsExact
    <3>4. SpawnedInOrder'
      BY <1>1, <2>1 DEF Scanned!vars, ScanIInv, SpawnedInOrder, ChunksSound
    <3>5. VectorExact'
      BY <1>1, <2>1 DEF Scanned!vars, ScanIInv, VectorExact, Scanned!Together
    <3>. QED
      BY <3>1, <3>2, <3>3, <3>4, <3>5 DEF ScanIInv
  <2>2. CASE Scanned!Next
    BY <1>1, <2>2, BeginKeeps, CallerPageKeeps, SpawnKeeps, JoinKeeps, ThreadPageKeeps, PublishKeeps
       DEF Scanned!Next, Scanned!CallerStep, Scanned!ThreadStep
  <2>. QED
    BY <1>1, <2>1, <2>2
<1>. QED
  BY <1>1, ScanInit, PTL DEF Scanned!Spec

\* What is found of a sequence that has been gone through.
LEMMA RecognisedAll ==
    ASSUME NEW pages \in Seq(Nat), NEW these, RecognisedUpTo(pages, Len(pages), these)
    PROVE  InChunk(these) = Scanned!Found(InChunk(pages))
<1>1. InChunk(these) = {pages[i] : i \in {k \in DOMAIN pages : s_outcome[pages[k]] = "text"}}
  BY DEF RecognisedUpTo
<1>. QED
  BY <1>1 DEF InChunk, Scanned!Found

\* Each page that was recognised is returned once, those of one thread together and in
\* order, whatever the order in which threads end; none is lost but by its own error or
\* by a panic in its thread.
THEOREM EachPageOnceAlways == ASSUME Scanned!SoundConstants PROVE Scanned!Spec => []Scanned!EachPageOnce
<1>1. ASSUME ScanIInv PROVE Scanned!EachPageOnce
  <2>1. ScanTypes /\ Alone /\ ThreadsExact /\ SpawnedInOrder /\ VectorExact
    BY <1>1 DEF ScanIInv
  <2>2. \A pages : Scanned!ToSet(pages) = InChunk(pages)
    BY DEF Scanned!ToSet, InChunk
  <2>3. ASSUME s_pc = "returned", s_chunks = <<>>
        PROVE  /\ Scanned!Ascending(s_results)
               /\ InChunk(s_results) = IF s_call.op = "batches" /\ s_call.limit = 0 THEN {} ELSE Scanned!Found(InChunk(s_scanned))
    <3>1. CASE InBatchesOfNone
      <4>1. s_results = <<>>
        BY <2>1, <2>3, <3>1 DEF Alone
      <4>2. Scanned!Ascending(<<>>) /\ InChunk(<<>>) = {}
        BY DEF Scanned!Ascending, InChunk
      <4>. QED
        BY <3>1, <4>1, <4>2 DEF InBatchesOfNone
    <3>2. CASE ~InBatchesOfNone
      <4>1. RecognisedUpTo(s_scanned, Len(s_scanned), s_results) /\ s_scanned \in Seq(Nat)
        BY <2>1, <2>3, <3>2 DEF Alone, ScanTypes, Scanned!SoundConstants
      <4>2. InChunk(s_results) = Scanned!Found(InChunk(s_scanned))
        BY <4>1, RecognisedAll
      <4>. QED
        BY <3>2, <4>1, <4>2 DEF RecognisedUpTo, InBatchesOfNone
    <3>. QED
      BY <3>1, <3>2
  <2>4. ASSUME s_pc = "returned", s_chunks # <<>>
        PROVE  /\ UNION {InChunk(s_chunks[t]) : t \in DOMAIN s_chunks} = InChunk(s_scanned)
               /\ InChunk(s_results) = UNION {Scanned!Found(InChunk(s_chunks[t])) :
                                                t \in {u \in DOMAIN s_chunks : ~Scanned!Panics(s_chunks[u])}}
               /\ \A t \in DOMAIN s_chunks : Scanned!Together(InChunk(s_chunks[t]))
               /\ \A t \in Scanned!Hands : s_thread[t] # "running"
    <3>1. ChunksSound(s_chunks) /\ s_joined = Len(s_chunks)
          /\ \A t \in 1..s_joined : t \in Scanned!Hands /\ s_thread[t] \in {"ended", "panicked"}
      BY <2>1, <2>4 DEF SpawnedInOrder
    <3>2. /\ InChunk(s_results) = UNION {InChunk(s_found[t]) : t \in {u \in Scanned!Hands : s_thread[u] = "ended"}}
          /\ \A t \in DOMAIN s_chunks : Scanned!Together(InChunk(s_chunks[t]))
      BY <2>1, <2>4 DEF VectorExact
    <3>3. DOMAIN s_chunks = 1..s_joined
      BY <3>1 DEF ChunksSound
    <3>4. ASSUME NEW t \in Scanned!Hands, s_thread[t] # "none"
          PROVE  t \in DOMAIN s_chunks /\ s_thread[t] \in {"ended", "panicked"}
      BY <2>1, <2>4, <3>1, <3>3, <3>4 DEF ThreadsExact
    <3>5. ASSUME NEW t \in DOMAIN s_chunks, s_thread[t] = "ended"
          PROVE  ~Scanned!Panics(s_chunks[t]) /\ InChunk(s_found[t]) = Scanned!Found(InChunk(s_chunks[t]))
      <4>1. /\ RecognisedUpTo(s_chunks[t], s_at[t], s_found[t]) /\ s_at[t] = Len(s_chunks[t])
            /\ \A i \in 1..s_at[t] : s_outcome[s_chunks[t][i]] # "panic"
        BY <2>1, <2>4, <3>1, <3>3, <3>5 DEF ThreadsExact
      <4>2. s_chunks[t] \in Seq(Nat)
        BY <3>1, <3>5 DEF ChunksSound
      <4>3. ~Scanned!Panics(s_chunks[t])
        BY <4>1, <4>2 DEF Scanned!Panics
      <4>. QED
        BY <4>1, <4>2, <4>3, RecognisedAll
    <3>6. ASSUME NEW t \in DOMAIN s_chunks, s_thread[t] # "ended" PROVE Scanned!Panics(s_chunks[t])
      BY <2>1, <2>4, <3>1, <3>3, <3>6 DEF ThreadsExact
    <3>7. {u \in Scanned!Hands : s_thread[u] = "ended"} = {u \in DOMAIN s_chunks : ~Scanned!Panics(s_chunks[u])}
      BY <3>1, <3>3, <3>4, <3>5, <3>6
    <3>8. InChunk(s_results) = UNION {Scanned!Found(InChunk(s_chunks[t])) :
                                        t \in {u \in DOMAIN s_chunks : ~Scanned!Panics(s_chunks[u])}}
      <4>1. \A t \in {u \in DOMAIN s_chunks : ~Scanned!Panics(s_chunks[u])} :
               InChunk(s_found[t]) = Scanned!Found(InChunk(s_chunks[t]))
        BY <3>5, <3>6
      <4>. QED
        BY <3>2, <3>7, <4>1
    <3>9. \A t \in Scanned!Hands : s_thread[t] # "running"
      BY <3>4
    <3>10. UNION {InChunk(s_chunks[t]) : t \in DOMAIN s_chunks} = InChunk(s_scanned)
      BY <3>1 DEF ChunksSound
    <3>. QED
      BY <3>2, <3>8, <3>9, <3>10
  <2>5. s_pc = "panicked" => Scanned!Panics(s_scanned) /\ s_chunks = <<>>
    BY <2>1 DEF Alone, SpawnedInOrder
  <2>. QED
    BY <2>2, <2>3, <2>4, <2>5 DEF Scanned!EachPageOnce
<1>. QED
  BY <1>1, ScanInvariance, PTL
=============================================================================
