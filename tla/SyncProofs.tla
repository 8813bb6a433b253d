----------------------------- MODULE SyncProofs -----------------------------
(***************************************************************************)
(* Proofs about EnterpriseSync.  The k-th audit entry is about the k-th    *)
(* record, and latest is a bound on the source time of what was applied:   *)
(* these two facts make the revision and the age of content inductive.     *)
(* A checkpoint is the fold of a prefix of the export: that makes a resumed *)
(* synchronisation the same as an uninterrupted one.                       *)
(***************************************************************************)
EXTENDS EnterpriseSync, FiniteSetTheorems, SequenceTheorems, WellFoundedInduction,
        TLAPS

\* Page n + 1 of an export.
PageOf(e, n) == SubSeq(e, End(n) + 1, End(n + 1))

\* The entries of a checkpoint that changed identity i.
Changes(c, i) ==
  {k \in DOMAIN c.audits :
     c.audits[k].identity = i /\ c.audits[k].disposition = "APPLIED"}

\* Entry by entry, what a checkpoint knows of the records of the export.
Faithful(e, c) ==
  /\ Len(c.audits) <= End(Pages)
  /\ \A k \in DOMAIN c.audits : c.audits[k].identity = e[k].identity

Counted(c) ==
  \A i \in Identity :
    IF c.states[i] = None THEN Changes(c, i) = {}
    ELSE c.states[i].revision = Cardinality(Changes(c, i))

Bounded(e, c) ==
  \A i \in Identity : \A k \in Changes(c, i) :
    e[k].updated <= c.states[i].latest

Ordered(e, c) ==
  \A i \in Identity : \A k, l \in Changes(c, i) :
    l < k /\ e[k].deletion = "ACTIVE" => e[l].updated <= e[k].updated

Good(e, c) == Faithful(e, c) /\ Counted(c) /\ Bounded(e, c) /\ Ordered(e, c)

\* How far the audits are.
Along ==
  /\ Len(checkpoint.audits) = End(checkpoint.next)
  /\ phase = "working" => Len(work.audits) = End(work.next) + position

SyncInv == SyncTypeOK /\ Good(export, work) /\ Good(export, checkpoint) /\ Along

-----------------------------------------------------------------------------
LEMMA EndType ==
  ASSUME NEW n \in 0..Pages
  PROVE  End(n) \in Nat
  BY SyncConstantsOK DEF End, Pages

LEMMA EndGrows ==
  ASSUME NEW n \in Nat, n < Pages
  PROVE  /\ End(n) \in Nat /\ End(n + 1) \in Nat /\ End(Pages) \in Nat
         /\ End(n) < End(n + 1)
         /\ End(n + 1) <= End(Pages)
<1>1. Pages \in Nat /\ n + 1 \in DOMAIN PageEnd /\ Pages \in DOMAIN PageEnd
  BY SyncConstantsOK DEF Pages
<1>2. End(n) \in Nat /\ End(n + 1) \in Nat \ {0} /\ End(Pages) \in Nat
  BY <1>1, SyncConstantsOK DEF End, Pages
<1>3. End(n) < End(n + 1)
  BY <1>1, <1>2, SyncConstantsOK DEF End, Pages
<1>4. End(n + 1) <= End(Pages)
  <2>1. CASE n + 1 = Pages
    BY <2>1, <1>2
  <2>2. CASE n + 1 < Pages
    BY <2>2, <1>1, <1>2, SyncConstantsOK DEF End, Pages
  <2>. QED  BY <2>1, <2>2, <1>1
<1>. QED  BY <1>2, <1>3, <1>4

\* A page is a part of the export.
LEMMA PageRecords ==
  ASSUME NEW e \in [1..End(Pages) -> Records], NEW n \in Nat, n < Pages
  PROVE  /\ Len(PageOf(e, n)) = End(n + 1) - End(n)
         /\ \A m \in 1..Len(PageOf(e, n)) :
              /\ PageOf(e, n)[m] = e[End(n) + m]
              /\ PageOf(e, n)[m] \in Records
              /\ End(n) + m \in 1..End(Pages)
<1>. DEFINE a == End(n)
            b == End(n + 1)
            page == PageOf(e, n)
<1>1. a \in Nat /\ b \in Nat /\ End(Pages) \in Nat /\ a < b /\ b <= End(Pages)
  BY EndGrows
<1>2. page = SubSeq(e, a + 1, b)
  BY DEF PageOf
<1>. HIDE DEF a, b, page
<1>3. a + 1 \in Int /\ b \in Int /\ \A m \in (a + 1)..b : e[m] \in Records
  BY <1>1
<1>4. /\ Len(page) = b - a
      /\ \A m \in 1..(b - a) : page[m] = e[a + m]
  <2>1. /\ Len(page) = IF a + 1 <= b THEN b - (a + 1) + 1 ELSE 0
        /\ \A m \in 1..(b - (a + 1) + 1) : page[m] = e[a + 1 + m - 1]
    BY ONLY <1>2, <1>3, SubSeqProperties
  <2>2. Len(page) = b - a
    BY <2>1, <1>1
  <2>3. ASSUME NEW m \in 1..(b - a)
        PROVE  page[m] = e[a + m]
    <3>1. m \in 1..(b - (a + 1) + 1) /\ a + 1 + m - 1 = a + m
      BY <1>1
    <3>. QED  BY ONLY <2>1, <3>1
  <2>. QED  BY <2>2, <2>3
<1>5. \A m \in 1..(b - a) : a + m \in 1..End(Pages)
  BY <1>1
<1>. QED  BY <1>3, <1>4, <1>5, <1>1 DEF a, b, page

-----------------------------------------------------------------------------
\* What the reconciliation does to the state of an identity

LEMMA VerdictCases ==
  ASSUME NEW prior \in SourceState \cup {None}, NEW r \in Record
  PROVE  /\ Verdict(prior, r) \in Disposition
         /\ prior = None => ~Repeated(prior, r)
         /\ Verdict(prior, r) = "APPLIED" =>
              ~Repeated(prior, r) /\ ~Stale(prior, r)
         /\ Verdict(prior, r) = "NO_CHANGE" /\ ~Repeated(prior, r) => prior # None
<1>1. SeenBefore(prior) \in [Version -> Hash \cup {None}]
  BY DEF SeenBefore, NothingSeen, SourceState
<1>2. prior = None => ~Repeated(prior, r)
  BY DEF Repeated, SeenBefore, NothingSeen, Record
<1>. QED
  BY <1>1, <1>2 DEF Verdict, Disposition, Stale, Unchanged, Record, Mapping

LEMMA StateAfterType ==
  ASSUME NEW prior \in SourceState \cup {None}, NEW r \in Record
  PROVE  /\ StateAfter(prior, r) \in SourceState \cup {None}
         /\ Entry(prior, r) \in Audit
<1>1. Observed(prior, r) \in [Version -> Hash \cup {None}]
  BY DEF Observed, SeenBefore, NothingSeen, SourceState, Record
<1>2. Verdict(prior, r) = "APPLIED" => StateAfter(prior, r) = Applied(prior, r)
  BY VerdictCases DEF StateAfter
<1>3. Applied(prior, r) \in SourceState
  BY <1>1, SyncConstantsOK DEF Applied, Later, SourceState, Record
<1>4. prior # None => Refreshed(prior, r) \in SourceState
  BY <1>1, SyncConstantsOK DEF Refreshed, Later, SourceState, Record
<1>5. prior # None => [prior EXCEPT !.seen = Observed(prior, r)] \in SourceState
  BY <1>1 DEF SourceState
<1>6. StateAfter(prior, r) \in SourceState \cup {None}
  BY <1>3, <1>4, <1>5, VerdictCases DEF StateAfter
<1>7. Entry(prior, r) \in Audit
  <2>1. Verdict(prior, r) = "APPLIED" => StateAfter(prior, r).revision \in Nat
    BY <1>2, <1>3 DEF SourceState
  <2>2. prior # None => prior.revision \in Nat
    BY DEF SourceState
  <2>. QED  BY <2>1, <2>2, VerdictCases DEF Entry, Audit, Record
<1>. QED  BY <1>6, <1>7

\* An applied record is the next revision, and active content is not older than
\* anything applied before it.
LEMMA AppliedEffect ==
  ASSUME NEW prior \in SourceState \cup {None}, NEW r \in Record,
         Verdict(prior, r) = "APPLIED"
  PROVE  /\ StateAfter(prior, r) # None
         /\ StateAfter(prior, r).revision =
              IF prior = None THEN 1 ELSE prior.revision + 1
         /\ r.updated <= StateAfter(prior, r).latest
         /\ prior # None => prior.latest <= StateAfter(prior, r).latest
         /\ prior # None /\ r.deletion = "ACTIVE" => prior.latest <= r.updated
<1>1. StateAfter(prior, r) = Applied(prior, r)
  BY VerdictCases DEF StateAfter
<1>2. Observed(prior, r) \in [Version -> Hash \cup {None}]
  BY DEF Observed, SeenBefore, NothingSeen, SourceState, Record
<1>3. Applied(prior, r) \in SourceState
  BY <1>2, SyncConstantsOK DEF Applied, Later, SourceState, Record
<1>4. r.updated \in Nat /\ (prior # None => prior.latest \in Nat)
  BY SyncConstantsOK DEF Record, SourceState
<1>5. ~Stale(prior, r)
  BY VerdictCases
<1>6. Applied(prior, r) # None
  BY <1>3, SyncConstantsOK
<1>7. /\ Applied(prior, r).revision = IF prior = None THEN 1 ELSE prior.revision + 1
      /\ Applied(prior, r).latest =
           IF prior = None THEN r.updated ELSE Later(prior.latest, r.updated)
  BY DEF Applied
<1>. QED  BY <1>1, <1>4, <1>5, <1>6, <1>7 DEF Stale, Later

\* Any other record leaves the revision alone and keeps the bound.
LEMMA OtherEffect ==
  ASSUME NEW prior \in SourceState \cup {None}, NEW r \in Record,
         Verdict(prior, r) # "APPLIED"
  PROVE  /\ prior = None => StateAfter(prior, r) = None
         /\ prior # None =>
              /\ StateAfter(prior, r) # None
              /\ StateAfter(prior, r).revision = prior.revision
              /\ prior.latest <= StateAfter(prior, r).latest
<1>1. prior = None => StateAfter(prior, r) = None
  BY VerdictCases DEF StateAfter
<1>2. ASSUME prior # None
      PROVE  /\ StateAfter(prior, r) # None
             /\ StateAfter(prior, r).revision = prior.revision
             /\ prior.latest <= StateAfter(prior, r).latest
  <2>1. prior \in SourceState /\ prior.latest \in Nat /\ r.updated \in Nat
    BY <1>2, SyncConstantsOK DEF SourceState, Record
  <2>2. Observed(prior, r) \in [Version -> Hash \cup {None}]
    BY DEF Observed, SeenBefore, NothingSeen, SourceState, Record
  <2>3. CASE Repeated(prior, r)
    BY <2>3, <2>1, <1>2 DEF StateAfter
  <2>4. CASE ~Repeated(prior, r) /\ Verdict(prior, r) = "NO_CHANGE"
    <3>1. StateAfter(prior, r) = Refreshed(prior, r)
      BY <2>4 DEF StateAfter
    <3>2. Refreshed(prior, r) \in SourceState
      BY <2>1, <2>2, SyncConstantsOK DEF Refreshed, Later, SourceState, Record
    <3>3. /\ Refreshed(prior, r).revision = prior.revision
          /\ Refreshed(prior, r).latest = Later(prior.latest, r.updated)
      BY <2>1 DEF Refreshed, SourceState
    <3>. QED  BY <3>1, <3>2, <3>3, <2>1, SyncConstantsOK DEF Later
  <2>5. CASE ~Repeated(prior, r) /\ Verdict(prior, r) # "NO_CHANGE"
    <3>1. StateAfter(prior, r) = [prior EXCEPT !.seen = Observed(prior, r)]
      BY <2>5, <1>2 DEF StateAfter
    <3>2. [prior EXCEPT !.seen = Observed(prior, r)] \in SourceState
      BY <2>1, <2>2 DEF SourceState
    <3>3. /\ [prior EXCEPT !.seen = Observed(prior, r)].revision = prior.revision
          /\ [prior EXCEPT !.seen = Observed(prior, r)].latest = prior.latest
      BY <2>1 DEF SourceState
    <3>. QED  BY <3>1, <3>2, <3>3, <2>1, SyncConstantsOK
  <2>. QED  BY <2>3, <2>4, <2>5
<1>. QED  BY <1>1, <1>2

-----------------------------------------------------------------------------
\* One more record

\* The changes of the identity of a record are the ones before, and its own
\* entry if it was applied; those of another identity are the ones before.
LEMMA ReconciledChanges ==
  ASSUME NEW c \in Checkpoint, NEW r \in Record, NEW i \in Identity
  PROVE  LET d == Reconciled(c, r)
             k == Len(c.audits) + 1
             v == Verdict(c.states[r.identity], r)
         IN /\ d \in Checkpoint
            /\ d.next = c.next
            /\ Len(d.audits) = k
            /\ \A l \in 1..Len(c.audits) : d.audits[l] = c.audits[l]
            /\ d.audits[k].identity = r.identity
            /\ Changes(d, i) =
                 IF i = r.identity /\ v = "APPLIED" THEN Changes(c, i) \cup {k}
                 ELSE Changes(c, i)
            /\ d.states[i] = IF i = r.identity THEN StateAfter(c.states[i], r)
                              ELSE c.states[i]
<1>. DEFINE prior == c.states[r.identity]
            d == Reconciled(c, r)
            k == Len(c.audits) + 1
            entry == Entry(prior, r)
<1>1. prior \in SourceState \cup {None} /\ r.identity \in Identity
  BY DEF Checkpoint, Record
<1>2. StateAfter(prior, r) \in SourceState \cup {None} /\ entry \in Audit
  BY <1>1, StateAfterType
<1>3. c.audits \in Seq(Audit) /\ c.states \in [Identity -> SourceState \cup {None}]
  BY DEF Checkpoint
<1>4. /\ d.states = [c.states EXCEPT ![r.identity] = StateAfter(prior, r)]
      /\ d.audits = Append(c.audits, entry)
      /\ d.next = c.next
  BY DEF Reconciled, Checkpoint
<1>5. d = [next |-> d.next, states |-> d.states, audits |-> d.audits]
  BY DEF Reconciled
<1>6. entry.identity = r.identity /\ entry.disposition = Verdict(prior, r)
  BY DEF Entry
<1>. HIDE DEF d, entry, prior
<1>7. d.audits \in Seq(Audit) /\ Len(d.audits) = k
  BY <1>2, <1>3, <1>4
<1>8. \A l \in 1..Len(c.audits) : d.audits[l] = c.audits[l]
  BY <1>2, <1>3, <1>4
<1>9. d.audits[k] = entry
  BY <1>2, <1>3, <1>4
<1>10. d.states \in [Identity -> SourceState \cup {None}]
  BY <1>1, <1>2, <1>3, <1>4
<1>11. d \in Checkpoint
  BY <1>4, <1>5, <1>7, <1>10 DEF Checkpoint
<1>12. d.states[i] = IF i = r.identity THEN StateAfter(prior, r) ELSE c.states[i]
  BY <1>3, <1>4
<1>13. DOMAIN d.audits = DOMAIN c.audits \cup {k} /\ DOMAIN c.audits = 1..Len(c.audits)
  BY <1>3, <1>7
<1>14. Changes(d, i) = IF i = r.identity /\ Verdict(prior, r) = "APPLIED"
                       THEN Changes(c, i) \cup {k} ELSE Changes(c, i)
  BY <1>6, <1>8, <1>9, <1>13 DEF Changes
<1>. QED  BY <1>4, <1>6, <1>7, <1>8, <1>9, <1>11, <1>12, <1>14 DEF d, prior

LEMMA ChangesFinite ==
  ASSUME NEW c \in Checkpoint, NEW i \in Identity
  PROVE  /\ IsFiniteSet(Changes(c, i))
         /\ Changes(c, i) \subseteq 1..Len(c.audits)
<1>1. Len(c.audits) \in Nat /\ DOMAIN c.audits = 1..Len(c.audits)
  BY DEF Checkpoint
<1>2. IsFiniteSet(1..Len(c.audits))
  <2>. DEFINE n == Len(c.audits)
  <2>1. 1 \in Int /\ n \in Int
    BY <1>1
  <2>. HIDE DEF n
  <2>2. IsFiniteSet(1..n)
    BY <2>1, FS_Interval
  <2>. QED  BY <2>2 DEF n
<1>3. Changes(c, i) \subseteq 1..Len(c.audits)
  BY <1>1 DEF Changes
<1>. QED  BY <1>2, <1>3, FS_Subset

\* Reconciling the next record of the export keeps a checkpoint good.
LEMMA ReconciledGood ==
  ASSUME NEW c \in Checkpoint, Good(export, c),
         export \in [1..End(Pages) -> Records],
         End(Pages) \in Nat, Len(c.audits) < End(Pages),
         NEW r, r = export[Len(c.audits) + 1]
  PROVE  Good(export, Reconciled(c, r))
<1>. DEFINE d == Reconciled(c, r)
            k == Len(c.audits) + 1
            prior == c.states[r.identity]
<1>1. Len(c.audits) \in Nat /\ k \in 1..End(Pages) /\ k \in Nat
  BY DEF Checkpoint
<1>2. r \in Record /\ r = export[k]
  BY <1>1, SyncConstantsOK
<1>3. r.identity \in Identity /\ r.updated \in Nat
  BY <1>2, SyncConstantsOK DEF Record
<1>4. \A n \in 1..End(Pages) : export[n].updated \in Nat
  <2>1. \A n \in 1..End(Pages) : export[n] \in Record
    BY SyncConstantsOK
  <2>2. \A e \in Record : e.updated \in Nat
    BY SyncConstantsOK DEF Record
  <2>. QED  BY <2>1, <2>2
<1>5. prior \in SourceState \cup {None}
  BY <1>3 DEF Checkpoint
<1>6. \A i \in Identity :
        /\ IsFiniteSet(Changes(c, i))
        /\ Changes(c, i) \subseteq 1..Len(c.audits)
        /\ k \notin Changes(c, i)
  BY <1>1, ChangesFinite
<1>7. \A i \in Identity :
        /\ Changes(d, i) = IF i = r.identity /\ Verdict(prior, r) = "APPLIED"
                           THEN Changes(c, i) \cup {k} ELSE Changes(c, i)
        /\ d.states[i] = IF i = r.identity THEN StateAfter(c.states[i], r)
                          ELSE c.states[i]
  BY <1>2, ReconciledChanges
<1>8. Faithful(export, d)
  <2>1. /\ d \in Checkpoint
        /\ Len(d.audits) = k
        /\ \A l \in 1..Len(c.audits) : d.audits[l] = c.audits[l]
        /\ d.audits[k].identity = r.identity
    BY <1>2, <1>3, ReconciledChanges
  <2>2. DOMAIN d.audits = 1..k /\ DOMAIN c.audits = 1..Len(c.audits)
    BY <2>1 DEF Checkpoint
  <2>3. \A l \in DOMAIN c.audits : c.audits[l].identity = export[l].identity
    BY DEF Good, Faithful
  <2>. HIDE DEF d
  <2>4. \A l \in 1..k : l = k \/ l \in 1..Len(c.audits)
    BY <1>1
  <2>5. \A l \in 1..k : d.audits[l].identity = export[l].identity
    <3>. TAKE l \in 1..k
    <3>1. CASE l = k
      BY <3>1, <2>1, <1>2
    <3>2. CASE l \in 1..Len(c.audits)
      BY <3>2, <2>1, <2>2, <2>3
    <3>. QED  BY <3>1, <3>2, <2>4
  <2>6. Len(d.audits) <= End(Pages)
    BY <2>1, <1>1
  <2>. QED  BY <2>2, <2>5, <2>6 DEF Faithful
<1>. HIDE DEF d, prior
<1>9. Counted(d)
  <2>. SUFFICES ASSUME NEW i \in Identity
                PROVE  IF d.states[i] = None THEN Changes(d, i) = {}
                       ELSE d.states[i].revision = Cardinality(Changes(d, i))
    BY DEF Counted
  <2>1. IF c.states[i] = None THEN Changes(c, i) = {}
        ELSE c.states[i].revision = Cardinality(Changes(c, i))
    BY DEF Good, Counted
  <2>2. Cardinality(Changes(c, i) \cup {k}) = Cardinality(Changes(c, i)) + 1
    BY <1>6, FS_AddElement
  <2>3. c.states[i] = None => Cardinality(Changes(c, i)) = 0
    BY <2>1, FS_EmptySet
  <2>4. CASE i # r.identity
    BY <2>4, <2>1, <1>7
  <2>5. CASE i = r.identity /\ Verdict(prior, r) # "APPLIED"
    <3>1. /\ Changes(d, i) = Changes(c, i) /\ d.states[i] = StateAfter(prior, r)
          /\ prior = c.states[i]
      BY <2>5, <1>7 DEF prior
    <3>2. /\ prior = None => StateAfter(prior, r) = None
          /\ prior # None => /\ StateAfter(prior, r) # None
                             /\ StateAfter(prior, r).revision = prior.revision
      BY <2>5, <1>2, <1>5, OtherEffect
    <3>. QED  BY <3>1, <3>2, <2>1
  <2>6. CASE i = r.identity /\ Verdict(prior, r) = "APPLIED"
    <3>1. Changes(d, i) = Changes(c, i) \cup {k} /\ d.states[i] = StateAfter(prior, r)
      BY <2>6, <1>7 DEF prior
    <3>2. /\ d.states[i] # None
          /\ d.states[i].revision = IF prior = None THEN 1 ELSE prior.revision + 1
      BY <3>1, <2>6, <1>2, <1>5, AppliedEffect
    <3>3. prior = c.states[i]
      BY <2>6 DEF prior
    <3>. QED  BY <3>1, <3>2, <3>3, <2>1, <2>2, <2>3
  <2>. QED  BY <2>4, <2>5, <2>6
<1>10. ASSUME NEW i \in Identity, NEW n \in Changes(c, i)
       PROVE  /\ c.states[i] # None
              /\ c.states[i] \in SourceState
              /\ n \in 1..Len(c.audits)
              /\ export[n].updated \in Nat
              /\ c.states[i].latest \in Nat
              /\ export[n].updated <= c.states[i].latest
  <2>1. c.states[i] # None
    BY <1>10 DEF Good, Counted
  <2>2. c.states[i] \in SourceState
    BY <2>1 DEF Checkpoint
  <2>3. n \in 1..Len(c.audits) /\ export[n].updated \in Nat
    BY <1>1, <1>4, <1>6
  <2>4. c.states[i].latest \in Nat
    BY <2>2, SyncConstantsOK DEF SourceState
  <2>5. export[n].updated <= c.states[i].latest
    BY DEF Good, Bounded
  <2>. QED  BY <2>1, <2>2, <2>3, <2>4, <2>5
<1>11. Bounded(export, d)
  <2>. SUFFICES ASSUME NEW i \in Identity, NEW n \in Changes(d, i)
                PROVE  export[n].updated <= d.states[i].latest
    BY DEF Bounded
  <2>1. CASE i # r.identity
    BY <2>1, <1>7, <1>10
  <2>2. CASE i = r.identity /\ Verdict(prior, r) # "APPLIED"
    <3>1. n \in Changes(c, i) /\ d.states[i] = StateAfter(prior, r) /\ prior = c.states[i]
      BY <2>2, <1>7 DEF prior
    <3>2. /\ prior.latest <= StateAfter(prior, r).latest
          /\ StateAfter(prior, r) # None
      BY <3>1, <2>2, <1>2, <1>5, <1>10, OtherEffect
    <3>3. StateAfter(prior, r).latest \in Nat
      BY <3>2, <1>2, <1>5, StateAfterType, SyncConstantsOK DEF SourceState
    <3>. QED  BY <3>1, <3>2, <3>3, <1>10
  <2>3. CASE i = r.identity /\ Verdict(prior, r) = "APPLIED"
    <3>1. /\ n \in Changes(c, i) \cup {k}
          /\ d.states[i] = StateAfter(prior, r) /\ prior = c.states[i]
      BY <2>3, <1>7 DEF prior
    <3>2. /\ StateAfter(prior, r) # None
          /\ r.updated <= StateAfter(prior, r).latest
          /\ prior # None => prior.latest <= StateAfter(prior, r).latest
      BY <2>3, <1>2, <1>5, AppliedEffect
    <3>3. StateAfter(prior, r).latest \in Nat
      BY <3>2, <1>2, <1>5, StateAfterType, SyncConstantsOK DEF SourceState
    <3>4. CASE n = k
      BY <3>4, <3>1, <3>2, <1>2
    <3>5. CASE n \in Changes(c, i)
      BY <3>1, <3>2, <3>3, <3>5, <1>10
    <3>. QED  BY <3>1, <3>4, <3>5
  <2>. QED  BY <2>1, <2>2, <2>3
<1>12. Ordered(export, d)
  <2>. SUFFICES ASSUME NEW i \in Identity, NEW n \in Changes(d, i),
                       NEW l \in Changes(d, i),
                       l < n, export[n].deletion = "ACTIVE"
                PROVE  export[l].updated <= export[n].updated
    BY DEF Ordered
  <2>1. CASE n \in Changes(c, i) /\ l \in Changes(c, i)
    BY <2>1 DEF Good, Ordered
  <2>2. CASE n \notin Changes(c, i)
    <3>1. n = k /\ i = r.identity /\ Verdict(prior, r) = "APPLIED" /\ prior = c.states[i]
      BY <2>2, <1>7 DEF prior
    <3>2. l \in Changes(c, i)
      <4>1. l # k
        BY <3>1, <1>1
      <4>. QED  BY <4>1, <3>1, <1>7
    <3>3. prior # None /\ prior.latest <= r.updated
      BY <3>1, <3>2, <1>2, <1>5, <1>10, AppliedEffect
    <3>4. /\ export[l].updated \in Nat /\ prior.latest \in Nat
          /\ export[l].updated <= prior.latest
      BY <3>1, <3>2, <1>10
    <3>5. export[n] = r
      BY <3>1, <1>2
    <3>. QED  BY ONLY <3>3, <3>4, <3>5, <1>3
  <2>3. CASE n \in Changes(c, i) /\ l \notin Changes(c, i)
    <3>1. l = k
      BY <2>3, <1>7
    <3>2. n \in 1..Len(c.audits)
      BY <2>3, <1>10
    <3>. QED  BY <3>1, <3>2, <1>1
  <2>. QED  BY <2>1, <2>2, <2>3
<1>. QED  BY <1>8, <1>9, <1>11, <1>12 DEF Good, d

-----------------------------------------------------------------------------
\* The invariant

LEMMA Beginning ==
  ASSUME SyncInit
  PROVE  SyncInv
<1>1. Pages \in Nat /\ End(0) = 0 /\ End(Pages) \in Nat
  BY SyncConstantsOK, EndType DEF End, Pages
<1>2. NoCheckpoint \in Checkpoint /\ NoCheckpoint.next = 0 /\ Len(NoCheckpoint.audits) = 0
  BY <1>1 DEF NoCheckpoint, Checkpoint
<1>3. /\ DOMAIN NoCheckpoint.audits = {}
      /\ \A i \in Identity : NoCheckpoint.states[i] = None
  BY DEF NoCheckpoint
<1>4. \A i \in Identity : Changes(NoCheckpoint, i) = {}
  BY <1>3 DEF Changes
<1>5. Good(export, NoCheckpoint)
  BY <1>1, <1>2, <1>3, <1>4 DEF Good, Faithful, Counted, Bounded, Ordered
<1>6. 0 \in 0..(IF work.next < Pages THEN Len(Page) ELSE 0)
  <2>1. CASE work.next < Pages
    <3>1. work.next = 0 /\ work.next \in Nat
      BY <1>2 DEF SyncInit
    <3>2. Len(PageOf(export, work.next)) = End(work.next + 1) - End(work.next)
      BY <3>1, <2>1, PageRecords DEF SyncInit
    <3>3. Page = PageOf(export, work.next)
      BY DEF Page, PageOf
    <3>. QED  BY <3>1, <3>2, <3>3, <2>1, EndGrows
  <2>. QED  BY <2>1
<1>7. SyncTypeOK
  BY <1>2, <1>6, SyncConstantsOK DEF SyncInit, SyncTypeOK
<1>8. Along
  BY <1>1, <1>2 DEF SyncInit, Along
<1>. QED  BY <1>5, <1>7, <1>8 DEF SyncInit, SyncInv

\* The records of the page at work are the next ones of the export.
LEMMA AtWork ==
  ASSUME SyncTypeOK, work.next < Pages
  PROVE  /\ work.next \in Nat /\ End(work.next) \in Nat /\ End(Pages) \in Nat
         /\ Len(Page) = End(work.next + 1) - End(work.next)
         /\ Len(Page) \in Nat
         /\ End(work.next) + Len(Page) <= End(Pages)
         /\ \A m \in 1..Len(Page) :
              Page[m] = export[End(work.next) + m] /\ Page[m] \in Record
<1>1. work.next \in Nat
  BY DEF SyncTypeOK, Checkpoint
<1>2. Page = PageOf(export, work.next)
  BY DEF Page, PageOf
<1>3. /\ Len(Page) = End(work.next + 1) - End(work.next)
      /\ \A m \in 1..Len(Page) : /\ Page[m] = export[End(work.next) + m]
                                 /\ Page[m] \in Records
  BY <1>1, <1>2, PageRecords DEF SyncTypeOK
<1>. QED  BY <1>1, <1>3, EndGrows, SyncConstantsOK

LEMMA RecordStep ==
  ASSUME SyncInv, ReconcileRecord
  PROVE  SyncInv'
<1>. DEFINE r == Page[position + 1]
<1>1. /\ SyncTypeOK /\ work.next < Pages /\ phase = "working"
      /\ position < Len(Page) /\ position \in Nat
  BY AtWork DEF SyncInv, ReconcileRecord, InPage, SyncTypeOK
<1>2. position + 1 \in 1..Len(Page)
  BY <1>1, AtWork
<1>3. Len(work.audits) = End(work.next) + position
  BY <1>1 DEF SyncInv, Along
<1>4. r = export[Len(work.audits) + 1] /\ r \in Record
  <2>1. r = export[End(work.next) + (position + 1)] /\ r \in Record
    BY <1>1, <1>2, AtWork
  <2>2. End(work.next) + (position + 1) = Len(work.audits) + 1
    BY <1>1, <1>3, AtWork
  <2>. QED  BY <2>1, <2>2
<1>5. Len(work.audits) < End(Pages) /\ End(Pages) \in Nat
  BY <1>1, <1>3, AtWork
<1>6. /\ work \in Checkpoint /\ Good(export, work) /\ Good(export, checkpoint) /\ checkpoint \in Checkpoint
      /\ export \in [1..End(Pages) -> Records]
  BY DEF SyncInv, SyncTypeOK
<1>. HIDE DEF r
<1>7. Good(export, Reconciled(work, r))
  BY <1>4, <1>5, <1>6, ReconciledGood
<1>8. /\ Reconciled(work, r) \in Checkpoint
      /\ Reconciled(work, r).next = work.next
      /\ Len(Reconciled(work, r).audits) = Len(work.audits) + 1
  <2>1. r.identity \in Identity
    BY <1>4 DEF Record
  <2>. QED  BY <2>1, <1>4, <1>6, ReconciledChanges
<1>9. work' = Reconciled(work, r) /\ position' = position + 1
      /\ UNCHANGED <<export, phase, calls, checkpoint>>
  BY DEF ReconcileRecord, r
<1>10. Good(export', work') /\ Good(export', checkpoint')
  BY <1>6, <1>7, <1>9
<1>11. work'.next = work.next /\ Page' = Page
  BY <1>8, <1>9 DEF Page
<1>12. SyncTypeOK'
  BY <1>1, <1>2, <1>6, <1>8, <1>9, <1>11 DEF SyncTypeOK
<1>13. Along'
  BY <1>1, <1>3, <1>8, <1>9, AtWork DEF Along, SyncInv
<1>. QED  BY <1>10, <1>12, <1>13 DEF SyncInv

\* Nothing of it depends on the number of the next page.
LEMMA GoodKept ==
  ASSUME NEW e, NEW c, NEW d,
         d.audits = c.audits, d.states = c.states, Good(e, c)
  PROVE  Good(e, d)
<1>1. \A i \in Identity : Changes(d, i) = Changes(c, i)
  BY DEF Changes
<1>. QED  BY <1>1 DEF Good, Faithful, Counted, Bounded, Ordered

LEMMA CommitStep ==
  ASSUME SyncInv, CommitPage
  PROVE  SyncInv'
<1>1. /\ SyncTypeOK /\ work.next < Pages /\ phase = "working" /\ position = Len(Page)
      /\ work \in Checkpoint /\ work.next \in Nat /\ Pages \in Nat
  BY SyncConstantsOK, AtWork DEF SyncInv, CommitPage, InPage, SyncTypeOK, Pages
<1>2. /\ work'.next = work.next + 1 /\ work'.audits = work.audits
      /\ work'.states = work.states /\ work' \in Checkpoint
  BY <1>1 DEF CommitPage, Checkpoint
<1>3. position' = 0 /\ UNCHANGED <<export, phase, calls, checkpoint>>
  BY DEF CommitPage
<1>4. Good(export', work') /\ Good(export', checkpoint')
  BY <1>2, <1>3, GoodKept DEF SyncInv
<1>5. work'.next < Pages => Len(Page') \in Nat
  <2>. SUFFICES ASSUME work'.next < Pages
                PROVE  Len(Page') \in Nat
    OBVIOUS
  <2>1. work'.next \in Nat /\ export' \in [1..End(Pages) -> Records]
    BY <1>1, <1>2, <1>3 DEF SyncTypeOK
  <2>2. Page' = PageOf(export', work'.next)
    BY DEF Page, PageOf
  <2>3. Len(Page') = End(work'.next + 1) - End(work'.next)
    BY <2>1, <2>2, PageRecords
  <2>. QED  BY <2>1, <2>3, EndGrows
<1>6. SyncTypeOK'
  BY <1>1, <1>2, <1>3, <1>5 DEF SyncTypeOK
<1>7. Len(work'.audits) = End(work'.next)
  <2>1. Len(work.audits) = End(work.next) + position
    BY <1>1 DEF SyncInv, Along
  <2>2. position = End(work.next + 1) - End(work.next)
    BY <1>1, AtWork
  <2>. QED  BY <2>1, <2>2, <1>1, <1>2, EndGrows
<1>8. End(work'.next) \in Nat
  BY <1>1, <1>2, EndGrows
<1>9. Along'
  BY <1>3, <1>7, <1>8 DEF Along, SyncInv
<1>. QED  BY <1>4, <1>6, <1>9 DEF SyncInv

LEMMA StartStep ==
  ASSUME SyncInv, Start
  PROVE  SyncInv'
<1>1. /\ SyncTypeOK /\ checkpoint \in Checkpoint /\ checkpoint.next \in Nat
      /\ calls + 1 \in 0..MaxCalls
  BY SyncConstantsOK DEF SyncInv, Start, SyncTypeOK, Checkpoint
<1>2. /\ work' = checkpoint /\ position' = 0 /\ phase' = "working"
      /\ calls' = calls + 1 /\ UNCHANGED <<export, checkpoint>>
  BY DEF Start
<1>3. Good(export', work') /\ Good(export', checkpoint')
  BY <1>2 DEF SyncInv
<1>4. work'.next < Pages => Len(Page') \in Nat
  <2>. SUFFICES ASSUME work'.next < Pages
                PROVE  Len(Page') \in Nat
    OBVIOUS
  <2>1. work'.next \in Nat /\ export' \in [1..End(Pages) -> Records]
    BY <1>1, <1>2 DEF SyncTypeOK
  <2>2. Page' = PageOf(export', work'.next)
    BY DEF Page, PageOf
  <2>3. Len(Page') = End(work'.next + 1) - End(work'.next)
    BY <2>1, <2>2, PageRecords
  <2>. QED  BY <2>1, <2>3, EndGrows
<1>5. SyncTypeOK'
  BY <1>1, <1>2, <1>4 DEF SyncTypeOK
<1>6. End(checkpoint.next) \in Nat
  BY <1>1, EndType DEF Checkpoint
<1>7. Along'
  BY <1>2, <1>6 DEF Along, SyncInv
<1>. QED  BY <1>3, <1>5, <1>7 DEF SyncInv

LEMMA ReturnStep ==
  ASSUME SyncInv, Return \/ ReadFails \/ Interrupt
  PROVE  SyncInv'
<1>1. /\ SyncTypeOK /\ phase = "working" /\ work \in Checkpoint
      /\ Len(work.audits) = End(work.next) + position
      /\ End(work.next) \in Nat
  BY EndType DEF SyncInv, Return, ReadFails, Interrupt, InPage, SyncTypeOK, Along, Checkpoint
<1>2. /\ phase' = "idle" /\ UNCHANGED <<export, calls, work, position>>
      /\ checkpoint' = checkpoint \/ (checkpoint' = work /\ position = 0)
  BY DEF Return, ReadFails, Interrupt
<1>3. Good(export', work') /\ Good(export', checkpoint')
  BY <1>2 DEF SyncInv
<1>4. SyncTypeOK'
  BY <1>1, <1>2 DEF SyncTypeOK, Page
<1>5. Along'
  <2>1. phase' # "working"
    BY <1>2
  <2>2. Len(checkpoint'.audits) = End(checkpoint'.next)
    BY <1>1, <1>2 DEF SyncInv, Along
  <2>. QED  BY <2>1, <2>2 DEF Along
<1>. QED  BY <1>3, <1>4, <1>5 DEF SyncInv

LEMMA SyncInvHolds == SyncSpec => []SyncInv
<1>1. SyncInit => SyncInv
  BY Beginning
<1>2. SyncInv /\ [SyncNext]_syncVars => SyncInv'
  <2>. SUFFICES ASSUME SyncInv, [SyncNext]_syncVars
                PROVE  SyncInv'
    OBVIOUS
  <2>1. CASE Start
    BY <2>1, StartStep
  <2>2. CASE ReconcileRecord
    BY <2>2, RecordStep
  <2>3. CASE CommitPage
    BY <2>3, CommitStep
  <2>4. CASE Return \/ ReadFails \/ Interrupt
    BY <2>4, ReturnStep
  <2>5. CASE UNCHANGED syncVars
    BY <2>5 DEF syncVars, SyncInv, SyncTypeOK, Page, Along
  <2>. QED  BY <2>1, <2>2, <2>3, <2>4, <2>5 DEF SyncNext
<1>. QED  BY <1>1, <1>2, PTL DEF SyncSpec

-----------------------------------------------------------------------------
\* Every variable has its type: a call never passes the end of its page, nor
\* the last page of the export (reconcile_enterprise_pages).
THEOREM SyncTypeCorrect == SyncSpec => []SyncTypeOK
<1>1. SyncInv => SyncTypeOK
  BY DEF SyncInv
<1>. QED  BY <1>1, SyncInvHolds, PTL

\* For every export, and every pause, failed page and lost call: the
\* mapping_revision of an identity is the number of its applied records.
THEOREM RevisionsHold == SyncSpec => []RevisionsCountChanges
<1>1. SyncInv => RevisionsCountChanges
  BY DEF SyncInv, Good, Counted, Changes, RevisionsCountChanges
<1>. QED  BY <1>1, SyncInvHolds, PTL

\* For every export: content that is active replaced nothing newer, however
\* late its record came (_reconcile_record, latest_source_updated_at).
THEOREM NewestHold == SyncSpec => []ActiveContentIsNewest
<1>1. SyncInv => ActiveContentIsNewest
  <2>. SUFFICES ASSUME SyncInv,
                       NEW k \in DOMAIN work.audits, NEW l \in DOMAIN work.audits,
                       l < k,
                       work.audits[k].disposition = "APPLIED",
                       work.audits[l].disposition = "APPLIED",
                       work.audits[k].identity = work.audits[l].identity,
                       export[k].deletion = "ACTIVE"
                PROVE  export[l].updated <= export[k].updated
    BY DEF ActiveContentIsNewest
  <2>. DEFINE i == work.audits[k].identity
  <2>1. k \in Changes(work, i) /\ l \in Changes(work, i)
    BY DEF Changes
  <2>2. i \in Identity
    <3>1. work.audits \in Seq(Audit)
      BY DEF SyncInv, SyncTypeOK, Checkpoint
    <3>2. work.audits[k] \in Audit
      BY <3>1
    <3>. QED  BY <3>2 DEF Audit
  <2>. QED  BY <2>1, <2>2 DEF SyncInv, Good, Ordered
<1>. QED  BY <1>1, SyncInvHolds, PTL
-----------------------------------------------------------------------------
(* The checkpoint of a prefix of the export.  The fold of a sequence is the *)
(* value of a fixpoint that is chosen: that one exists, and what it is      *)
(* along the prefixes, is shown by ascending from zero.                     *)

LEMMA Ascent ==
  ASSUME NEW S, 0 \in S, \A n \in Nat : n \in S => n + 1 \in S
  PROVE  Nat \subseteq S
<1>. DEFINE Below == {p \in Nat \X Nat : p[1] < p[2]}
            Rest == Nat \ S
<1>1. IsWellFoundedOn(Below, Nat)
  BY NatLessThanWellFounded DEF OpToRel
<1>. SUFFICES ASSUME Rest # {}
              PROVE  FALSE
  OBVIOUS
<1>2. PICK x \in Rest : \A y \in Rest : <<y, x>> \notin Below
  <2>. HIDE DEF Below
  <2>1. Rest \subseteq Nat
    OBVIOUS
  <2>. QED  BY <1>1, <2>1, WFMin
<1>3. x \in Nat /\ x # 0 /\ x - 1 \in Nat /\ (x - 1) + 1 = x
  BY <1>2
<1>4. x - 1 \in Rest
  BY <1>2, <1>3
<1>5. <<x - 1, x>> \in Nat \X Nat /\ x - 1 < x
  BY <1>3
<1>6. <<x - 1, x>> \in Below
  BY <1>5
<1>. QED  BY <1>2, <1>4, <1>6

Fold(s) == FoldLeft(Reconciled, NoCheckpoint, s)

\* What the fold of s over 1..n is a fixpoint of.
Level(s, n, it) ==
  [t \in SUBSET (1..n) |->
     IF t = {} THEN NoCheckpoint ELSE Reconciled(it[t \ {Max(t)}], s[Max(t)])]

LEMMA LastOfInterval ==
  ASSUME NEW n \in Nat, NEW t, t \subseteq 1..(n + 1), n + 1 \in t
  PROVE  Max(t) = n + 1
<1>1. \A y \in t : n + 1 >= y
  OBVIOUS
<1>2. \A x \in t : (\A y \in t : x >= y) => x = n + 1
  OBVIOUS
<1>. QED  BY <1>1, <1>2 DEF Max

LEMMA LevelExists ==
  ASSUME NEW s, NEW n \in Nat
  PROVE  \E it : it = Level(s, n, it)
<1>. DEFINE Has(m) == \E it : it = Level(s, m, it)
<1>1. Has(0)
  <2>. DEFINE it == [t \in SUBSET (1..0) |-> NoCheckpoint]
  <2>1. it = Level(s, 0, it)
    BY DEF Level
  <2>. QED  BY <2>1
<1>2. ASSUME NEW m \in Nat, Has(m)
      PROVE  Has(m + 1)
  <2>1. PICK it : it = Level(s, m, it)
    BY <1>2
  <2>. DEFINE jt == [t \in SUBSET (1..(m + 1)) |->
                       IF m + 1 \in t THEN Reconciled(it[t \ {m + 1}], s[m + 1]) ELSE it[t]]
  <2>2. ASSUME NEW t \in SUBSET (1..(m + 1))
        PROVE  jt[t] = IF t = {} THEN NoCheckpoint ELSE Reconciled(jt[t \ {Max(t)}], s[Max(t)])
    <3>1. CASE m + 1 \in t
      <4>1. Max(t) = m + 1
        BY <3>1, LastOfInterval
      <4>2. t \ {m + 1} \in SUBSET (1..(m + 1)) /\ m + 1 \notin t \ {m + 1}
        OBVIOUS
      <4>3. jt[t \ {m + 1}] = it[t \ {m + 1}]
        BY <4>2
      <4>. QED  BY <3>1, <4>1, <4>3
    <3>2. CASE m + 1 \notin t
      <4>1. t \in SUBSET (1..m)
        BY <3>2
      <4>2. it[t] = IF t = {} THEN NoCheckpoint ELSE Reconciled(it[t \ {Max(t)}], s[Max(t)])
        BY <2>1, <4>1 DEF Level
      <4>3. t \ {Max(t)} \in SUBSET (1..(m + 1)) /\ m + 1 \notin t \ {Max(t)}
        BY <3>2
      <4>4. jt[t \ {Max(t)}] = it[t \ {Max(t)}] /\ jt[t] = it[t]
        BY <3>2, <4>3
      <4>. QED  BY <4>2, <4>4
    <3>. QED  BY <3>1, <3>2
  <2>3. jt = Level(s, m + 1, jt)
    BY <2>2 DEF Level
  <2>. QED  BY <2>3
<1>. HIDE DEF Has
<1>3. Has(n)
  <2>. DEFINE Q == {m \in Nat : Has(m)}
  <2>1. 0 \in Q /\ \A m \in Nat : m \in Q => m + 1 \in Q
    BY <1>1, <1>2
  <2>2. Q \subseteq Nat /\ \A m \in Q : Has(m)
    OBVIOUS
  <2>. HIDE DEF Q
  <2>3. n \in Q
    BY <2>1, Ascent
  <2>. QED  BY <2>2, <2>3
<1>. QED  BY <1>3 DEF Has

\* Along the prefixes of s.
LEMMA LevelSteps ==
  ASSUME NEW s, NEW n \in Nat, NEW it, it = Level(s, n, it)
  PROVE  /\ it[1..0] = NoCheckpoint
         /\ \A k \in Nat : k < n => it[1..(k + 1)] = Reconciled(it[1..k], s[k + 1])
<1>1. 1..0 = {} /\ 1..0 \in SUBSET (1..n)
  OBVIOUS
<1>2. it[1..0] = NoCheckpoint
  BY <1>1 DEF Level
<1>3. ASSUME NEW k \in Nat, k < n
      PROVE  it[1..(k + 1)] = Reconciled(it[1..k], s[k + 1])
  <2>1. 1..(k + 1) \in SUBSET (1..n) /\ 1..(k + 1) # {} /\ k + 1 \in 1..(k + 1)
    BY <1>3
  <2>2. Max(1..(k + 1)) = k + 1
    BY <2>1, LastOfInterval
  <2>3. (1..(k + 1)) \ {k + 1} = 1..k
    OBVIOUS
  <2>4. it[1..(k + 1)] = Reconciled(it[(1..(k + 1)) \ {Max(1..(k + 1))}], s[Max(1..(k + 1))])
    BY <2>1 DEF Level
  <2>. QED  BY <2>2, <2>3, <2>4
<1>. QED  BY <1>2, <1>3

LEMMA FoldIsLevel ==
  ASSUME NEW s, NEW n \in Nat, DOMAIN s = 1..n
  PROVE  \E it : it = Level(s, n, it) /\ Fold(s) = it[1..n]
<1>1. Fold(s) = (CHOOSE it : it = Level(s, n, it))[1..n]
  BY DEF Fold, FoldLeft, MapThenFoldSet, Level
<1>. QED  BY <1>1, LevelExists

\* The fold of the records before the first one, and of one record more.
LEMMA FoldOfPrefix ==
  ASSUME NEW e, NEW k \in Nat
  PROVE  /\ Fold(SubSeq(e, 1, 0)) = NoCheckpoint
         /\ Fold(SubSeq(e, 1, k + 1)) = Reconciled(Fold(SubSeq(e, 1, k)), e[k + 1])
<1>. DEFINE S(m) == SubSeq(e, 1, m)
<1>1. \A m \in Nat : DOMAIN S(m) = 1..m /\ \A i \in 1..m : S(m)[i] = e[i]
  OBVIOUS
<1>. HIDE DEF S
<1>2. Fold(S(0)) = NoCheckpoint
  <2>1. PICK it : it = Level(S(0), 0, it) /\ Fold(S(0)) = it[1..0]
    BY <1>1, FoldIsLevel
  <2>. QED  BY <2>1, LevelSteps
<1>3. PICK a : a = Level(S(k), k, a) /\ Fold(S(k)) = a[1..k]
  BY <1>1, FoldIsLevel
<1>4. PICK b : b = Level(S(k + 1), k + 1, b) /\ Fold(S(k + 1)) = b[1..(k + 1)]
  BY <1>1, FoldIsLevel
<1>5. /\ a[1..0] = NoCheckpoint
      /\ \A j \in Nat : j < k => a[1..(j + 1)] = Reconciled(a[1..j], S(k)[j + 1])
  BY <1>3, LevelSteps
<1>6. k + 1 \in Nat
  OBVIOUS
<1>7. /\ b[1..0] = NoCheckpoint
      /\ \A j \in Nat : j < k + 1 => b[1..(j + 1)] = Reconciled(b[1..j], S(k + 1)[j + 1])
  BY <1>4, <1>6, LevelSteps
<1>8. \A j \in Nat : j < k => S(k)[j + 1] = S(k + 1)[j + 1]
  BY <1>1
<1>9. a[1..k] = b[1..k]
  <2>. DEFINE Same(j) == j <= k => a[1..j] = b[1..j]
  <2>1. Same(0)
    BY <1>5, <1>7
  <2>2. ASSUME NEW j \in Nat, Same(j)
        PROVE  Same(j + 1)
    <3>. SUFFICES ASSUME j + 1 <= k
                  PROVE  a[1..(j + 1)] = b[1..(j + 1)]
      OBVIOUS
    <3>1. j < k /\ j < k + 1 /\ a[1..j] = b[1..j]
      BY <2>2
    <3>. QED  BY <3>1, <1>5, <1>7, <1>8
  <2>. HIDE DEF Same
  <2>. DEFINE Q == {j \in Nat : Same(j)}
  <2>3. 0 \in Q /\ \A j \in Nat : j \in Q => j + 1 \in Q
    BY <2>1, <2>2
  <2>4. \A j \in Q : Same(j)
    OBVIOUS
  <2>. HIDE DEF Q
  <2>5. k \in Q
    BY <2>3, Ascent
  <2>. QED  BY <2>4, <2>5 DEF Same
<1>10. S(k + 1)[k + 1] = e[k + 1]
  BY <1>1
<1>11. Fold(S(k + 1)) = Reconciled(b[1..k], e[k + 1])
  BY <1>4, <1>7, <1>10
<1>. QED  BY <1>2, <1>3, <1>9, <1>11 DEF S
-----------------------------------------------------------------------------
(* A call resumes as if there had been no call before it.                   *)

Prefix(e, k) == Fold(SubSeq(e, 1, k))

\* The checkpoint after k records that says that page n is the next.
At(e, k, n) == [Prefix(e, k) EXCEPT !.next = n]

\* A checkpoint is the one of a prefix: of whole pages for the caller's, of
\* whole pages and some records of the next one for the one at work.
Resumed ==
  /\ checkpoint = At(export, End(checkpoint.next), checkpoint.next)
  /\ phase = "working" => work = At(export, End(work.next) + position, work.next)

LEMMA PrefixType ==
  ASSUME export \in [1..End(Pages) -> Records], End(Pages) \in Nat,
         NEW k \in 0..End(Pages)
  PROVE  Prefix(export, k) \in Checkpoint
<1>. DEFINE S == {n \in Nat : n <= End(Pages) => Prefix(export, n) \in Checkpoint}
<1>1. NoCheckpoint \in Checkpoint
  BY SyncConstantsOK, EndType DEF NoCheckpoint, Checkpoint, Pages
<1>2. 0 \in S
  <2>1. Prefix(export, 0) = NoCheckpoint
    BY FoldOfPrefix DEF Prefix
  <2>. QED  BY <1>1, <2>1
<1>3. ASSUME NEW n \in Nat, n \in S
      PROVE  n + 1 \in S
  <2>. SUFFICES ASSUME n + 1 <= End(Pages)
                PROVE  Prefix(export, n + 1) \in Checkpoint
    OBVIOUS
  <2>1. Prefix(export, n) \in Checkpoint
    BY <1>3
  <2>2. Prefix(export, n + 1) = Reconciled(Prefix(export, n), export[n + 1])
    BY FoldOfPrefix DEF Prefix
  <2>3. n + 1 \in 1..End(Pages)
    OBVIOUS
  <2>4. export[n + 1] \in Record
    BY <2>3, SyncConstantsOK
  <2>5. export[n + 1].identity \in Identity
    BY <2>4 DEF Record
  <2>. QED  BY <2>1, <2>2, <2>4, <2>5, ReconciledChanges
<1>4. k \in Nat /\ k <= End(Pages)
  OBVIOUS
<1>5. k \in S
  <2>. HIDE DEF S
  <2>. QED  BY <1>2, <1>3, <1>4, Ascent
<1>. QED  BY <1>4, <1>5

\* The next record, whatever page is said to be the next.
LEMMA AtOneMore ==
  ASSUME export \in [1..End(Pages) -> Records], End(Pages) \in Nat,
         NEW k \in Nat, k < End(Pages), NEW n
  PROVE  At(export, k + 1, n) = Reconciled(At(export, k, n), export[k + 1])
<1>. DEFINE r == export[k + 1]
<1>1. PICK c : c = Prefix(export, k)
  OBVIOUS
<1>2. c \in Checkpoint
  BY <1>1, PrefixType
<1>3. Prefix(export, k + 1) = Reconciled(c, r)
  BY <1>1, FoldOfPrefix DEF Prefix
<1>. HIDE DEF r
<1>4. Reconciled([c EXCEPT !.next = n], r) = [Reconciled(c, r) EXCEPT !.next = n]
  <2>1. PICK d : d = [c EXCEPT !.next = n]
    OBVIOUS
  <2>2. d.next = n /\ d.states = c.states /\ d.audits = c.audits
    BY <1>2, <2>1 DEF Checkpoint
  <2>3. Reconciled(d, r) =
          [next |-> n, states |-> Reconciled(c, r).states, audits |-> Reconciled(c, r).audits]
    BY <2>2 DEF Reconciled
  <2>4. [Reconciled(c, r) EXCEPT !.next = n] =
          [next |-> n, states |-> Reconciled(c, r).states, audits |-> Reconciled(c, r).audits]
    <3>1. PICK x, y, z : Reconciled(c, r) = [next |-> x, states |-> y, audits |-> z]
      BY DEF Reconciled
    <3>. QED  BY <3>1
  <2>. QED  BY <2>1, <2>3, <2>4
<1>. QED  BY <1>1, <1>3, <1>4 DEF At, r

\* The next page.
LEMMA AtNextPage ==
  ASSUME export \in [1..End(Pages) -> Records], End(Pages) \in Nat,
         NEW k \in 0..End(Pages), NEW m, NEW n
  PROVE  /\ [At(export, k, m) EXCEPT !.next = n] = At(export, k, n)
         /\ At(export, k, m).next = m
<1>1. PICK c : c = Prefix(export, k)
  OBVIOUS
<1>2. c \in Checkpoint
  BY <1>1, PrefixType
<1>3. [[c EXCEPT !.next = m] EXCEPT !.next = n] = [c EXCEPT !.next = n]
  BY <1>2 DEF Checkpoint
<1>4. [c EXCEPT !.next = m].next = m
  BY <1>2 DEF Checkpoint
<1>. QED  BY <1>1, <1>3, <1>4 DEF At

LEMMA ResumedInit ==
  ASSUME SyncInit
  PROVE  Resumed
<1>1. NoCheckpoint = [NoCheckpoint EXCEPT !.next = 0] /\ NoCheckpoint.next = 0
  BY DEF NoCheckpoint
<1>2. Prefix(export, 0) = NoCheckpoint /\ End(0) = 0
  BY FoldOfPrefix DEF Prefix, End
<1>. QED  BY <1>1, <1>2 DEF SyncInit, Resumed, At

LEMMA ResumedStep ==
  ASSUME SyncInv, Resumed, [SyncNext]_syncVars
  PROVE  Resumed'
<1>1. /\ SyncTypeOK /\ Along /\ export \in [1..End(Pages) -> Records]
      /\ work.next \in 0..Pages /\ checkpoint.next \in 0..Pages
  BY DEF SyncInv, SyncTypeOK, Checkpoint
<1>2. export' = export
  BY DEF SyncNext, syncVars, Start, ReconcileRecord, CommitPage, Return, ReadFails, Interrupt
<1>4. CASE Start
  <2>1. checkpoint' = checkpoint /\ work' = checkpoint /\ position' = 0
    BY <1>4 DEF Start
  <2>3. End(checkpoint.next) + 0 = End(checkpoint.next)
    BY <1>1, EndType
  <2>. QED  BY <2>1, <2>3, <1>2 DEF Resumed
<1>5. CASE ReconcileRecord
  <2>1. /\ phase = "working" /\ work.next < Pages /\ position < Len(Page)
        /\ work' = Reconciled(work, Page[position + 1])
        /\ position' = position + 1 /\ checkpoint' = checkpoint
    BY <1>5 DEF ReconcileRecord, InPage
  <2>2. position \in Nat /\ position + 1 \in 1..Len(Page)
    BY <2>1, <1>1, AtWork DEF SyncTypeOK
  <2>. DEFINE k == End(work.next) + position
  <2>3. /\ k \in Nat /\ k < End(Pages) /\ End(Pages) \in Nat
        /\ Page[position + 1] = export[k + 1]
        /\ k + 1 = End(work.next) + (position + 1)
    BY <2>1, <2>2, <1>1, AtWork
  <2>4. work = At(export, k, work.next)
    BY <2>1 DEF Resumed
  <2>5. PICK j, n : j = k /\ n = work.next
    OBVIOUS
  <2>. HIDE DEF k
  <2>6. At(export, j + 1, n) = Reconciled(At(export, j, n), export[j + 1])
    BY <2>3, <2>5, <1>1, AtOneMore
  <2>7. work' = At(export, j + 1, n)
    BY <2>1, <2>3, <2>4, <2>5, <2>6
  <2>8. work'.next = n
    BY <2>1, <2>5 DEF Reconciled
  <2>9. work' = At(export', End(work'.next) + position', work'.next)
    BY <2>1, <2>3, <2>5, <2>7, <2>8, <1>2
  <2>. QED  BY <2>1, <2>9, <1>2 DEF Resumed
<1>6. CASE CommitPage
  <2>1. /\ phase = "working" /\ work.next < Pages /\ position = Len(Page)
        /\ work' = [work EXCEPT !.next = work.next + 1]
        /\ position' = 0 /\ checkpoint' = checkpoint
    BY <1>6 DEF CommitPage, InPage
  <2>2. /\ work.next \in Nat /\ End(Pages) \in Nat
        /\ End(work.next) + position = End(work.next + 1)
        /\ End(work.next + 1) \in 0..End(Pages)
        /\ End(work.next + 1) + 0 = End(work.next + 1)
    BY <2>1, <1>1, AtWork, EndGrows
  <2>3. PICK j, n : j = End(work.next + 1) /\ n = work.next
    OBVIOUS
  <2>4. work = At(export, j, n)
    BY <2>1, <2>2, <2>3 DEF Resumed
  <2>5. work' = At(export, j, n + 1)
    BY <2>1, <2>2, <2>3, <2>4, <1>1, AtNextPage
  <2>6. work'.next = n + 1
    BY <2>2, <2>3, <2>5, <1>1, AtNextPage
  <2>7. work' = At(export', End(work'.next) + position', work'.next)
    BY <2>1, <2>2, <2>3, <2>5, <2>6, <1>2
  <2>. QED  BY <2>1, <2>7, <1>2 DEF Resumed
<1>7. CASE Return \/ ReadFails
  <2>1. phase = "working" /\ phase' = "idle" /\ position = 0 /\ checkpoint' = work
    BY <1>7 DEF Return, ReadFails, InPage
  <2>2. End(work.next) + 0 = End(work.next)
    BY <1>1, EndType
  <2>3. work = At(export, End(work.next), work.next)
    BY <2>1, <2>2 DEF Resumed
  <2>. QED  BY <2>1, <2>3, <1>2 DEF Resumed
<1>8. CASE Interrupt \/ UNCHANGED syncVars
  <2>1. /\ checkpoint' = checkpoint /\ work' = work /\ position' = position
        /\ phase' = "working" => phase = "working"
    BY <1>8 DEF Interrupt, syncVars
  <2>. QED  BY <2>1, <1>2 DEF Resumed
<1>. QED  BY <1>4, <1>5, <1>6, <1>7, <1>8 DEF SyncNext

\* For every export: a checkpoint is the one an uninterrupted synchronisation
\* has after the same pages, whatever pauses, failed pages and lost calls
\* there were (reconcile_enterprise_pages).
THEOREM ResumptionHolds == SyncSpec => []ResumedAsUninterrupted
<1>1. Resumed => ResumedAsUninterrupted
  BY DEF Resumed, ResumedAsUninterrupted, Uninterrupted, At, Prefix, Fold
<1>. QED  BY <1>1, ResumedInit, ResumedStep, SyncInvHolds, PTL DEF SyncSpec
=============================================================================
