---------------------------- MODULE DryRunProofs ----------------------------
(***************************************************************************)
(* What holds of EnterpriseDryRun for every source, registry and snapshot: *)
(*   1. the two loops over the records, that of the mapping and that of    *)
(*      the reconciliation, along the prefixes of an export;               *)
(*   2. a blocker stays;                                                   *)
(*   3. one record in the two loops;                                       *)
(*   4. the two judges agree;                                              *)
(*   5. a report that is ready follows the source.                         *)
(***************************************************************************)
EXTENDS EnterpriseDryRun, SequenceTheorems, WellFoundedInduction, TLAPS

-----------------------------------------------------------------------------
(* 1. The loops.  The fold of a sequence is the value of a fixpoint that is *)
(* chosen: that one exists, and what it is along the prefixes of the        *)
(* sequence, is shown by ascending from zero.                               *)

LEMMA Ascent ==
  ASSUME NEW S, 0 \in S, \A n \in Nat : n \in S => n + 1 \in S
  PROVE  Nat \subseteq S
<1>. DEFINE Smaller == {p \in Nat \X Nat : p[1] < p[2]}
            Rest == Nat \ S
<1>1. IsWellFoundedOn(Smaller, Nat)
  BY NatLessThanWellFounded DEF OpToRel
<1>. SUFFICES ASSUME Rest # {}
              PROVE  FALSE
  OBVIOUS
<1>2. PICK x \in Rest : \A y \in Rest : <<y, x>> \notin Smaller
  <2>. HIDE DEF Smaller
  <2>1. Rest \subseteq Nat
    OBVIOUS
  <2>. QED  BY <1>1, <2>1, WFMin
<1>3. x \in Nat /\ x # 0 /\ x - 1 \in Nat /\ (x - 1) + 1 = x
  BY <1>2
<1>4. x - 1 \in Rest
  BY <1>2, <1>3
<1>5. <<x - 1, x>> \in Nat \X Nat /\ x - 1 < x
  BY <1>3
<1>6. <<x - 1, x>> \in Smaller
  BY <1>5
<1>. QED  BY <1>2, <1>4, <1>6

Loop == {"mapping", "reconciliation"}

\* What a loop starts from, and one turn of it.
Base(loop) == IF loop = "mapping" THEN NothingMapped ELSE NoCheckpoint
Turn(loop, a, x) == IF loop = "mapping" THEN Mapped(a, x) ELSE Reconciled(a, Reconcilable(x))

\* What a loop makes of a sequence.
Passed(loop, s) ==
  IF loop = "mapping" THEN FoldLeft(Mapped, NothingMapped, s) ELSE Synced(s)

\* What the fold of s over 1..n is a fixpoint of.
Level(loop, s, n, it) ==
  [t \in SUBSET (1..n) |->
     IF t = {} THEN Base(loop) ELSE Turn(loop, it[t \ {Max(t)}], s[Max(t)])]

LEMMA LastOfInterval ==
  ASSUME NEW n \in Nat, NEW t, t \subseteq 1..(n + 1), n + 1 \in t
  PROVE  Max(t) = n + 1
<1>1. \A y \in t : n + 1 >= y
  OBVIOUS
<1>2. \A x \in t : (\A y \in t : x >= y) => x = n + 1
  OBVIOUS
<1>. QED  BY <1>1, <1>2 DEF Max

LEMMA LevelExists ==
  ASSUME NEW loop, NEW s, NEW n \in Nat
  PROVE  \E it : it = Level(loop, s, n, it)
<1>. DEFINE Has(m) == \E it : it = Level(loop, s, m, it)
<1>1. Has(0)
  <2> DEFINE it == [t \in SUBSET (1..0) |-> Base(loop)]
  <2>1. it = Level(loop, s, 0, it)
    BY DEF Level
  <2>. QED  BY <2>1
<1>2. ASSUME NEW m \in Nat, Has(m)
      PROVE  Has(m + 1)
  <2>1. PICK it : it = Level(loop, s, m, it)
    BY <1>2
  <2> DEFINE jt == [t \in SUBSET (1..(m + 1)) |->
                      IF m + 1 \in t THEN Turn(loop, it[t \ {m + 1}], s[m + 1]) ELSE it[t]]
  <2>2. ASSUME NEW t \in SUBSET (1..(m + 1))
        PROVE  jt[t] = IF t = {} THEN Base(loop)
                       ELSE Turn(loop, jt[t \ {Max(t)}], s[Max(t)])
    <3>1. CASE m + 1 \in t
      <4>1. Max(t) = m + 1
        BY <3>1, LastOfInterval
      <4>2. t \ {m + 1} \in SUBSET (1..(m + 1)) /\ m + 1 \notin t \ {m + 1}
        OBVIOUS
      <4>3. jt[t \ {m + 1}] = it[t \ {m + 1}]
        BY <4>2
      <4>. QED  BY <3>1, <4>1, <4>3
    <3>2. CASE m + 1 \notin t
      <4>1. t \in SUBSET (1..m)
        BY <3>2
      <4>2. it[t] = IF t = {} THEN Base(loop) ELSE Turn(loop, it[t \ {Max(t)}], s[Max(t)])
        BY <2>1, <4>1 DEF Level
      <4>3. t \ {Max(t)} \in SUBSET (1..(m + 1)) /\ m + 1 \notin t \ {Max(t)}
        BY <3>2
      <4>4. jt[t \ {Max(t)}] = it[t \ {Max(t)}] /\ jt[t] = it[t]
        BY <3>2, <4>3
      <4>. QED  BY <4>2, <4>4
    <3>. QED  BY <3>1, <3>2
  <2>3. jt = Level(loop, s, m + 1, jt)
    BY <2>2 DEF Level
  <2>. QED  BY <2>3
<1>. HIDE DEF Has
<1>. DEFINE Q == {m \in Nat : Has(m)}
<1>3. 0 \in Q /\ \A m \in Nat : m \in Q => m + 1 \in Q
  BY <1>1, <1>2
<1>4. \A m \in Q : Has(m)
  OBVIOUS
<1>. HIDE DEF Q
<1>5. n \in Q
  BY <1>3, Ascent
<1>. QED  BY <1>4, <1>5 DEF Has

\* Along the prefixes of s.
LEMMA LevelSteps ==
  ASSUME NEW loop, NEW s, NEW n \in Nat, NEW it, it = Level(loop, s, n, it)
  PROVE  /\ it[1..0] = Base(loop)
         /\ \A k \in Nat : k < n => it[1..(k + 1)] = Turn(loop, it[1..k], s[k + 1])
<1>1. 1..0 = {} /\ 1..0 \in SUBSET (1..n)
  OBVIOUS
<1>2. it[1..0] = Base(loop)
  BY <1>1 DEF Level
<1>3. ASSUME NEW k \in Nat, k < n
      PROVE  it[1..(k + 1)] = Turn(loop, it[1..k], s[k + 1])
  <2>1. 1..(k + 1) \in SUBSET (1..n) /\ 1..(k + 1) # {} /\ k + 1 \in 1..(k + 1)
    BY <1>3
  <2>2. Max(1..(k + 1)) = k + 1
    BY <2>1, LastOfInterval
  <2>3. (1..(k + 1)) \ {k + 1} = 1..k
    OBVIOUS
  <2>4. it[1..(k + 1)] =
          Turn(loop, it[(1..(k + 1)) \ {Max(1..(k + 1))}], s[Max(1..(k + 1))])
    BY <2>1 DEF Level
  <2>. QED  BY <2>2, <2>3, <2>4
<1>. QED  BY <1>2, <1>3

LEMMA PassedIsLevel ==
  ASSUME NEW loop \in Loop, NEW s, NEW n \in Nat, DOMAIN s = 1..n
  PROVE  \E it : it = Level(loop, s, n, it) /\ Passed(loop, s) = it[1..n]
<1>. DEFINE mapping(it) ==
       [t \in SUBSET (1..n) |->
          IF t = {} THEN NothingMapped ELSE Mapped(it[t \ {Max(t)}], s[Max(t)])]
            reconciliation(it) ==
       [t \in SUBSET (1..n) |->
          IF t = {} THEN NoCheckpoint
          ELSE Reconciled(it[t \ {Max(t)}], Reconcilable(s[Max(t)]))]
<1>1. FoldLeft(Mapped, NothingMapped, s) = (CHOOSE it : it = mapping(it))[1..n]
  BY DEF FoldLeft, MapThenFoldSet
<1>2. Synced(s) = (CHOOSE it : it = reconciliation(it))[1..n]
  BY DEF Synced, FoldLeft, MapThenFoldSet
<1>3. /\ \A it : mapping(it) = Level("mapping", s, n, it)
      /\ \A it : reconciliation(it) = Level("reconciliation", s, n, it)
  BY DEF Level, Turn, Base
<1>. HIDE DEF mapping, reconciliation
<1>4. PICK level : level = Level(loop, s, n, level)
  BY LevelExists
<1>5. CASE loop = "mapping"
  <2>1. PICK it : it = (CHOOSE i : i = mapping(i)) /\ it = mapping(it)
    BY <1>3, <1>4, <1>5
  <2>. QED  BY <1>1, <1>3, <1>5, <2>1 DEF Passed
<1>6. CASE loop = "reconciliation"
  <2>1. PICK it : it = (CHOOSE i : i = reconciliation(i)) /\ it = reconciliation(it)
    BY <1>3, <1>4, <1>6
  <2>. QED  BY <1>2, <1>3, <1>6, <2>1 DEF Passed
<1>. QED  BY <1>5, <1>6 DEF Loop

LEMMA PassedSteps ==
  ASSUME NEW loop \in Loop, NEW s, NEW n \in Nat, DOMAIN s = 1..n
  PROVE  \E it : /\ Passed(loop, s) = it[1..n]
                 /\ it[1..0] = Base(loop)
                 /\ \A k \in Nat : k < n => it[1..(k + 1)] = Turn(loop, it[1..k], s[k + 1])
<1>1. PICK it : it = Level(loop, s, n, it) /\ Passed(loop, s) = it[1..n]
  BY PassedIsLevel
<1>2. /\ it[1..0] = Base(loop)
      /\ \A k \in Nat : k < n => it[1..(k + 1)] = Turn(loop, it[1..k], s[k + 1])
  BY <1>1, LevelSteps
<1>. QED  BY <1>1, <1>2

\* A loop over the first k records.
After(loop, e, k) == Passed(loop, SubSeq(e, 1, k))

LEMMA OneRecordMore ==
  ASSUME NEW loop \in Loop, NEW e, NEW k \in Nat
  PROVE  /\ After(loop, e, 0) = Base(loop)
         /\ After(loop, e, k + 1) = Turn(loop, After(loop, e, k), e[k + 1])
<1>. DEFINE S(m) == SubSeq(e, 1, m)
<1>1. \A m \in Nat : DOMAIN S(m) = 1..m /\ \A i \in 1..m : S(m)[i] = e[i]
  OBVIOUS
<1>. HIDE DEF S
<1>2. Passed(loop, S(0)) = Base(loop)
  BY <1>1, PassedSteps
<1>3. PICK a : /\ Passed(loop, S(k)) = a[1..k]
               /\ a[1..0] = Base(loop)
               /\ \A j \in Nat : j < k => a[1..(j + 1)] = Turn(loop, a[1..j], S(k)[j + 1])
  BY <1>1, PassedSteps
<1>. DEFINE m == k + 1
<1>6. m \in Nat /\ k < m
  OBVIOUS
<1>. HIDE DEF m
<1>4. PICK b : /\ Passed(loop, S(m)) = b[1..m]
               /\ b[1..0] = Base(loop)
               /\ \A j \in Nat : j < m => b[1..(j + 1)] = Turn(loop, b[1..j], S(m)[j + 1])
  BY <1>1, <1>6, PassedSteps
<1>8. \A j \in Nat : j < k => j < m /\ S(k)[j + 1] = S(m)[j + 1]
  BY <1>1 DEF m
<1>9. a[1..k] = b[1..k]
  <2>. DEFINE Same(j) == j <= k => a[1..j] = b[1..j]
  <2>1. Same(0)
    BY <1>3, <1>4
  <2>2. ASSUME NEW j \in Nat, Same(j)
        PROVE  Same(j + 1)
    <3>. SUFFICES ASSUME j + 1 <= k
                  PROVE  a[1..(j + 1)] = b[1..(j + 1)]
      OBVIOUS
    <3>1. j < k /\ a[1..j] = b[1..j]
      BY <2>2
    <3>. QED  BY <3>1, <1>3, <1>4, <1>8
  <2>. HIDE DEF Same
  <2>. DEFINE Q == {j \in Nat : Same(j)}
  <2>3. 0 \in Q /\ \A j \in Nat : j \in Q => j + 1 \in Q
    BY <2>1, <2>2
  <2>4. \A j \in Q : Same(j)
    OBVIOUS
  <2>. HIDE DEF Q
  <2>5. k \in Q
    BY <2>3, Ascent
  <2>. QED  BY <2>4, <2>5 DEF Same
<1>10. S(m)[k + 1] = e[k + 1]
  BY <1>1 DEF m
<1>11. b[1..(k + 1)] = Turn(loop, b[1..k], S(m)[k + 1])
  BY <1>4, <1>6
<1>12. Passed(loop, S(m)) = Turn(loop, b[1..k], e[k + 1])
  BY <1>4, <1>10, <1>11 DEF m
<1>. QED  BY <1>2, <1>3, <1>9, <1>12 DEF S, m, After

\* The k-th answer of either loop depends on the first k records only.
ResultOf(e, k) == Judged(After("mapping", e, k - 1), e[k])
AuditOf(e, k) ==
  LET r == Reconcilable(e[k])
  IN  Entry(After("reconciliation", e, k - 1).states[r.identity], r)

LEMMA MappedFields ==
  ASSUME NEW a, NEW r
  PROVE  /\ Mapped(a, r).seen =
              [a.seen EXCEPT ![<<r.identity, r.version>>] =
                 IF a.seen[<<r.identity, r.version>>] = None THEN r.hash
                 ELSE a.seen[<<r.identity, r.version>>]]
         /\ Mapped(a, r).previous =
              [a.previous EXCEPT ![r.identity] =
                 IF Judged(a, r).disposition = "ACCEPT" THEN r ELSE a.previous[r.identity]]
         /\ Mapped(a, r).results = Append(a.results, Judged(a, r))
  BY DEF Mapped

LEMMA OneAnswerMore ==
  ASSUME NEW S, NEW s \in Seq(S), NEW x
  PROVE  /\ \E T : Append(s, x) \in Seq(T)
         /\ Len(Append(s, x)) = Len(s) + 1
         /\ \A k \in 1..Len(s) : Append(s, x)[k] = s[k]
         /\ Append(s, x)[Len(s) + 1] = x
<1>1. s \in Seq(S \cup {x})
  OBVIOUS
<1>2. Append(s, x) \in Seq(S \cup {x})
  BY <1>1
<1>. QED  BY <1>1, <1>2

LEMMA AnswersInTurn ==
  ASSUME NEW e, NEW n \in Nat
  PROVE  /\ LET results == After("mapping", e, n).results
            IN  DOMAIN results = 1..n /\ \A k \in 1..n : results[k] = ResultOf(e, k)
         /\ LET audits == After("reconciliation", e, n).audits
            IN  DOMAIN audits = 1..n /\ \A k \in 1..n : audits[k] = AuditOf(e, k)
<1>. DEFINE results(m) == After("mapping", e, m).results
            audits(m) == After("reconciliation", e, m).audits
            ResultsOK(m) ==
              /\ \E S : results(m) \in Seq(S)
              /\ Len(results(m)) = m /\ \A k \in 1..m : results(m)[k] = ResultOf(e, k)
            AuditsOK(m) ==
              /\ \E S : audits(m) \in Seq(S)
              /\ Len(audits(m)) = m /\ \A k \in 1..m : audits(m)[k] = AuditOf(e, k)
            Q == {m \in Nat : ResultsOK(m) /\ AuditsOK(m)}
<1>1. 0 \in Q
  <2>1. results(0) = << >> /\ audits(0) = << >>
    BY OneRecordMore DEF Loop, Base, NothingMapped, NoCheckpoint
  <2>. HIDE DEF results, audits
  <2>2. /\ << >> \in Seq({}) /\ Len(<< >>) = 0
    OBVIOUS
  <2>3. \A k \in 1..0 : FALSE
    OBVIOUS
  <2>4. ResultsOK(0) /\ AuditsOK(0)
    BY <2>1, <2>2, <2>3
  <2>. HIDE DEF ResultsOK, AuditsOK
  <2>. QED  BY <2>4
<1>2. ASSUME NEW m \in Nat, m \in Q
      PROVE  m + 1 \in Q
  <2>1. results(m + 1) = Append(results(m), ResultOf(e, m + 1))
    <3>1. After("mapping", e, m + 1) = Mapped(After("mapping", e, m), e[m + 1])
      BY OneRecordMore DEF Loop, Turn
    <3>2. ResultOf(e, m + 1) = Judged(After("mapping", e, m), e[m + 1])
      BY DEF ResultOf
    <3>3. PICK a : a = After("mapping", e, m)
      OBVIOUS
    <3>4. Mapped(a, e[m + 1]).results = Append(a.results, Judged(a, e[m + 1]))
      BY MappedFields
    <3>. QED  BY <3>1, <3>2, <3>3, <3>4
  <2>2. audits(m + 1) = Append(audits(m), AuditOf(e, m + 1))
    <3>1. After("reconciliation", e, m + 1) =
            Reconciled(After("reconciliation", e, m), Reconcilable(e[m + 1]))
      BY OneRecordMore DEF Loop, Turn
    <3>. QED  BY <3>1 DEF Reconciled, AuditOf
  <2>3. ResultsOK(m) /\ AuditsOK(m)
    BY <1>2
  <2>. HIDE DEF results, audits
  <2>4. ResultsOK(m + 1)
    <3>1. PICK s, x : /\ results(m) = s /\ x = ResultOf(e, m + 1)
                      /\ results(m + 1) = Append(s, x)
      BY <2>1
    <3>2. PICK S : s \in Seq(S)
      BY <2>3, <3>1
    <3>3. /\ \E T : Append(s, x) \in Seq(T)
          /\ Len(Append(s, x)) = Len(s) + 1
          /\ \A k \in 1..Len(s) : Append(s, x)[k] = s[k]
          /\ Append(s, x)[Len(s) + 1] = x
      BY <3>2, OneAnswerMore
    <3>4. Len(s) = m /\ \A k \in 1..m : s[k] = ResultOf(e, k)
      BY <2>3, <3>1
    <3>5. \A k \in 1..(m + 1) : Append(s, x)[k] = ResultOf(e, k)
      <4>1. \A k \in 1..(m + 1) : k \in 1..m \/ k = m + 1
        OBVIOUS
      <4>. QED  BY <3>1, <3>3, <3>4, <4>1
    <3>. QED  BY <3>1, <3>3, <3>4, <3>5
  <2>5. AuditsOK(m + 1)
    <3>1. PICK s, x : /\ audits(m) = s /\ x = AuditOf(e, m + 1)
                      /\ audits(m + 1) = Append(s, x)
      BY <2>2
    <3>2. PICK S : s \in Seq(S)
      BY <2>3, <3>1
    <3>3. /\ \E T : Append(s, x) \in Seq(T)
          /\ Len(Append(s, x)) = Len(s) + 1
          /\ \A k \in 1..Len(s) : Append(s, x)[k] = s[k]
          /\ Append(s, x)[Len(s) + 1] = x
      BY <3>2, OneAnswerMore
    <3>4. Len(s) = m /\ \A k \in 1..m : s[k] = AuditOf(e, k)
      BY <2>3, <3>1
    <3>5. \A k \in 1..(m + 1) : Append(s, x)[k] = AuditOf(e, k)
      <4>1. \A k \in 1..(m + 1) : k \in 1..m \/ k = m + 1
        OBVIOUS
      <4>. QED  BY <3>1, <3>3, <3>4, <4>1
    <3>. QED  BY <3>1, <3>3, <3>4, <3>5
  <2>. QED  BY <2>4, <2>5
<1>3. ResultsOK(n) /\ AuditsOK(n)
  <2>. HIDE DEF ResultsOK, AuditsOK
  <2>1. \A m \in Q : ResultsOK(m) /\ AuditsOK(m)
    OBVIOUS
  <2>. HIDE DEF Q
  <2>. QED  BY <1>1, <1>2, <2>1, Ascent
<1>. HIDE DEF results, audits
<1>4. DOMAIN results(n) = 1..n /\ DOMAIN audits(n) = 1..n
  <2>1. PICK S : results(n) \in Seq(S)
    BY <1>3
  <2>2. PICK T : audits(n) \in Seq(T)
    BY <1>3
  <2>. QED  BY <1>3, <2>1, <2>2
<1>. QED  BY <1>3, <1>4 DEF results, audits

\* The whole of an export, and an export of one record more.
LEMMA WholeExport ==
  ASSUME NEW S, NEW e \in Seq(S), NEW loop
  PROVE  /\ After(loop, e, Len(e)) = Passed(loop, e)
         /\ Passed("mapping", e).results = MapSourceRecords(e)
         /\ Passed("reconciliation", e) = Synced(e)
  BY SubSeqFull DEF After, Passed, MapSourceRecords

LEMMA Appended ==
  ASSUME NEW S, NEW e \in Seq(S), NEW r \in S
  PROVE  /\ Append(e, r) \in Seq(S)
         /\ DOMAIN Append(e, r) = 1..(Len(e) + 1) /\ DOMAIN e = 1..Len(e)
         /\ \A k \in 1..Len(e) : Append(e, r)[k] = e[k]
         /\ \A k \in 0..Len(e) : SubSeq(Append(e, r), 1, k) = SubSeq(e, 1, k)
<1>1. /\ Append(e, r) \in Seq(S) /\ Len(e) \in Nat
      /\ DOMAIN Append(e, r) = 1..(Len(e) + 1) /\ DOMAIN e = 1..Len(e)
      /\ \A k \in 1..Len(e) : Append(e, r)[k] = e[k]
  OBVIOUS
<1>2. ASSUME NEW k \in 0..Len(e)
      PROVE  SubSeq(Append(e, r), 1, k) = SubSeq(e, 1, k)
  <2>. DEFINE a == SubSeq(Append(e, r), 1, k)
              b == SubSeq(e, 1, k)
  <2>1. /\ a \in Seq(S) /\ b \in Seq(S) /\ Len(a) = k /\ Len(b) = k
        /\ \A j \in 1..k : a[j] = e[j] /\ b[j] = e[j]
    BY <1>1
  <2>. HIDE DEF a, b
  <2>2. a = b
    BY <2>1
  <2>. QED  BY <2>2 DEF a, b
<1>. QED  BY <1>1, <1>2

-----------------------------------------------------------------------------
(* 2. A blocker stays *)

\* SyncFindings of an export.
ReasonsOf(e, k) ==
  LET earlier == Synced(SubSeq(e, 1, k - 1)).states[e[k].identity]
  IN IF Repeated(earlier, e[k]) THEN {"SOURCE_VERSION_CONFLICT"}
     ELSE IF Stale(earlier, e[k]) THEN {"OUT_OF_ORDER_SOURCE_UPDATE"}
     ELSE MappingOf(e[k]).reasons

PutAside(e) ==
  {Blocker("MAPPING_QUARANTINED", e[k].identity, e[k].hash, ReasonsOf(e, k)) :
     k \in {l \in DOMAIN e : AuditOf(e, l).disposition = "QUARANTINED"}}

LEMMA PutAsideGrows ==
  ASSUME NEW S, NEW e \in Seq(S), NEW r \in S
  PROVE  PutAside(e) \subseteq PutAside(Append(e, r))
<1>. DEFINE f == Append(e, r)
<1>1. SUFFICES ASSUME NEW k \in DOMAIN e
               PROVE  /\ k \in DOMAIN f /\ f[k] = e[k]
                      /\ AuditOf(f, k) = AuditOf(e, k) /\ ReasonsOf(f, k) = ReasonsOf(e, k)
  BY DEF PutAside
<1>2. k \in 1..Len(e) /\ k \in 1..(Len(e) + 1) /\ k - 1 \in 0..Len(e)
  BY Appended
<1>3. /\ k \in DOMAIN f /\ f[k] = e[k]
      /\ SubSeq(f, 1, k - 1) = SubSeq(e, 1, k - 1)
  BY <1>2, Appended
<1>. HIDE DEF f
<1>. QED  BY <1>3 DEF AuditOf, ReasonsOf, After

\* What may give a lasting reason to block.
Reasons(e, ps, cases) ==
  PutAside(e)
  \cup (UNION {RecordFindings(r) : r \in Range(e) \cup {p.record : p \in ps}
                                           \cup (UNION {Range(case) : case \in cases})})
  \cup (UNION {CaseFindings(case) : case \in cases})

LEMMA ReasonsGrow ==
  ASSUME NEW S, NEW e \in Seq(S), NEW r \in S, NEW ps, NEW cases
  PROVE  Reasons(e, ps, cases) \subseteq Reasons(Append(e, r), ps, cases)
<1>1. Range(e) \subseteq Range(Append(e, r))
  <2>1. \A k \in DOMAIN e : k \in DOMAIN Append(e, r) /\ Append(e, r)[k] = e[k]
    BY Appended
  <2>. QED  BY ONLY <2>1 DEF Range
<1>. QED  BY <1>1, PutAsideGrows DEF Reasons

LEMMA SyncFindingsArePutAside ==
  ASSUME export \in Seq(Records)
  PROVE  SyncFindings(Sync) = PutAside(export)
<1>1. Sync.audits = After("reconciliation", export, Len(export)).audits
  BY WholeExport DEF Sync
<1>2. \A k \in DOMAIN export : Sync.audits[k] = AuditOf(export, k)
  BY <1>1, AnswersInTurn
<1>3. \A k : SyncReasons(k) = ReasonsOf(export, k)
  BY DEF SyncReasons, ReasonsOf
<1>. QED  BY <1>2, <1>3 DEF SyncFindings, PutAside

LEMMA LastingReasons ==
  ASSUME export \in Seq(Records)
  PROVE  Lasting(Findings(Sync)) = Lasting(Reasons(export, probes, corpus))
<1>. DEFINE c == Sync
            passing == KeyFindings(c) \cup ReferenceFindings(c) \cup StaleFindings(c)
<1>1. \A f \in passing : ~f.blocks \/ f.code \in {"UNMAPPED_FIELD", "DANGLING_REFERENCE"}
  BY DEF KeyFindings, ReferenceFindings, StaleFindings, Blocker, Warning
<1>2. Findings(c) = passing \cup Reasons(export, probes, corpus)
  <2>1. SyncFindings(c) = PutAside(export)
    BY SyncFindingsArePutAside
  <2>2. UNION {RecordFindings(r) : r \in Range(export) \cup ProbeRecords \cup CorpusRecords} =
        UNION {RecordFindings(r) :
                 r \in Range(export) \cup {p.record : p \in probes}
                         \cup (UNION {Range(case) : case \in corpus})}
    BY DEF ProbeRecords, CorpusRecords
  <2>3. PICK keys, records, references, stale, aside, cases :
          /\ keys = KeyFindings(c) /\ references = ReferenceFindings(c)
          /\ stale = StaleFindings(c) /\ aside = SyncFindings(c)
          /\ cases = UNION {CaseFindings(case) : case \in corpus}
          /\ records = UNION {RecordFindings(r) :
                                r \in Range(export) \cup ProbeRecords \cup CorpusRecords}
    OBVIOUS
  <2>4. Findings(c) = keys \cup references \cup stale \cup aside \cup records \cup cases
    BY ONLY <2>3 DEF Findings
  <2>5. passing = keys \cup references \cup stale
    BY ONLY <2>3 DEF passing
  <2>6. Reasons(export, probes, corpus) = aside \cup records \cup cases
    BY ONLY <2>1, <2>2, <2>3 DEF Reasons
  <2>7. keys \cup references \cup stale \cup aside \cup records \cup cases =
        (keys \cup references \cup stale) \cup (aside \cup records \cup cases)
    BY ONLY TRUE
  <2>. HIDE DEF c, passing
  <2>. QED  BY ONLY <2>4, <2>5, <2>6, <2>7
<1>. HIDE DEF c, passing
<1>. QED  BY <1>1, <1>2 DEF Lasting, Blockers, c

\* What blocked the last report blocks the next one.
BlockedInv ==
  /\ export \in Seq(Records)
  /\ Lasting(report.findings) \subseteq Lasting(Reasons(export, probes, corpus))

LEMMA NothingLasts == Lasting(NoReport.findings) = {}
  BY DEF NoReport, Lasting, Blockers

\* What a dry run reports.
LEMMA Reported ==
  ASSUME DryRun
  PROVE  \/ report' = [NoReport EXCEPT !.status = "REFUSED"]
         \/ /\ report'.findings = Findings(Sync) /\ report'.status = Status(Findings(Sync))
            /\ report'.changes = CanonicalChanges(Sync)
            /\ ~MappingRaises(Sync)
  BY DEF DryRun

LEMMA BlockedStep ==
  ASSUME BlockedInv, [DryNext]_dryVars
  PROVE  BlockedInv'
<1>1. CASE Deliver
  <2>1. PICK r \in Records : export' = Append(export, r)
    BY <1>1 DEF Deliver
  <2>2. UNCHANGED <<probes, corpus, report>>
    BY <1>1 DEF Deliver
  <2>3. export' \in Seq(Records)
    BY <2>1, Appended DEF BlockedInv
  <2>4. Reasons(export, probes, corpus) \subseteq Reasons(export', probes, corpus)
    BY <2>1, ReasonsGrow DEF BlockedInv
  <2>. QED  BY <2>2, <2>3, <2>4 DEF BlockedInv, Lasting, Blockers
<1>2. CASE DryRun
  <2>1. UNCHANGED <<probes, corpus, export>>
    BY <1>2 DEF DryRun
  <2>2. Lasting(report'.findings) \subseteq Lasting(Reasons(export, probes, corpus))
    <3>1. CASE report' = [NoReport EXCEPT !.status = "REFUSED"]
      BY <3>1, NothingLasts DEF NoReport
    <3>. QED  BY <1>2, <3>1, Reported, LastingReasons DEF BlockedInv
  <2>. QED  BY <2>1, <2>2 DEF BlockedInv
<1>3. CASE Propose \/ UNCHANGED dryVars
  BY <1>3 DEF Propose, dryVars, BlockedInv
<1>. QED  BY <1>1, <1>2, <1>3 DEF DryNext

\* A report that is blocked for good blocks every later one, however much is
\* delivered and proposed in between.
THEOREM BlockersHold == DrySpec => BlockersStay
<1>1. DryInit => BlockedInv
  BY NothingLasts DEF DryInit, BlockedInv
<1>2. BlockedInv /\ [DryNext]_dryVars =>
        (report' # report /\ report'.status # "REFUSED" /\ Lasting(report.findings) # {}
         => /\ Lasting(report.findings) \subseteq Lasting(report'.findings)
            /\ report'.status = "BLOCKED")
  <2>. SUFFICES ASSUME BlockedInv, [DryNext]_dryVars, report' # report,
                       report'.status # "REFUSED", Lasting(report.findings) # {}
                PROVE  /\ Lasting(report.findings) \subseteq Lasting(report'.findings)
                       /\ report'.status = "BLOCKED"
    OBVIOUS
  <2>1. DryRun
    BY DEF DryNext, Deliver, Propose, dryVars
  <2>2. report'.findings = Findings(Sync) /\ report'.status = Status(Findings(Sync))
    BY <2>1, Reported DEF NoReport
  <2>3. Lasting(report.findings) \subseteq Lasting(report'.findings)
    BY <2>2, LastingReasons DEF BlockedInv
  <2>4. Blockers(Findings(Sync)) # {}
    BY <2>2, <2>3 DEF Lasting
  <2>. QED  BY <2>2, <2>3, <2>4 DEF Status
<1>3. BlockedInv /\ [DryNext]_dryVars => BlockedInv'
  BY BlockedStep
<1>. QED  BY <1>1, <1>2, <1>3, PTL DEF DrySpec, BlockersStay

-----------------------------------------------------------------------------
(* 3. One record in the two loops *)

\* What the mapping of a record says besides its signals.
LEMMA MapRecordAnswers ==
  ASSUME NEW r, NEW prior
  PROVE  LET result == WithSignals(prior, r, MapRecord(r))
         IN  /\ MapRecord(r).disposition \in {"ACCEPT", "QUARANTINE", "RAISED"}
             /\ result.disposition = MapRecord(r).disposition
             /\ result.structured = MapRecord(r).structured
<1>1. /\ \E a, b, c, d : MapRecord(r) =
                [disposition |-> a, reasons |-> b, structured |-> c, texts |-> d]
      /\ MapRecord(r).disposition \in {"ACCEPT", "QUARANTINE", "RAISED"}
  BY DEF MapRecord, Removal, Refused, Raised, Content
<1>2. PICK a, b, c, d : MapRecord(r) =
             [disposition |-> a, reasons |-> b, structured |-> c, texts |-> d]
  BY <1>1
<1>. QED  BY <1>1, <1>2 DEF WithSignals

\* The same content is mapped alike.
LEMMA MapRecordOfContent ==
  ASSUME NEW r, NEW q, r.identity = q.identity, r.payload = q.payload, r.deletion = q.deletion
  PROVE  MapRecord(r) = MapRecord(q)
  BY DEF MapRecord, Removal, Profile

LEMMA MappingAlone ==
  ASSUME NEW r \in Records
  PROVE  /\ ~Profiled(r) => MappingOf(r).disposition = "REJECT"
         /\ Profiled(r) => /\ MappingOf(r).disposition = MapRecord(r).disposition
                           /\ MappingOf(r).structured = MapRecord(r).structured
<1>. DEFINE e == <<r>>
<1>1. e \in Seq(Records) /\ Len(e) = 1 /\ e[1] = r
  OBVIOUS
<1>2. MapSourceRecords(e) = After("mapping", e, 1).results
  <2>. HIDE DEF e
  <2>. QED  BY <1>1, WholeExport
<1>3. MappingOf(r) = Judged(NothingMapped, r)
  <2>1. MapSourceRecords(e)[1] = ResultOf(e, 1)
    BY <1>2, AnswersInTurn
  <2>2. ResultOf(e, 1) = Judged(After("mapping", e, 0), r)
    BY <1>1 DEF ResultOf
  <2>3. After("mapping", e, 0) = NothingMapped
    BY OneRecordMore DEF Loop, Base
  <2>. QED  BY <2>1, <2>2, <2>3 DEF MappingOf
<1>4. /\ NothingMapped.seen[<<r.identity, r.version>>] = None
      /\ NothingMapped.previous[r.identity] = None /\ r.hash # None
  BY RecordsOK DEF NothingMapped
<1>5. ~OutOfOrder(None, r)
  BY DEF OutOfOrder
<1>6. CASE ~Profiled(r)
  BY <1>3, <1>4, <1>6 DEF Judged, Refused
<1>7. CASE Profiled(r)
  <2>1. MappingOf(r) = WithSignals(None, r, MapRecord(r))
    BY <1>3, <1>4, <1>5, <1>7 DEF Judged
  <2>. QED  BY <2>1, <1>7, MapRecordAnswers
<1>. QED  BY <1>6, <1>7

LEMMA ReconcilableFields ==
  ASSUME NEW r \in Records
  PROVE  LET q == Reconcilable(r)
         IN  /\ q.identity = r.identity /\ q.version = r.version /\ q.hash = r.hash
             /\ q.updated = r.updated /\ q.deletion = r.deletion
             /\ ~Profiled(r) => q.mapping = "REJECTED"
             /\ Profiled(r) =>
                  q.mapping = CASE MapRecord(r).disposition = "ACCEPT" -> "ACCEPT"
                                [] MapRecord(r).disposition = "QUARANTINE" -> "QUARANTINED"
                                [] MapRecord(r).disposition = "RAISED" -> "RAISED"
<1>1. LET q == Reconcilable(r)
      IN  /\ q.identity = r.identity /\ q.version = r.version /\ q.hash = r.hash
          /\ q.updated = r.updated /\ q.deletion = r.deletion
          /\ q.mapping = SyncMapping[MappingOf(r).disposition]
  BY RecordsOK DEF Reconcilable, SourceField
<1>2. MapRecord(r).disposition \in {"ACCEPT", "QUARANTINE", "RAISED"}
  BY MapRecordAnswers
<1>. QED  BY <1>1, <1>2, MappingAlone DEF SyncMapping

\* Every way a record leaves the state of its identity.
LEMMA RecordOutcome ==
  ASSUME NEW prior \in SourceState \cup {None}, NEW r \in Records
  PROVE  LET q == Reconcilable(r)
             a == Verdict(prior, q)
             t == StateAfter(prior, q)
         IN  /\ t \in SourceState \cup {None}
             /\ a \in {"APPLIED", "NO_CHANGE", "QUARANTINED", "REJECTED", "RAISED"}
             /\ Repeated(prior, r) =>
                  /\ prior # None /\ t = prior
                  /\ a = IF prior.seen[r.version] = r.hash THEN "NO_CHANGE" ELSE "QUARANTINED"
             /\ ~Repeated(prior, r) =>
                  /\ t = None <=> prior = None /\ a # "APPLIED"
                  /\ t # None => t.seen = [SeenBefore(prior) EXCEPT ![r.version] = r.hash]
             /\ ~Repeated(prior, r) /\ Stale(prior, r) =>
                  /\ a = "QUARANTINED"
                  /\ t.hash = prior.hash /\ t.latest = prior.latest /\ t.deletion = prior.deletion
             /\ ~Repeated(prior, r) /\ ~Stale(prior, r) /\ Unchanged(prior, r) =>
                  /\ a = "NO_CHANGE"
                  /\ t.hash = r.hash /\ t.latest = Later(prior.latest, r.updated)
                  /\ t.deletion = prior.deletion
             /\ ~Repeated(prior, r) /\ ~Stale(prior, r) /\ ~Unchanged(prior, r) =>
                  /\ a = IF q.mapping = "ACCEPT" THEN "APPLIED" ELSE q.mapping
                  /\ a = "APPLIED" =>
                       /\ t.hash = r.hash /\ t.deletion = r.deletion
                       /\ t.latest = IF prior = None THEN r.updated
                                     ELSE Later(prior.latest, r.updated)
                  /\ a # "APPLIED" /\ prior # None =>
                       /\ t.hash = prior.hash /\ t.latest = prior.latest
                       /\ t.deletion = prior.deletion
<1>. DEFINE q == Reconcilable(r)
<1>1. /\ q.identity = r.identity /\ q.version = r.version /\ q.hash = r.hash
      /\ q.updated = r.updated /\ q.deletion = r.deletion
      /\ q.mapping \in {"ACCEPT", "QUARANTINED", "REJECTED", "RAISED"}
  BY ReconcilableFields, MapRecordAnswers
<1>2. /\ r.version \in Version /\ r.hash \in Hash /\ r.updated \in SourceTime
      /\ r.deletion \in Deletion /\ SourceTime \subseteq Nat
      /\ None \notin Hash /\ None \notin SourceState
  BY RecordsOK
<1>. HIDE DEF q
<1>3. /\ SeenBefore(prior) \in [Version -> Hash \cup {None}]
      /\ Observed(prior, q) = [SeenBefore(prior) EXCEPT ![r.version] = r.hash]
      /\ Observed(prior, q) \in [Version -> Hash \cup {None}]
  BY <1>1, <1>2 DEF SeenBefore, NothingSeen, SourceState, Observed
<1>4. /\ Repeated(prior, q) <=> Repeated(prior, r)
      /\ Stale(prior, q) <=> Stale(prior, r)
      /\ Unchanged(prior, q) <=> Unchanged(prior, r)
      /\ prior = None => ~Repeated(prior, r) /\ ~Stale(prior, r) /\ ~Unchanged(prior, r)
  <2>1. Repeated(prior, q) <=> Repeated(prior, r)
    BY <1>1 DEF Repeated
  <2>2. Stale(prior, q) <=> Stale(prior, r)
    BY <1>1 DEF Stale
  <2>3. Unchanged(prior, q) <=> Unchanged(prior, r)
    BY <1>1 DEF Unchanged
  <2>4. prior = None => ~Repeated(prior, r) /\ ~Stale(prior, r) /\ ~Unchanged(prior, r)
    BY <1>2 DEF Repeated, Stale, Unchanged, SeenBefore, NothingSeen
  <2>. QED  BY <2>1, <2>2, <2>3, <2>4
<1>. DEFINE seen == [prior EXCEPT !.seen = Observed(prior, q)]
<1>5. prior # None =>
        /\ seen \in SourceState /\ seen.seen = Observed(prior, q)
        /\ seen.hash = prior.hash /\ seen.latest = prior.latest /\ seen.deletion = prior.deletion
  BY <1>3 DEF SourceState
<1>6. prior # None =>
        LET t == Refreshed(prior, q)
        IN  /\ t \in SourceState /\ t.seen = Observed(prior, q) /\ t.hash = prior.hash
            /\ t.latest = Later(prior.latest, r.updated) /\ t.deletion = prior.deletion
  BY <1>1, <1>2, <1>3 DEF Refreshed, Later, SourceState
<1>7. LET t == Applied(prior, q)
      IN  /\ t \in SourceState /\ t.seen = Observed(prior, q) /\ t.hash = r.hash
          /\ t.latest = IF prior = None THEN r.updated ELSE Later(prior.latest, r.updated)
          /\ t.deletion = r.deletion
  BY <1>1, <1>2, <1>3 DEF Applied, Later, SourceState
<1>. DEFINE a == Verdict(prior, q)
            t == StateAfter(prior, q)
<1>8. /\ a \in {"APPLIED", "NO_CHANGE", "QUARANTINED", "REJECTED", "RAISED"}
      /\ Repeated(prior, r) =>
           a = IF prior.seen[r.version] = r.hash THEN "NO_CHANGE" ELSE "QUARANTINED"
      /\ ~Repeated(prior, r) /\ Stale(prior, r) => a = "QUARANTINED"
      /\ ~Repeated(prior, r) /\ ~Stale(prior, r) /\ Unchanged(prior, r) => a = "NO_CHANGE"
      /\ ~Repeated(prior, r) /\ ~Stale(prior, r) /\ ~Unchanged(prior, r) =>
           a = IF q.mapping = "ACCEPT" THEN "APPLIED" ELSE q.mapping
  <2>1. a = CASE Repeated(prior, r) ->
                   IF prior.seen[r.version] = r.hash THEN "NO_CHANGE" ELSE "QUARANTINED"
              [] ~Repeated(prior, r) /\ Stale(prior, r) -> "QUARANTINED"
              [] ~Repeated(prior, r) /\ ~Stale(prior, r) ->
                   IF Unchanged(prior, r) THEN "NO_CHANGE"
                   ELSE IF q.mapping = "ACCEPT" THEN "APPLIED" ELSE q.mapping
    BY <1>1, <1>4 DEF Verdict
  <2>. HIDE DEF a
  <2>. QED  BY <1>1, <2>1
<1>9. /\ Repeated(prior, r) => t = prior
      /\ ~Repeated(prior, r) =>
           t = IF a = "APPLIED" THEN Applied(prior, q)
               ELSE IF a = "NO_CHANGE" THEN Refreshed(prior, q)
               ELSE IF prior = None THEN None ELSE seen
  BY <1>4 DEF StateAfter
<1>. HIDE DEF a, t, seen
<1>10. /\ ~Repeated(prior, r) /\ a = "NO_CHANGE" => Unchanged(prior, r) /\ prior # None
       /\ Unchanged(prior, r) => r.hash = prior.hash
  BY <1>1, <1>4, <1>8 DEF Unchanged
<1>11. /\ t \in SourceState \cup {None}
       /\ ~Repeated(prior, r) =>
            /\ t = None <=> prior = None /\ a # "APPLIED"
            /\ t # None => t.seen = Observed(prior, q)
  BY <1>2, <1>5, <1>6, <1>7, <1>9, <1>10
<1>12. ~Repeated(prior, r) /\ Stale(prior, r) =>
         t.hash = prior.hash /\ t.latest = prior.latest /\ t.deletion = prior.deletion
  BY <1>4, <1>5, <1>8, <1>9
<1>13. ~Repeated(prior, r) /\ ~Stale(prior, r) /\ Unchanged(prior, r) =>
         /\ t.hash = r.hash /\ t.latest = Later(prior.latest, r.updated)
         /\ t.deletion = prior.deletion
  BY <1>6, <1>8, <1>9, <1>10
<1>14. ~Repeated(prior, r) /\ ~Stale(prior, r) /\ ~Unchanged(prior, r) =>
         /\ a = "APPLIED" =>
              /\ t.hash = r.hash /\ t.deletion = r.deletion
              /\ t.latest = IF prior = None THEN r.updated ELSE Later(prior.latest, r.updated)
         /\ a # "APPLIED" /\ prior # None =>
              t.hash = prior.hash /\ t.latest = prior.latest /\ t.deletion = prior.deletion
  BY <1>5, <1>7, <1>9, <1>10
<1>. QED  BY <1>3, <1>4, <1>8, <1>9, <1>11, <1>12, <1>13, <1>14 DEF a, t, q

\* What the loops know of the identities after the first n records.
StatesAt(e, n) == After("reconciliation", e, n).states
SeenAt(e, n) == After("mapping", e, n).seen
PreviousAt(e, n) == After("mapping", e, n).previous

LEMMA LoopsStart ==
  ASSUME NEW e
  PROVE  /\ StatesAt(e, 0) = [i \in Identity |-> None]
         /\ SeenAt(e, 0) = [v \in Identity \X Version |-> None]
         /\ PreviousAt(e, 0) = [i \in Identity |-> None]
<1>1. After("mapping", e, 0) = NothingMapped /\ After("reconciliation", e, 0) = NoCheckpoint
  BY OneRecordMore DEF Loop, Base
<1>. QED  BY <1>1 DEF StatesAt, SeenAt, PreviousAt, NothingMapped, NoCheckpoint

LEMMA MappingKnows ==
  ASSUME NEW e, NEW n \in Nat, NEW r, r = e[n + 1]
  PROVE  /\ SeenAt(e, n + 1) =
              [SeenAt(e, n) EXCEPT ![<<r.identity, r.version>>] =
                 IF SeenAt(e, n)[<<r.identity, r.version>>] = None THEN r.hash
                 ELSE SeenAt(e, n)[<<r.identity, r.version>>]]
         /\ PreviousAt(e, n + 1) =
              [PreviousAt(e, n) EXCEPT ![r.identity] =
                 IF ResultOf(e, n + 1).disposition = "ACCEPT" THEN r
                 ELSE PreviousAt(e, n)[r.identity]]
<1>1. PICK a : a = After("mapping", e, n)
  OBVIOUS
<1>2. After("mapping", e, n + 1) = Mapped(a, r)
  BY <1>1, OneRecordMore DEF Loop, Turn
<1>3. (n + 1) - 1 = n
  OBVIOUS
<1>4. ResultOf(e, n + 1) = Judged(a, r)
  BY <1>1, <1>3 DEF ResultOf
<1>5. /\ Mapped(a, r).seen =
           [a.seen EXCEPT ![<<r.identity, r.version>>] =
              IF a.seen[<<r.identity, r.version>>] = None THEN r.hash
              ELSE a.seen[<<r.identity, r.version>>]]
      /\ Mapped(a, r).previous =
           [a.previous EXCEPT ![r.identity] =
              IF Judged(a, r).disposition = "ACCEPT" THEN r ELSE a.previous[r.identity]]
  BY MappedFields
<1>6. SeenAt(e, n) = a.seen /\ SeenAt(e, n + 1) = Mapped(a, r).seen
  BY <1>1, <1>2 DEF SeenAt
<1>7. PreviousAt(e, n) = a.previous /\ PreviousAt(e, n + 1) = Mapped(a, r).previous
  BY <1>1, <1>2 DEF PreviousAt
<1>. QED  BY ONLY <1>4, <1>5, <1>6, <1>7

LEMMA LoopTypes ==
  ASSUME NEW e \in Seq(Records), NEW n \in 0..Len(e)
  PROVE  /\ StatesAt(e, n) \in [Identity -> SourceState \cup {None}]
         /\ SeenAt(e, n) \in [Identity \X Version -> Hash \cup {None}]
         /\ PreviousAt(e, n) \in [Identity -> Records \cup {None}]
<1>. DEFINE Typed(m) ==
       /\ StatesAt(e, m) \in [Identity -> SourceState \cup {None}]
       /\ SeenAt(e, m) \in [Identity \X Version -> Hash \cup {None}]
       /\ PreviousAt(e, m) \in [Identity -> Records \cup {None}]
            Q == {m \in Nat : m <= Len(e) => Typed(m)}
<1>1. 0 \in Q
  <2>1. /\ StatesAt(e, 0) = [i \in Identity |-> None]
        /\ SeenAt(e, 0) = [v \in Identity \X Version |-> None]
        /\ PreviousAt(e, 0) = [i \in Identity |-> None]
    BY LoopsStart
  <2>. QED  BY <2>1
<1>2. ASSUME NEW m \in Nat, m \in Q
      PROVE  m + 1 \in Q
  <2>. SUFFICES ASSUME m + 1 <= Len(e)
                PROVE  Typed(m + 1)
    OBVIOUS
  <2>. DEFINE r == e[m + 1]
  <2>1. /\ StatesAt(e, m) \in [Identity -> SourceState \cup {None}]
        /\ SeenAt(e, m) \in [Identity \X Version -> Hash \cup {None}]
        /\ PreviousAt(e, m) \in [Identity -> Records \cup {None}]
    BY <1>2
  <2>2. r \in Records /\ r.identity \in Identity /\ r.version \in Version /\ r.hash \in Hash
    BY RecordsOK
  <2>3. After("reconciliation", e, m + 1) =
          Reconciled(After("reconciliation", e, m), Reconcilable(r))
    BY OneRecordMore DEF Loop, Turn
  <2>9. /\ SeenAt(e, m + 1) =
             [SeenAt(e, m) EXCEPT ![<<r.identity, r.version>>] =
                IF SeenAt(e, m)[<<r.identity, r.version>>] = None THEN r.hash
                ELSE SeenAt(e, m)[<<r.identity, r.version>>]]
        /\ PreviousAt(e, m + 1) =
             [PreviousAt(e, m) EXCEPT ![r.identity] =
                IF ResultOf(e, m + 1).disposition = "ACCEPT" THEN r
                ELSE PreviousAt(e, m)[r.identity]]
    BY MappingKnows
  <2>. HIDE DEF r
  <2>4. StatesAt(e, m + 1) =
          [StatesAt(e, m) EXCEPT ![r.identity] =
             StateAfter(StatesAt(e, m)[r.identity], Reconcilable(r))]
    BY <2>2, <2>3, ReconcilableFields DEF Reconciled, StatesAt
  <2>5. StateAfter(StatesAt(e, m)[r.identity], Reconcilable(r)) \in SourceState \cup {None}
    BY <2>1, <2>2, RecordOutcome
  <2>6. StatesAt(e, m + 1) \in [Identity -> SourceState \cup {None}]
    BY <2>1, <2>4, <2>5
  <2>7. SeenAt(e, m + 1) \in [Identity \X Version -> Hash \cup {None}]
    <3>1. PICK v, x : /\ v = <<r.identity, r.version>>
                      /\ x = IF SeenAt(e, m)[v] = None THEN r.hash ELSE SeenAt(e, m)[v]
      OBVIOUS
    <3>2. v \in Identity \X Version
      BY <2>2, <3>1
    <3>3. x \in Hash \cup {None}
      BY <2>1, <2>2, <3>1, <3>2
    <3>4. SeenAt(e, m + 1) = [SeenAt(e, m) EXCEPT ![v] = x]
      BY <2>9, <3>1
    <3>. QED  BY ONLY <2>1, <3>3, <3>4
  <2>8. PreviousAt(e, m + 1) \in [Identity -> Records \cup {None}]
    BY ONLY <2>1, <2>2, <2>9
  <2>. QED  BY <2>6, <2>7, <2>8
<1>. HIDE DEF Typed
<1>3. \A m \in Q : m <= Len(e) => Typed(m)
  OBVIOUS
<1>4. n \in Nat /\ n <= Len(e)
  OBVIOUS
<1>. HIDE DEF Q
<1>5. Typed(n)
  BY <1>1, <1>2, <1>3, <1>4, Ascent
<1>. QED  BY <1>5 DEF Typed

\* The next record, for the identity it is about and for any other.
LEMMA NextRecord ==
  ASSUME NEW e \in Seq(Records), NEW n \in Nat, n < Len(e), NEW i \in Identity
  PROVE  LET r == e[n + 1]
             q == Reconcilable(r)
             s == StatesAt(e, n)[i]
         IN  /\ r \in Records
             /\ StatesAt(e, n + 1)[i] = IF r.identity = i THEN StateAfter(s, q) ELSE s
             /\ r.identity = i => AuditOf(e, n + 1).disposition = Verdict(s, q)
             /\ \A v \in Version :
                  SeenAt(e, n + 1)[<<i, v>>] =
                    IF r.identity = i /\ r.version = v /\ SeenAt(e, n)[<<i, v>>] = None
                    THEN r.hash ELSE SeenAt(e, n)[<<i, v>>]
             /\ PreviousAt(e, n + 1)[i] =
                  IF r.identity = i /\ ResultOf(e, n + 1).disposition = "ACCEPT"
                  THEN r ELSE PreviousAt(e, n)[i]
<1>. DEFINE r == e[n + 1]
<1>1. /\ r \in Records /\ r.identity \in Identity /\ r.version \in Version
      /\ (n + 1) - 1 = n /\ n \in 0..Len(e)
  BY RecordsOK
<1>2. /\ StatesAt(e, n) \in [Identity -> SourceState \cup {None}]
      /\ SeenAt(e, n) \in [Identity \X Version -> Hash \cup {None}]
      /\ PreviousAt(e, n) \in [Identity -> Records \cup {None}]
  BY <1>1, LoopTypes
<1>3. After("reconciliation", e, n + 1) =
        Reconciled(After("reconciliation", e, n), Reconcilable(r))
  BY OneRecordMore DEF Loop, Turn
<1>5. AuditOf(e, n + 1) = Entry(StatesAt(e, n)[r.identity], Reconcilable(r))
  BY <1>1, ReconcilableFields DEF AuditOf, StatesAt
<1>4. /\ SeenAt(e, n + 1) =
           [SeenAt(e, n) EXCEPT ![<<r.identity, r.version>>] =
              IF SeenAt(e, n)[<<r.identity, r.version>>] = None THEN r.hash
              ELSE SeenAt(e, n)[<<r.identity, r.version>>]]
      /\ PreviousAt(e, n + 1) =
           [PreviousAt(e, n) EXCEPT ![r.identity] =
              IF ResultOf(e, n + 1).disposition = "ACCEPT" THEN r
              ELSE PreviousAt(e, n)[r.identity]]
  BY MappingKnows
<1>. HIDE DEF r
<1>6. StatesAt(e, n + 1) =
        [StatesAt(e, n) EXCEPT ![r.identity] =
           StateAfter(StatesAt(e, n)[r.identity], Reconcilable(r))]
  BY <1>1, <1>3, ReconcilableFields DEF Reconciled, StatesAt
<1>9. \A v \in Version :
        SeenAt(e, n + 1)[<<i, v>>] =
          IF r.identity = i /\ r.version = v /\ SeenAt(e, n)[<<i, v>>] = None
          THEN r.hash ELSE SeenAt(e, n)[<<i, v>>]
  BY ONLY <1>1, <1>2, <1>4
<1>10. StatesAt(e, n + 1)[i] =
         IF r.identity = i THEN StateAfter(StatesAt(e, n)[i], Reconcilable(r))
         ELSE StatesAt(e, n)[i]
  BY <1>1, <1>2, <1>6
<1>11. PreviousAt(e, n + 1)[i] =
         IF r.identity = i /\ ResultOf(e, n + 1).disposition = "ACCEPT"
         THEN r ELSE PreviousAt(e, n)[i]
  BY ONLY <1>1, <1>2, <1>4
<1>12. r.identity = i =>
         AuditOf(e, n + 1).disposition = Verdict(StatesAt(e, n)[i], Reconcilable(r))
  BY <1>5 DEF Entry
<1>. QED  BY <1>1, <1>9, <1>10, <1>11, <1>12 DEF r

-----------------------------------------------------------------------------
(* 4. The two judges agree on an identity that is in order and whose first  *)
(* record is applied: they know the same versions of it, and the record the *)
(* mapping compares with has the hash and the latest time of the state.     *)

\* HashesNameContent, InOrder and Opened, of an export.
NamedFor(e, i) ==
  \A k, l \in DOMAIN e :
    e[k].identity = i /\ e[l].identity = i /\ e[k].hash = e[l].hash
      => e[k].payload = e[l].payload /\ e[k].deletion = e[l].deletion

OrderedFor(e, i) ==
  \A k, l \in DOMAIN e :
    k < l /\ e[k].identity = i /\ e[l].identity = i
      => /\ e[k].ingested <= e[l].ingested
         /\ e[l].deletion # "ACTIVE" => e[k].updated <= e[l].updated

OpenedFor(e, i) ==
  \E k \in DOMAIN e :
    /\ e[k].identity = i
    /\ \A l \in 1..(k - 1) : e[l].identity # i
    /\ AuditOf(e, k).disposition = "APPLIED"

Started(e, n, i) == \E k \in 1..n : e[k].identity = i

\* Nothing is known of i.
Blank(e, n, i) ==
  /\ StatesAt(e, n)[i] = None /\ PreviousAt(e, n)[i] = None
  /\ \A v \in Version : SeenAt(e, n)[<<i, v>>] = None

\* The two loops know the same of i.
Matched(e, n, i) ==
  LET s == StatesAt(e, n)[i]
      p == PreviousAt(e, n)[i]
  IN  /\ s # None /\ p # None
      /\ \E j \in 1..n : p = e[j] /\ e[j].identity = i
      /\ Profiled(p) /\ MapRecord(p).disposition = "ACCEPT"
      /\ s.hash = p.hash /\ s.latest = p.updated
      /\ \A v \in Version : s.seen[v] = SeenAt(e, n)[<<i, v>>]

Alike(d, a) ==
  /\ d = "ACCEPT" => a \in {"APPLIED", "NO_CHANGE"}
  /\ d = "QUARANTINE" <=> a = "QUARANTINED"
  /\ a = "APPLIED" => d = "ACCEPT"

LEMMA BlankUntilStarted ==
  ASSUME NEW e \in Seq(Records), NEW n \in 0..Len(e), NEW i \in Identity, ~Started(e, n, i)
  PROVE  Blank(e, n, i)
<1>. DEFINE Q == {m \in Nat : m <= Len(e) /\ ~Started(e, m, i) => Blank(e, m, i)}
<1>1. 0 \in Q
  BY LoopsStart DEF Blank
<1>2. ASSUME NEW m \in Nat, m \in Q
      PROVE  m + 1 \in Q
  <2>. SUFFICES ASSUME m + 1 <= Len(e), ~Started(e, m + 1, i)
                PROVE  Blank(e, m + 1, i)
    OBVIOUS
  <2>1. e[m + 1].identity # i /\ ~Started(e, m, i) /\ m < Len(e) /\ m <= Len(e)
    BY DEF Started
  <2>2. Blank(e, m, i)
    BY <1>2, <2>1
  <2>. QED  BY <2>1, <2>2, NextRecord DEF Blank
<1>3. \A m \in Q : m <= Len(e) /\ ~Started(e, m, i) => Blank(e, m, i)
  OBVIOUS
<1>4. n \in Nat /\ n <= Len(e)
  OBVIOUS
<1>. HIDE DEF Q
<1>. QED  BY <1>1, <1>2, <1>3, <1>4, Ascent

\* The first record of an identity that reconciliation applies.
LEMMA FirstRecord ==
  ASSUME NEW e \in Seq(Records), NEW n \in Nat, n < Len(e), NEW i \in Identity,
         Blank(e, n, i), e[n + 1].identity = i, AuditOf(e, n + 1).disposition = "APPLIED"
  PROVE  /\ Matched(e, n + 1, i)
         /\ ResultOf(e, n + 1).disposition = "ACCEPT"
<1>. DEFINE r == e[n + 1]
<1>1. /\ r \in Records /\ r.version \in Version /\ r.hash \in Hash /\ None \notin Hash
      /\ None \notin Records /\ (n + 1) - 1 = n /\ n + 1 \in 1..(n + 1)
  BY RecordsOK
<1>2. /\ StatesAt(e, n)[i] = None /\ PreviousAt(e, n)[i] = None
      /\ \A v \in Version : SeenAt(e, n)[<<i, v>>] = None
  BY DEF Blank
<1>3. /\ StatesAt(e, n + 1)[i] = StateAfter(None, Reconcilable(r))
      /\ Verdict(None, Reconcilable(r)) = "APPLIED"
      /\ \A v \in Version : SeenAt(e, n + 1)[<<i, v>>] = IF v = r.version THEN r.hash ELSE None
      /\ PreviousAt(e, n + 1)[i] =
           IF ResultOf(e, n + 1).disposition = "ACCEPT" THEN r ELSE None
  BY <1>2, NextRecord
<1>4. r.identity = i /\ ResultOf(e, n + 1) = Judged(After("mapping", e, n), r)
  BY <1>1 DEF ResultOf
<1>. HIDE DEF r
<1>5. ~Repeated(None, r) /\ ~Stale(None, r) /\ ~Unchanged(None, r)
  BY <1>1 DEF Repeated, Stale, Unchanged, SeenBefore, NothingSeen
<1>6. /\ Reconcilable(r).mapping = "ACCEPT"
      /\ LET t == StateAfter(None, Reconcilable(r))
         IN  /\ t # None /\ t.hash = r.hash /\ t.latest = r.updated
             /\ t.seen = [SeenBefore(None) EXCEPT ![r.version] = r.hash]
  <2>. DEFINE q == Reconcilable(r)
              t == StateAfter(None, q)
  <2>1. /\ Verdict(None, q) = IF q.mapping = "ACCEPT" THEN "APPLIED" ELSE q.mapping
        /\ t # None
        /\ t.hash = r.hash /\ t.latest = r.updated
        /\ t.seen = [SeenBefore(None) EXCEPT ![r.version] = r.hash]
    <3>1. None \in SourceState \cup {None}
      OBVIOUS
    <3>. QED  BY <1>1, <1>3, <1>5, <3>1, RecordOutcome
  <2>2. q.mapping # "APPLIED"
    BY <1>1, ReconcilableFields, MapRecordAnswers
  <2>. QED  BY <1>3, <2>1, <2>2
<1>7. Profiled(r) /\ MapRecord(r).disposition = "ACCEPT"
  BY <1>1, <1>6, ReconcilableFields, MapRecordAnswers
<1>8. ResultOf(e, n + 1).disposition = "ACCEPT"
  <2>1. /\ After("mapping", e, n).seen[<<r.identity, r.version>>] = None
        /\ After("mapping", e, n).previous[r.identity] = None
    BY <1>1, <1>2, <1>4 DEF SeenAt, PreviousAt
  <2>2. ~OutOfOrder(None, r)
    BY DEF OutOfOrder
  <2>3. ResultOf(e, n + 1) = WithSignals(None, r, MapRecord(r))
    BY <1>1, <1>4, <1>7, <2>1, <2>2 DEF Judged
  <2>. QED  BY <1>7, <2>3, MapRecordAnswers
<1>9. PreviousAt(e, n + 1)[i] = r
  BY <1>3, <1>8
<1>10. \A v \in Version :
         StatesAt(e, n + 1)[i].seen[v] = SeenAt(e, n + 1)[<<i, v>>]
  BY <1>1, <1>3, <1>6 DEF SeenBefore, NothingSeen
<1>11. \E j \in 1..(n + 1) : r = e[j] /\ e[j].identity = i
  BY <1>1, <1>4 DEF r
<1>. QED  BY <1>1, <1>3, <1>6, <1>7, <1>8, <1>9, <1>10, <1>11 DEF Matched

\* Every other one.
LEMMA LaterRecord ==
  ASSUME NEW e \in Seq(Records), NEW n \in Nat, n < Len(e), NEW i \in Identity,
         NamedFor(e, i), OrderedFor(e, i), Matched(e, n, i), e[n + 1].identity = i
  PROVE  /\ Matched(e, n + 1, i)
         /\ Alike(ResultOf(e, n + 1).disposition, AuditOf(e, n + 1).disposition)
<1>. DEFINE r == e[n + 1]
            s == StatesAt(e, n)[i]
            p == PreviousAt(e, n)[i]
            known == SeenAt(e, n)[<<i, r.version>>]
            d == ResultOf(e, n + 1).disposition
            a == AuditOf(e, n + 1).disposition
            t == StatesAt(e, n + 1)[i]
<1>1. /\ r \in Records /\ r.identity = i /\ r.version \in Version /\ r.hash \in Hash
      /\ r.updated \in Nat /\ r.ingested \in Nat
      /\ None \notin Hash /\ None \notin Records /\ None \notin SourceState
      /\ (n + 1) - 1 = n /\ n \in 0..Len(e)
  <2>1. r \in Records /\ r.identity = i /\ (n + 1) - 1 = n /\ n \in 0..Len(e)
    OBVIOUS
  <2>. HIDE DEF r
  <2>. QED  BY <2>1, RecordsOK
<1>2. /\ s # None /\ p # None /\ Profiled(p) /\ MapRecord(p).disposition = "ACCEPT"
      /\ s.hash = p.hash /\ s.latest = p.updated
      /\ \A v \in Version : s.seen[v] = SeenAt(e, n)[<<i, v>>]
  BY DEF Matched
<1>3. PICK j \in 1..n : p = e[j] /\ e[j].identity = i
  BY DEF Matched
<1>4. s \in SourceState /\ known \in Hash \cup {None} /\ known = s.seen[r.version]
  BY <1>1, <1>2, LoopTypes
<1>5. /\ p \in Records /\ p.identity = i /\ p.updated \in Nat /\ p.ingested \in Nat
      /\ p.ingested <= r.ingested
      /\ r.deletion # "ACTIVE" => p.updated <= r.updated
      /\ r.hash = p.hash => r.payload = p.payload /\ r.deletion = p.deletion
  <2>1. j \in DOMAIN e /\ n + 1 \in DOMAIN e /\ j < n + 1
    OBVIOUS
  <2>2. /\ e[j].ingested <= e[n + 1].ingested
        /\ e[n + 1].deletion # "ACTIVE" => e[j].updated <= e[n + 1].updated
    BY <1>1, <1>3, <2>1 DEF OrderedFor
  <2>3. p \in Records /\ p.identity = i
    BY <1>3, <2>1
  <2>4. r.hash = p.hash => r.payload = p.payload /\ r.deletion = p.deletion
    BY <1>1, <1>3, <2>1 DEF NamedFor
  <2>. HIDE DEF p
  <2>. QED  BY <1>3, <2>2, <2>3, <2>4, RecordsOK
<1>6. Profiled(r)
  BY <1>1, <1>2, <1>5 DEF Profiled
<1>7. /\ t = StateAfter(s, Reconcilable(r)) /\ a = Verdict(s, Reconcilable(r))
      /\ \A v \in Version :
           SeenAt(e, n + 1)[<<i, v>>] =
             IF r.version = v /\ SeenAt(e, n)[<<i, v>>] = None
             THEN r.hash ELSE SeenAt(e, n)[<<i, v>>]
      /\ PreviousAt(e, n + 1)[i] = IF d = "ACCEPT" THEN r ELSE p
  BY <1>1, NextRecord
<1>8. \E k \in 1..(n + 1) : r = e[k] /\ e[k].identity = i
  <2>1. n + 1 \in 1..(n + 1)
    OBVIOUS
  <2>. QED  BY <2>1
<1>9. \E k \in 1..(n + 1) : p = e[k] /\ e[k].identity = i
  <2>1. j \in 1..(n + 1)
    OBVIOUS
  <2>. QED  BY <2>1, <1>3
<1>10. ResultOf(e, n + 1) =
         CASE known = r.hash -> Refused("REJECT", "DUPLICATE_SOURCE_VERSION")
           [] known \notin {None, r.hash} -> Refused("QUARANTINE", "SOURCE_VERSION_CONFLICT")
           [] known = None /\ ~Profiled(r) -> Refused("REJECT", "PROFILE_NOT_FOUND")
           [] known = None /\ Profiled(r) /\ OutOfOrder(p, r) ->
                Refused("QUARANTINE", "OUT_OF_ORDER_SOURCE_UPDATE")
           [] known = None /\ Profiled(r) /\ ~OutOfOrder(p, r) ->
                WithSignals(p, r, MapRecord(r))
  BY <1>1 DEF ResultOf, Judged, SeenAt, PreviousAt
<1>11. Repeated(s, r) <=> known # None
  BY <1>2, <1>4 DEF Repeated, SeenBefore
<1>12. OutOfOrder(p, r) <=> r.updated < p.updated
  BY <1>2, <1>5 DEF OutOfOrder
<1>13. Stale(s, r) <=> OutOfOrder(p, r)
  BY <1>1, <1>2, <1>5, <1>12 DEF Stale
<1>14. Unchanged(s, r) <=> r.hash = p.hash
  BY <1>2 DEF Unchanged
<1>15. \A v \in Version : Matched(e, n, i)
  OBVIOUS
<1>. HIDE DEF r, s, p, known, d, a, t
<1>16. CASE known # None
  <2>1. t = s /\ a = IF known = r.hash THEN "NO_CHANGE" ELSE "QUARANTINED"
    BY <1>1, <1>4, <1>7, <1>11, <1>16, RecordOutcome
  <2>2. d = IF known = r.hash THEN "REJECT" ELSE "QUARANTINE"
    BY <1>10, <1>16 DEF Refused, d
  <2>3. /\ PreviousAt(e, n + 1)[i] = p
        /\ \A v \in Version : SeenAt(e, n + 1)[<<i, v>>] = SeenAt(e, n)[<<i, v>>]
    BY <1>7, <1>16, <2>2 DEF known
  <2>4. Matched(e, n + 1, i)
    BY <1>2, <1>9, <2>1, <2>3 DEF Matched, t
  <2>5. Alike(d, a)
    BY <2>1, <2>2 DEF Alike
  <2>. QED  BY <2>4, <2>5 DEF d, a
<1>17. CASE known = None
  <2>1. /\ ~Repeated(s, r) /\ r.hash # known /\ t # None
        /\ t.seen = [s.seen EXCEPT ![r.version] = r.hash]
    <3>1. ~Repeated(s, r) /\ r.hash # known
      BY <1>1, <1>11, <1>17
    <3>2. s \in SourceState \cup {None}
      BY <1>4
    <3>3. SeenBefore(s) = s.seen
      BY <1>2 DEF SeenBefore
    <3>4. PICK x : /\ x = StateAfter(s, Reconcilable(r))
                   /\ x = None <=> s = None /\ Verdict(s, Reconcilable(r)) # "APPLIED"
                   /\ x # None => x.seen = [SeenBefore(s) EXCEPT ![r.version] = r.hash]
      BY ONLY <1>1, <3>1, <3>2, RecordOutcome
    <3>. QED  BY <1>2, <1>7, <3>1, <3>3, <3>4
  <2>2. \A v \in Version : t.seen[v] = SeenAt(e, n + 1)[<<i, v>>]
    <3>1. s.seen \in [Version -> Hash \cup {None}]
      BY <1>4 DEF SourceState
    <3>. QED  BY <1>1, <1>2, <1>7, <1>17, <2>1, <3>1 DEF known
  <2>3. CASE OutOfOrder(p, r)
    <3>1. d = "QUARANTINE"
      BY <1>6, <1>10, <1>17, <2>1, <2>3 DEF Refused, d
    <3>2. a = "QUARANTINED" /\ t.hash = s.hash /\ t.latest = s.latest
      BY <1>1, <1>4, <1>7, <1>13, <2>1, <2>3, RecordOutcome
    <3>3. PreviousAt(e, n + 1)[i] = p
      BY <1>7, <3>1
    <3>4. Matched(e, n + 1, i)
      BY <1>2, <1>9, <2>1, <2>2, <3>2, <3>3 DEF Matched, t
    <3>5. Alike(d, a)
      BY <3>1, <3>2 DEF Alike
    <3>. QED  BY <3>4, <3>5 DEF d, a
  <2>4. CASE ~OutOfOrder(p, r)
    <3>1. d = MapRecord(r).disposition
      <4>1. ResultOf(e, n + 1) = WithSignals(p, r, MapRecord(r))
        BY <1>6, <1>10, <1>17, <2>1, <2>4
      <4>. QED  BY <4>1, MapRecordAnswers DEF d
    <3>2. ~Stale(s, r) /\ Later(s.latest, r.updated) = r.updated
      BY <1>1, <1>2, <1>5, <1>12, <1>13, <2>4 DEF Later
    <3>3. CASE r.hash = p.hash
      <4>1. d = "ACCEPT"
        BY <1>1, <1>2, <1>5, <3>1, <3>3, MapRecordOfContent
      <4>2. a = "NO_CHANGE" /\ t.hash = r.hash /\ t.latest = r.updated
        BY <1>1, <1>4, <1>7, <1>14, <2>1, <3>2, <3>3, RecordOutcome
      <4>3. PreviousAt(e, n + 1)[i] = r
        BY <1>7, <4>1
      <4>4. Matched(e, n + 1, i)
        BY <1>1, <1>6, <1>8, <2>1, <2>2, <3>1, <4>1, <4>2, <4>3 DEF Matched, t
      <4>5. Alike(d, a)
        BY <4>1, <4>2 DEF Alike
      <4>. QED  BY <4>4, <4>5 DEF d, a
    <3>4. CASE r.hash # p.hash
      <4>. DEFINE mapping == Reconcilable(r).mapping
      <4>1. /\ mapping = CASE d = "ACCEPT" -> "ACCEPT" [] d = "QUARANTINE" -> "QUARANTINED"
                           [] d = "RAISED" -> "RAISED"
            /\ d \in {"ACCEPT", "QUARANTINE", "RAISED"}
        BY <1>1, <1>6, <3>1, ReconcilableFields, MapRecordAnswers
      <4>2. /\ a = IF mapping = "ACCEPT" THEN "APPLIED" ELSE mapping
            /\ a = "APPLIED" => t.hash = r.hash /\ t.latest = r.updated
            /\ a # "APPLIED" => t.hash = s.hash /\ t.latest = s.latest
        <5>1. s \in SourceState \cup {None} /\ ~Unchanged(s, r)
          BY <1>4, <1>14, <3>4
        <5>. QED  BY <1>1, <1>2, <1>7, <2>1, <3>2, <5>1, RecordOutcome
      <4>. HIDE DEF mapping
      <4>3. CASE d = "ACCEPT"
        <5>1. a = "APPLIED" /\ PreviousAt(e, n + 1)[i] = r
          BY <1>7, <4>1, <4>2, <4>3
        <5>2. Matched(e, n + 1, i)
          BY <1>1, <1>6, <1>8, <2>1, <2>2, <3>1, <4>2, <4>3, <5>1 DEF Matched, t
        <5>3. Alike(d, a)
          BY <4>3, <5>1 DEF Alike
        <5>. QED  BY <5>2, <5>3 DEF d, a
      <4>4. CASE d # "ACCEPT"
        <5>1. /\ a = IF d = "QUARANTINE" THEN "QUARANTINED" ELSE "RAISED"
              /\ PreviousAt(e, n + 1)[i] = p
          BY <1>7, <4>1, <4>2, <4>4
        <5>2. Matched(e, n + 1, i)
          BY <1>2, <1>9, <2>1, <2>2, <4>2, <5>1 DEF Matched, t
        <5>3. Alike(d, a)
          BY <4>1, <4>4, <5>1 DEF Alike
        <5>. QED  BY <5>2, <5>3 DEF d, a
      <4>. QED  BY <4>3, <4>4
    <3>. QED  BY <3>3, <3>4
  <2>. QED  BY <2>3, <2>4
<1>. QED  BY <1>16, <1>17

LEMMA JudgedAlike ==
  ASSUME NEW e \in Seq(Records), NEW i \in Identity,
         NamedFor(e, i), OrderedFor(e, i), OpenedFor(e, i), NEW n \in 0..Len(e)
  PROVE  /\ Started(e, n, i) => Matched(e, n, i)
         /\ \A k \in 1..n : e[k].identity = i =>
              Alike(ResultOf(e, k).disposition, AuditOf(e, k).disposition)
<1>. DEFINE Good(m) ==
       /\ Started(e, m, i) => Matched(e, m, i)
       /\ \A k \in 1..m : e[k].identity = i =>
            Alike(ResultOf(e, k).disposition, AuditOf(e, k).disposition)
            Q == {m \in Nat : m <= Len(e) => Good(m)}
<1>1. 0 \in Q
  BY DEF Started
<1>2. ASSUME NEW m \in Nat, m \in Q
      PROVE  m + 1 \in Q
  <2>. SUFFICES ASSUME m + 1 <= Len(e)
                PROVE  Good(m + 1)
    OBVIOUS
  <2>1. Good(m) /\ m < Len(e) /\ m \in 0..Len(e)
    BY <1>2
  <2>2. CASE e[m + 1].identity # i
    <3>1. Started(e, m + 1, i) => Started(e, m, i)
      BY <2>2 DEF Started
    <3>2. Matched(e, m, i) => Matched(e, m + 1, i)
      <4>. SUFFICES ASSUME Matched(e, m, i)
                    PROVE  Matched(e, m + 1, i)
        OBVIOUS
      <4>1. /\ StatesAt(e, m + 1)[i] = StatesAt(e, m)[i]
            /\ PreviousAt(e, m + 1)[i] = PreviousAt(e, m)[i]
            /\ \A v \in Version : SeenAt(e, m + 1)[<<i, v>>] = SeenAt(e, m)[<<i, v>>]
        BY <2>1, <2>2, NextRecord
      <4>2. 1..m \subseteq 1..(m + 1)
        OBVIOUS
      <4>. QED  BY <4>1, <4>2 DEF Matched
    <3>. QED  BY <2>1, <2>2, <3>1, <3>2
  <2>3. CASE e[m + 1].identity = i
    <3>1. /\ Matched(e, m + 1, i)
          /\ Alike(ResultOf(e, m + 1).disposition, AuditOf(e, m + 1).disposition)
      <4>1. CASE Started(e, m, i)
        BY <2>1, <2>3, <4>1, LaterRecord
      <4>2. CASE ~Started(e, m, i)
        <5>1. Blank(e, m, i)
          BY <2>1, <4>2, BlankUntilStarted
        <5>2. PICK k \in DOMAIN e :
                 /\ e[k].identity = i /\ \A l \in 1..(k - 1) : e[l].identity # i
                 /\ AuditOf(e, k).disposition = "APPLIED"
          BY DEF OpenedFor
        <5>3. k = m + 1
          <6>1. k \in 1..Len(e)
            OBVIOUS
          <6>2. ~(k <= m)
            BY <4>2, <5>2, <6>1 DEF Started
          <6>3. ~(m + 1 <= k - 1)
            BY <2>3, <5>2
          <6>. QED  BY <6>1, <6>2, <6>3
        <5>. QED  BY <2>1, <2>3, <5>1, <5>2, <5>3, FirstRecord DEF Alike
      <4>. QED  BY <4>1, <4>2
    <3>. QED  BY <2>1, <3>1
  <2>. QED  BY <2>2, <2>3
<1>. HIDE DEF Good
<1>3. \A m \in Q : m <= Len(e) => Good(m)
  OBVIOUS
<1>4. n \in Nat /\ n <= Len(e)
  OBVIOUS
<1>. HIDE DEF Q
<1>5. Good(n)
  BY <1>1, <1>2, <1>3, <1>4, Ascent
<1>. QED  BY <1>5 DEF Good

\* The mapping and the reconciliation judge alike whatever is ingested in order
\* under hashes that name its content, for every export and every registry of
\* profiles.
THEOREM JudgesHold == DrySpec => []JudgesAgree
<1>1. BlockedInv => JudgesAgree
  <2>. SUFFICES ASSUME export \in Seq(Records), NEW k \in DOMAIN export,
                       HashesNameContent(export[k].identity),
                       InOrder(export[k].identity), Opened(Sync.audits, export[k].identity)
                PROVE  Alike(MapSourceRecords(export)[k].disposition, Sync.audits[k].disposition)
    BY DEF BlockedInv, JudgesAgree, Alike
  <2>. DEFINE i == export[k].identity
              n == Len(export)
  <2>1. i \in Identity /\ n \in 0..n /\ k \in 1..n
    BY RecordsOK
  <2>2. /\ MapSourceRecords(export) = After("mapping", export, n).results
        /\ Sync.audits = After("reconciliation", export, n).audits
    BY WholeExport DEF Sync
  <2>3. \A l \in 1..n : /\ MapSourceRecords(export)[l] = ResultOf(export, l)
                        /\ Sync.audits[l] = AuditOf(export, l)
    BY <2>2, AnswersInTurn
  <2>4. NamedFor(export, i) /\ OrderedFor(export, i) /\ OpenedFor(export, i)
    BY <2>3 DEF HashesNameContent, InOrder, Opened, NamedFor, OrderedFor, OpenedFor
  <2>. HIDE DEF i
  <2>5. \A l \in 1..n : export[l].identity = i =>
           Alike(ResultOf(export, l).disposition, AuditOf(export, l).disposition)
    BY <2>1, <2>4, JudgedAlike
  <2>. QED  BY <2>1, <2>3, <2>5 DEF i
<1>2. DryInit => BlockedInv
  BY NothingLasts DEF DryInit, BlockedInv
<1>. QED  BY <1>1, <1>2, BlockedStep, PTL DEF DrySpec

-----------------------------------------------------------------------------
(* 5. Where nothing was put aside, the state of an identity whose hashes    *)
(* name its content is that of the last new version of its source, and the  *)
(* last record applied to it has the same content.                          *)

Clean(e) == \A k \in 1..Len(e) : AuditOf(e, k).disposition \notin {"QUARANTINED", "RAISED"}

\* Fresh, among the first n records.
NewIn(e, n, i) ==
  {k \in 1..n : /\ e[k].identity = i
                /\ \A l \in 1..(k - 1) :
                     e[l].identity = i => e[l].version # e[k].version}

AppliedIn(e, n, i) ==
  {k \in 1..n : e[k].identity = i /\ AuditOf(e, k).disposition = "APPLIED"}

IsLast(k, K) == k \in K /\ \A l \in K : l <= k

\* f is the last new version of i, a the last record applied to it.
Follows(e, n, i, f, a) ==
  LET s == StatesAt(e, n)[i]
  IN  /\ s # None
      /\ \A k \in 1..n : e[k].identity = i => s.seen[e[k].version] # None
      /\ \A v \in Version :
           s.seen[v] # None => \E k \in 1..n : e[k].identity = i /\ e[k].version = v
      /\ IsLast(f, NewIn(e, n, i)) /\ IsLast(a, AppliedIn(e, n, i))
      /\ e[f].hash = s.hash /\ e[f].deletion = s.deletion
      /\ e[a].hash = s.hash /\ MapRecord(e[a]).disposition = "ACCEPT"

LEMMA NothingToCompare ==
  ASSUME NEW r \in Records
  PROVE  ~Repeated(None, r) /\ ~Stale(None, r) /\ ~Unchanged(None, r)
  BY RecordsOK DEF Repeated, Stale, Unchanged, SeenBefore, NothingSeen

LEMMA OneMoreIsLast ==
  ASSUME NEW n \in Nat, NEW K, K \subseteq 1..n
  PROVE  IsLast(n + 1, K \cup {n + 1})
  BY DEF IsLast

LEMMA IntervalGrows ==
  ASSUME NEW n \in Nat
  PROVE  1..(n + 1) = (1..n) \cup {n + 1} /\ n + 1 \notin 1..n /\ (n + 1) - 1 = n
  OBVIOUS

\* What has no profile is never applied.
LEMMA UnprofiledStaysOut ==
  ASSUME NEW e \in Seq(Records), NEW i \in Identity, TypeOf[i] \notin DOMAIN Profiles,
         NEW n \in 0..Len(e)
  PROVE  StatesAt(e, n)[i] = None
<1>. DEFINE Q == {m \in Nat : m <= Len(e) => StatesAt(e, m)[i] = None}
<1>1. 0 \in Q
  BY LoopsStart
<1>2. ASSUME NEW m \in Nat, m \in Q
      PROVE  m + 1 \in Q
  <2>. SUFFICES ASSUME m + 1 <= Len(e)
                PROVE  StatesAt(e, m + 1)[i] = None
    OBVIOUS
  <2>1. StatesAt(e, m)[i] = None /\ m < Len(e)
    BY <1>2
  <2>2. PICK r : r = e[m + 1]
    OBVIOUS
  <2>3. /\ r \in Records
        /\ StatesAt(e, m + 1)[i] =
             IF r.identity = i THEN StateAfter(None, Reconcilable(r)) ELSE None
    BY <2>1, <2>2, NextRecord
  <2>4. ASSUME r.identity = i
        PROVE  StateAfter(None, Reconcilable(r)) = None
    <3>1. ~Repeated(None, r) /\ ~Stale(None, r) /\ ~Unchanged(None, r)
      BY <2>3, NothingToCompare
    <3>2. Reconcilable(r).mapping = "REJECTED"
      <4>1. ~Profiled(r)
        BY <2>4 DEF Profiled
      <4>. QED  BY <2>3, <4>1, ReconcilableFields
    <3>3. None \in SourceState \cup {None}
      OBVIOUS
    <3>4. PICK q, a, t : /\ q = Reconcilable(r) /\ a = Verdict(None, q)
                         /\ t = StateAfter(None, q)
      OBVIOUS
    <3>5. t = None <=> None = None /\ a # "APPLIED"
      BY ONLY <2>3, <3>1, <3>3, <3>4, RecordOutcome
    <3>6. a = IF q.mapping = "ACCEPT" THEN "APPLIED" ELSE q.mapping
      BY ONLY <2>3, <3>1, <3>3, <3>4, RecordOutcome
    <3>. QED  BY <3>2, <3>4, <3>5, <3>6
  <2>. QED  BY <2>3, <2>4
<1>3. \A m \in Q : m <= Len(e) => StatesAt(e, m)[i] = None
  OBVIOUS
<1>4. n \in Nat /\ n <= Len(e)
  OBVIOUS
<1>. HIDE DEF Q
<1>. QED  BY <1>1, <1>2, <1>3, <1>4, Ascent

\* A record of another identity.
LEMMA OthersFollow ==
  ASSUME NEW e \in Seq(Records), NEW n \in Nat, n < Len(e), NEW i \in Identity,
         e[n + 1].identity # i, NEW f, NEW a, Follows(e, n, i, f, a)
  PROVE  Follows(e, n + 1, i, f, a)
<1>1. 1..(n + 1) = (1..n) \cup {n + 1} /\ n + 1 \notin 1..n
  BY IntervalGrows
<1>2. StatesAt(e, n + 1)[i] = StatesAt(e, n)[i]
  BY NextRecord
<1>3. NewIn(e, n + 1, i) = NewIn(e, n, i) /\ AppliedIn(e, n + 1, i) = AppliedIn(e, n, i)
  BY <1>1 DEF NewIn, AppliedIn
<1>. QED  BY <1>1, <1>2, <1>3 DEF Follows

\* A record of the identity.
LEMMA FollowsOn ==
  ASSUME NEW e \in Seq(Records), NEW n \in Nat, n < Len(e), NEW i \in Identity,
         TypeOf[i] \in DOMAIN Profiles, NamedFor(e, i), Clean(e), e[n + 1].identity = i,
         NEW f, NEW a, Started(e, n, i) => Follows(e, n, i, f, a)
  PROVE  \E g, b : Follows(e, n + 1, i, g, b)
<1>1. PICK r, s, t, verdict :
         /\ r = e[n + 1] /\ s = StatesAt(e, n)[i] /\ t = StatesAt(e, n + 1)[i]
         /\ verdict = AuditOf(e, n + 1).disposition
  OBVIOUS
<1>2. /\ r \in Records /\ r.identity = i /\ Profiled(r)
      /\ r.version \in Version /\ r.hash \in Hash /\ None \notin Hash /\ None \notin SourceState
  BY <1>1, RecordsOK DEF Profiled
<1>3. /\ 1..(n + 1) = (1..n) \cup {n + 1} /\ n + 1 \notin 1..n /\ (n + 1) - 1 = n
      /\ n \in 0..Len(e) /\ n + 1 \in 1..Len(e)
  BY IntervalGrows
<1>4. /\ t = StateAfter(s, Reconcilable(r)) /\ verdict = Verdict(s, Reconcilable(r))
      /\ verdict \notin {"QUARANTINED", "RAISED"}
  BY <1>1, <1>2, <1>3, NextRecord DEF Clean
<1>5. s \in SourceState \cup {None}
  BY <1>1, <1>3, LoopTypes
<1>6. ~Started(e, n, i) => s = None
  BY <1>1, <1>3, BlankUntilStarted DEF Blank
<1>7. Repeated(s, r) <=> \E k \in 1..n : e[k].identity = i /\ e[k].version = r.version
  <2>1. CASE Started(e, n, i)
    BY <1>1, <1>2, <2>1 DEF Follows, Repeated, SeenBefore
  <2>2. CASE ~Started(e, n, i)
    BY <1>2, <1>6, <2>2, NothingToCompare DEF Started
  <2>. QED  BY <2>1, <2>2
<1>8. NewIn(e, n + 1, i) = NewIn(e, n, i) \cup (IF Repeated(s, r) THEN {} ELSE {n + 1})
  BY <1>1, <1>2, <1>3, <1>7 DEF NewIn
<1>9. AppliedIn(e, n + 1, i) =
        AppliedIn(e, n, i) \cup (IF verdict = "APPLIED" THEN {n + 1} ELSE {})
  BY <1>1, <1>2, <1>3 DEF AppliedIn
<1>10. NewIn(e, n, i) \subseteq 1..n /\ AppliedIn(e, n, i) \subseteq 1..n
  BY DEF NewIn, AppliedIn
<1>11. CASE Repeated(s, r)
  <2>1. Started(e, n, i)
    BY <1>7, <1>11 DEF Started
  <2>2. t = s /\ verdict # "APPLIED"
    BY ONLY <1>2, <1>4, <1>5, <1>11, RecordOutcome
  <2>3. NewIn(e, n + 1, i) = NewIn(e, n, i) /\ AppliedIn(e, n + 1, i) = AppliedIn(e, n, i)
    BY <1>8, <1>9, <1>11, <2>2
  <2>4. s.seen[r.version] # None
    BY <1>2, <1>11, <1>6, NothingToCompare DEF Repeated, SeenBefore
  <2>5. Follows(e, n, i, f, a)
    BY <2>1
  <2>6. /\ \A k \in 1..n : e[k].identity = i => s.seen[e[k].version] # None
        /\ \A v \in Version :
             s.seen[v] # None => \E k \in 1..n : e[k].identity = i /\ e[k].version = v
    BY <1>1, <2>5 DEF Follows
  <2>7. /\ \A k \in 1..(n + 1) : e[k].identity = i => s.seen[e[k].version] # None
        /\ \A v \in Version :
             s.seen[v] # None => \E k \in 1..(n + 1) : e[k].identity = i /\ e[k].version = v
    BY <1>1, <1>3, <2>4, <2>6
  <2>8. /\ s # None
        /\ IsLast(f, NewIn(e, n, i)) /\ IsLast(a, AppliedIn(e, n, i))
        /\ e[f].hash = s.hash /\ e[f].deletion = s.deletion
        /\ e[a].hash = s.hash /\ MapRecord(e[a]).disposition = "ACCEPT"
    BY <1>1, <2>5 DEF Follows
  <2>9. Follows(e, n + 1, i, f, a)
    BY <1>1, <2>2, <2>3, <2>7, <2>8 DEF Follows
  <2>. QED  BY <2>9
<1>12. CASE ~Repeated(s, r)
  <2>1. ~Stale(s, r)
    BY ONLY <1>2, <1>4, <1>5, <1>12, RecordOutcome
  <2>2. /\ t # None
        /\ t.hash = r.hash
        /\ t.seen = [SeenBefore(s) EXCEPT ![r.version] = r.hash]
        /\ \/ /\ verdict = "APPLIED" /\ t.deletion = r.deletion
              /\ MapRecord(r).disposition = "ACCEPT"
           \/ /\ verdict = "NO_CHANGE" /\ t.deletion = s.deletion
              /\ Unchanged(s, r)
    <3>1. PICK m : /\ m = Reconcilable(r).mapping /\ m \notin {"APPLIED", "REJECTED", "NO_CHANGE"}
                   /\ m = "ACCEPT" => MapRecord(r).disposition = "ACCEPT"
      <4>1. MapRecord(r).disposition \in {"ACCEPT", "QUARANTINE", "RAISED"}
        BY MapRecordAnswers
      <4>. QED  BY <1>2, <4>1, ReconcilableFields
    <3>2. CASE Unchanged(s, r)
      <4>1. verdict = "NO_CHANGE" /\ t.hash = r.hash /\ t.deletion = s.deletion
        BY ONLY <1>2, <1>4, <1>5, <1>12, <2>1, <3>2, RecordOutcome
      <4>2. s # None
        BY <1>2, <3>2, NothingToCompare
      <4>3. t # None /\ t.seen = [SeenBefore(s) EXCEPT ![r.version] = r.hash]
        BY ONLY <1>2, <1>4, <1>5, <1>12, <4>2, RecordOutcome
      <4>. QED  BY <3>2, <4>1, <4>3
    <3>3. CASE ~Unchanged(s, r)
      <4>1. /\ verdict = IF m = "ACCEPT" THEN "APPLIED" ELSE m
            /\ verdict \in {"APPLIED", "NO_CHANGE", "QUARANTINED", "REJECTED", "RAISED"}
        BY ONLY <1>2, <1>4, <1>5, <1>12, <2>1, <3>1, <3>3, RecordOutcome
      <4>2. verdict = "APPLIED" /\ m = "ACCEPT"
        BY <1>4, <3>1, <4>1
      <4>3. t.hash = r.hash /\ t.deletion = r.deletion
        BY ONLY <1>2, <1>4, <1>5, <1>12, <2>1, <3>3, <4>2, RecordOutcome
      <4>4. t # None /\ t.seen = [SeenBefore(s) EXCEPT ![r.version] = r.hash]
        BY ONLY <1>2, <1>4, <1>5, <1>12, <4>2, RecordOutcome
      <4>. QED  BY <3>1, <4>2, <4>3, <4>4
    <3>. QED  BY <3>2, <3>3
  <2>3. /\ SeenBefore(s) \in [Version -> Hash \cup {None}]
        /\ s # None => SeenBefore(s) = s.seen
    BY <1>5 DEF SeenBefore, NothingSeen, SourceState
  <2>4. \A v \in Version : t.seen[v] = IF v = r.version THEN r.hash ELSE SeenBefore(s)[v]
    BY <1>2, <2>2, <2>3
  <2>5. \A k \in 1..(n + 1) : e[k].identity = i => t.seen[e[k].version] # None
    <3>1. SUFFICES ASSUME NEW k \in 1..(n + 1), e[k].identity = i
                   PROVE  t.seen[e[k].version] # None
      OBVIOUS
    <3>2. e[k].version \in Version
      BY <1>3, RecordsOK
    <3>3. CASE k = n + 1
      BY <1>1, <1>2, <2>4, <3>3
    <3>4. CASE k \in 1..n
      <4>1. Started(e, n, i)
        BY <3>1, <3>4 DEF Started
      <4>2. s # None /\ s.seen[e[k].version] # None
        BY <1>1, <3>1, <3>4, <4>1 DEF Follows
      <4>. QED  BY <1>2, <2>3, <2>4, <3>2, <4>2
    <3>. QED  BY <1>3, <3>3, <3>4
  <2>6. \A v \in Version :
          t.seen[v] # None => \E k \in 1..(n + 1) : e[k].identity = i /\ e[k].version = v
    <3>1. SUFFICES ASSUME NEW v \in Version, t.seen[v] # None
                   PROVE  \E k \in 1..(n + 1) : e[k].identity = i /\ e[k].version = v
      OBVIOUS
    <3>2. CASE v = r.version
      BY <1>1, <1>2, <1>3, <3>2
    <3>3. CASE v # r.version
      <4>1. SeenBefore(s)[v] # None
        BY <2>4, <3>1, <3>3
      <4>2. s # None
        BY <4>1 DEF SeenBefore, NothingSeen
      <4>3. \E k \in 1..n : e[k].identity = i /\ e[k].version = v
        BY <1>1, <1>6, <2>3, <4>1, <4>2 DEF Follows
      <4>. QED  BY <1>3, <4>3
    <3>. QED  BY <3>2, <3>3
  <2>7. IsLast(n + 1, NewIn(e, n + 1, i))
    BY <1>8, <1>10, <1>12, OneMoreIsLast
  <2>8. CASE verdict = "APPLIED"
    <3>1. IsLast(n + 1, AppliedIn(e, n + 1, i))
      BY <1>9, <1>10, <2>8, OneMoreIsLast
    <3>2. t.deletion = r.deletion /\ MapRecord(r).disposition = "ACCEPT"
      BY <2>2, <2>8
    <3>3. Follows(e, n + 1, i, n + 1, n + 1)
      BY <1>1, <2>2, <2>5, <2>6, <2>7, <3>1, <3>2 DEF Follows
    <3>. QED  BY <3>3
  <2>9. CASE verdict # "APPLIED"
    <3>1. t.deletion = s.deletion /\ Unchanged(s, r)
      BY <2>2, <2>9
    <3>2. s # None /\ r.hash = s.hash
      BY <1>2, <3>1, NothingToCompare DEF Unchanged
    <3>3. Follows(e, n, i, f, a)
      BY <1>6, <3>2
    <3>4. /\ IsLast(a, AppliedIn(e, n + 1, i))
          /\ e[a].hash = s.hash /\ MapRecord(e[a]).disposition = "ACCEPT"
          /\ f \in NewIn(e, n, i) /\ e[f].hash = s.hash /\ e[f].deletion = s.deletion
      BY <1>1, <1>9, <2>9, <3>3 DEF Follows, IsLast
    <3>5. f \in 1..Len(e) /\ e[f].identity = i
      BY <1>3, <3>4 DEF NewIn
    <3>6. r.deletion = s.deletion
      <4>1. f \in DOMAIN e /\ n + 1 \in DOMAIN e
        BY <1>3, <3>5
      <4>. QED  BY <1>1, <1>2, <3>2, <3>4, <3>5, <4>1 DEF NamedFor
    <3>7. Follows(e, n + 1, i, n + 1, a)
      BY <1>1, <2>2, <2>5, <2>6, <2>7, <3>1, <3>2, <3>4, <3>6 DEF Follows
    <3>. QED  BY <3>7
  <2>. QED  BY <2>8, <2>9
<1>. QED  BY <1>11, <1>12

LEMMA StatesFollow ==
  ASSUME NEW e \in Seq(Records), NEW i \in Identity, TypeOf[i] \in DOMAIN Profiles,
         NamedFor(e, i), Clean(e), NEW n \in 0..Len(e), Started(e, n, i)
  PROVE  \E f, a : Follows(e, n, i, f, a)
<1>. DEFINE Good(m) == Started(e, m, i) => \E f, a : Follows(e, m, i, f, a)
            Q == {m \in Nat : m <= Len(e) => Good(m)}
<1>1. 0 \in Q
  BY DEF Started
<1>2. ASSUME NEW m \in Nat, m \in Q
      PROVE  m + 1 \in Q
  <2>. SUFFICES ASSUME m + 1 <= Len(e), Started(e, m + 1, i)
                PROVE  \E f, a : Follows(e, m + 1, i, f, a)
    OBVIOUS
  <2>1. Good(m) /\ m < Len(e)
    BY <1>2
  <2>2. PICK f, a : Started(e, m, i) => Follows(e, m, i, f, a)
    BY <2>1
  <2>3. CASE e[m + 1].identity = i
    BY <2>1, <2>2, <2>3, FollowsOn
  <2>4. CASE e[m + 1].identity # i
    <3>1. Started(e, m, i)
      BY <2>4, IntervalGrows DEF Started
    <3>2. Follows(e, m + 1, i, f, a)
      BY <2>1, <2>2, <2>4, <3>1, OthersFollow
    <3>. QED  BY <3>2
  <2>. QED  BY <2>3, <2>4
<1>. HIDE DEF Good
<1>3. \A m \in Q : m <= Len(e) => Good(m)
  OBVIOUS
<1>4. n \in Nat /\ n <= Len(e)
  OBVIOUS
<1>. HIDE DEF Q
<1>5. Good(n)
  BY <1>1, <1>2, <1>3, <1>4, Ascent
<1>. QED  BY <1>5 DEF Good

\* A record that is mapped and there has the values its profile says.
LEMMA AcceptedValues ==
  ASSUME NEW r \in Records, MapRecord(r).disposition = "ACCEPT", r.deletion = "ACTIVE"
  PROVE  MapRecord(r).structured.values = Values(Profile(r), r.payload)
  BY DEF MapRecord, Refused, Raised, Content

\* What a report without a blocker was made of.
LEMMA ReadyIsClean ==
  ASSUME export \in Seq(Records), Blockers(Findings(Sync)) = {}, ~MappingRaises(Sync)
  PROVE  Clean(export) /\ KeyFindings(Sync) = {}
<1>1. /\ \A f \in KeyFindings(Sync) : f.blocks
      /\ \A f \in SyncFindings(Sync) : f.blocks
  BY DEF KeyFindings, SyncFindings, Blocker
<1>2. KeyFindings(Sync) = {} /\ SyncFindings(Sync) = {}
  <2>1. KeyFindings(Sync) \subseteq Findings(Sync) /\ SyncFindings(Sync) \subseteq Findings(Sync)
    BY DEF Findings
  <2>. QED  BY <1>1, <2>1 DEF Blockers
<1>3. /\ Sync.audits = After("reconciliation", export, Len(export)).audits
      /\ Len(export) \in Nat /\ DOMAIN export = 1..Len(export)
  BY WholeExport DEF Sync
<1>4. \A k \in DOMAIN export : Sync.audits[k] = AuditOf(export, k)
  BY <1>3, AnswersInTurn
<1>5. \A k \in DOMAIN export : Sync.audits[k].disposition # "RAISED"
  BY DEF MappingRaises
<1>6. \A k \in DOMAIN export : Sync.audits[k].disposition # "QUARANTINED"
  BY <1>2 DEF SyncFindings
<1>. QED  BY <1>2, <1>3, <1>4, <1>5, <1>6 DEF Clean

\* What the source last said of an identity that is there.
LEMMA Followed ==
  ASSUME export \in Seq(Records), Clean(export), NEW i \in Identity, HashesNameContent(i),
         i \in States(Sync)
  PROVE  /\ TypeOf[i] \in DOMAIN Profiles /\ Fresh(i) # {}
         /\ Active(Sync, i) => SourceSays(i) = CurrentResult(Sync, i).structured.values
         /\ ~Active(Sync, i) => SourceSays(i) = None
<1>1. PICK e, n, s : e = export /\ n = Len(export) /\ s = StatesAt(export, n)[i]
  OBVIOUS
<1>2. /\ e \in Seq(Records) /\ n \in Nat /\ n = Len(e) /\ n \in 0..Len(e) /\ DOMAIN export = 1..n
      /\ \A k \in 1..n : e[k] \in Records
  BY <1>1
<1>3. /\ Sync = After("reconciliation", export, n)
      /\ Sync.states[i] = s /\ s # None
  BY <1>1, WholeExport DEF Sync, StatesAt, States
<1>4. \A k \in 1..n : Sync.audits[k] = AuditOf(e, k)
  BY <1>1, <1>2, <1>3, AnswersInTurn
<1>5. \A k \in 1..n : AuditOf(e, k).identity = e[k].identity
  BY <1>2, ReconcilableFields DEF AuditOf, Entry
<1>6. TypeOf[i] \in DOMAIN Profiles /\ NamedFor(e, i)
  BY <1>1, <1>2, <1>3, UnprofiledStaysOut DEF HashesNameContent, NamedFor
<1>7. Started(e, n, i)
  BY <1>1, <1>2, <1>3, BlankUntilStarted DEF Blank
<1>8. PICK f, a : Follows(e, n, i, f, a)
  BY <1>1, <1>2, <1>6, <1>7, StatesFollow
<1>9. /\ IsLast(f, NewIn(e, n, i)) /\ IsLast(a, AppliedIn(e, n, i))
      /\ e[f].hash = s.hash /\ e[f].deletion = s.deletion
      /\ e[a].hash = s.hash /\ MapRecord(e[a]).disposition = "ACCEPT"
  BY <1>1, <1>8 DEF Follows
<1>10. /\ f \in 1..n /\ e[f].identity = i /\ a \in 1..n /\ e[a].identity = i
       /\ e[f] \in Records /\ e[a] \in Records
  BY <1>2, <1>9 DEF IsLast, NewIn, AppliedIn
<1>11. Fresh(i) = NewIn(e, n, i)
  BY <1>1, <1>2 DEF Fresh, NewIn
<1>12. /\ Fresh(i) # {}
       /\ LastFresh(i) = f
  <2>1. NewIn(e, n, i) \subseteq 1..n
    BY DEF NewIn
  <2>2. f \in NewIn(e, n, i)
    BY <1>9 DEF IsLast
  <2>3. LastFresh(i) = f
    <3>1. /\ \A l \in Fresh(i) : (\A m \in Fresh(i) : m <= l) => l = f
          /\ f \in Fresh(i) /\ \A m \in Fresh(i) : m <= f
      BY <1>2, <1>9, <1>11, <2>1, <2>2 DEF IsLast
    <3>. QED  BY <3>1 DEF LastFresh
  <2>. QED  BY <1>11, <2>2, <2>3
<1>13. SourceSays(i) =
         IF e[f].deletion = "ACTIVE" THEN Values(Profile(e[f]), e[f].payload) ELSE None
  BY <1>1, <1>6, <1>12 DEF SourceSays
<1>14. CurrentResult(Sync, i) = MappingOf(e[a])
  <2>1. \A k \in DOMAIN export :
          Sync.audits[k].identity = i /\ Sync.audits[k].disposition = "APPLIED"
            <=> k \in AppliedIn(e, n, i)
    BY <1>2, <1>4, <1>5 DEF AppliedIn
  <2>2. \A k : (/\ k \in DOMAIN export
                /\ Sync.audits[k].identity = i /\ Sync.audits[k].disposition = "APPLIED"
                /\ \A l \in DOMAIN export :
                     Sync.audits[l].identity = i /\ Sync.audits[l].disposition = "APPLIED"
                       => l <= k)
               <=> k = a
    <3>1. \A k : k \in AppliedIn(e, n, i) => k \in 1..n
      BY DEF AppliedIn
    <3>2. a \in AppliedIn(e, n, i) /\ \A l \in AppliedIn(e, n, i) : l <= a
      BY <1>9 DEF IsLast
    <3>3. \A k \in 1..n : k <= a /\ a <= k => k = a
      BY <1>2, <1>10
    <3>. QED  BY <1>2, <2>1, <3>1, <3>2, <3>3
  <2>. QED  BY <1>1, <2>2 DEF CurrentResult
<1>15. ASSUME Active(Sync, i)
       PROVE  SourceSays(i) = CurrentResult(Sync, i).structured.values
  <2>1. e[f].deletion = "ACTIVE"
    BY <1>3, <1>9, <1>15 DEF Active
  <2>2. /\ e[a].payload = e[f].payload /\ e[a].deletion = "ACTIVE"
    BY <1>1, <1>2, <1>9, <1>10, <2>1 DEF HashesNameContent
  <2>3. Profiled(e[a]) /\ Profile(e[a]) = Profile(e[f])
    BY <1>6, <1>10 DEF Profiled, Profile
  <2>4. MappingOf(e[a]).structured = MapRecord(e[a]).structured
    BY <1>10, <2>3, MappingAlone
  <2>5. MapRecord(e[a]).structured.values = Values(Profile(e[a]), e[a].payload)
    BY <1>9, <1>10, <2>2, AcceptedValues
  <2>. QED  BY <1>13, <1>14, <2>1, <2>2, <2>3, <2>4, <2>5
<1>16. ASSUME ~Active(Sync, i)
       PROVE  SourceSays(i) = None
  BY <1>3, <1>9, <1>13, <1>16 DEF Active
<1>. QED  BY <1>6, <1>12, <1>15, <1>16

\* What was delivered of no avail changes nothing.
LEMMA NothingFollowed ==
  ASSUME export \in Seq(Records), Clean(export), NEW i \in Identity, HashesNameContent(i),
         i \notin States(Sync)
  PROVE  SourceSays(i) = IF snapshot[i] = None THEN None ELSE snapshot[i].values
<1>1. PICK e, n : e = export /\ n = Len(export)
  OBVIOUS
<1>2. /\ e \in Seq(Records) /\ n \in Nat /\ n = Len(e) /\ n \in 0..Len(e) /\ DOMAIN export = 1..n
  BY <1>1
<1>3. StatesAt(e, n)[i] = None
  BY <1>1, WholeExport DEF Sync, StatesAt, States
<1>4. CASE TypeOf[i] \notin DOMAIN Profiles
  BY <1>4 DEF SourceSays
<1>5. CASE TypeOf[i] \in DOMAIN Profiles
  <2>1. ~Started(e, n, i)
    <3>. SUFFICES ASSUME Started(e, n, i)
                  PROVE  FALSE
      OBVIOUS
    <3>1. NamedFor(e, i)
      BY <1>1 DEF HashesNameContent, NamedFor
    <3>2. PICK f, a : Follows(e, n, i, f, a)
      BY <1>1, <1>2, <1>5, <3>1, StatesFollow
    <3>. QED  BY <1>3, <3>2 DEF Follows
  <2>2. Fresh(i) = {}
    BY <1>1, <1>2, <2>1 DEF Fresh, Started
  <2>. QED  BY <2>2 DEF SourceSays
<1>. QED  BY <1>4, <1>5

\* The proposals of a report for one identity.
LEMMA ProposedFor ==
  ASSUME NEW i \in Identity, KeyFindings(Sync) = {}
  PROVE  Proposed(CanonicalChanges(Sync), i) =
           IF i \notin States(Sync) THEN IF snapshot[i] = None THEN None ELSE snapshot[i].values
           ELSE IF Active(Sync, i) THEN CurrentResult(Sync, i).structured.values
           ELSE None
<1>. DEFINE changes == CanonicalChanges(Sync)
<1>1. \A j : Delete(j).identity = j /\ Delete(j).action = "DELETE" /\ Delete(j).after = None
  BY DEF Delete
<1>2. \A j : /\ Write(Sync, j).identity = j
             /\ Write(Sync, j).after = CurrentResult(Sync, j).structured.values
             /\ Write(Sync, j).action = "NO_CHANGE" =>
                  /\ snapshot[j] # None
                  /\ snapshot[j].values = CurrentResult(Sync, j).structured.values
  BY DEF Write
<1>3. \A j \in States(Sync) : Active(Sync, j) => Keyed(Sync, j)
  BY DEF KeyFindings
<1>4. \A c \in changes : c.identity = i =>
        \/ i \in States(Sync) /\ ~Active(Sync, i) /\ snapshot[i] # None /\ c = Delete(i)
        \/ i \in States(Sync) /\ Active(Sync, i) /\ c = Write(Sync, i)
  BY <1>1, <1>2 DEF CanonicalChanges
<1>5. /\ i \in States(Sync) /\ ~Active(Sync, i) /\ snapshot[i] # None => Delete(i) \in changes
      /\ i \in States(Sync) /\ Active(Sync, i) => Write(Sync, i) \in changes
  BY <1>3 DEF CanonicalChanges
<1>. HIDE DEF changes
<1>6. CASE i \notin States(Sync)
  BY <1>4, <1>6 DEF Proposed, changes
<1>7. CASE i \in States(Sync) /\ ~Active(Sync, i)
  <2>1. CASE snapshot[i] = None
    BY <1>4, <1>7, <2>1 DEF Proposed, changes
  <2>2. CASE snapshot[i] # None
    <3>1. (CHOOSE c \in changes : c.identity = i) = Delete(i)
      BY <1>1, <1>4, <1>5, <1>7, <2>2
    <3>2. Delete(i) \in changes /\ Delete(i).identity = i /\ Delete(i).action # "NO_CHANGE"
      BY <1>1, <1>5, <1>7, <2>2
    <3>. QED  BY <1>1, <1>7, <3>1, <3>2 DEF Proposed, changes
  <2>. QED  BY <2>1, <2>2
<1>8. CASE i \in States(Sync) /\ Active(Sync, i)
  <2>1. (CHOOSE c \in changes : c.identity = i) = Write(Sync, i)
    BY <1>2, <1>4, <1>5, <1>8
  <2>2. CASE Write(Sync, i).action = "NO_CHANGE"
    <3>1. ~ \E c \in changes : c.identity = i /\ c.action # "NO_CHANGE"
      BY <1>4, <1>8, <2>2
    <3>2. snapshot[i] # None /\ snapshot[i].values = CurrentResult(Sync, i).structured.values
      BY <1>2, <2>2
    <3>. QED  BY <1>8, <3>1, <3>2 DEF Proposed, changes
  <2>3. CASE Write(Sync, i).action # "NO_CHANGE"
    <3>1. \E c \in changes : c.identity = i /\ c.action # "NO_CHANGE"
      BY <1>2, <1>5, <1>8, <2>3
    <3>. QED  BY <1>2, <1>8, <2>1, <3>1 DEF Proposed, changes
  <2>. QED  BY <2>2, <2>3
<1>. QED  BY <1>6, <1>7, <1>8

\* A report that is ready for review brings every object whose hashes name its
\* content to what its source said last, whatever was delivered and in which
\* order.
THEOREM ProposalsHold == DrySpec => ProposalsFollowTheSource
<1>1. DryInit => BlockedInv
  BY NothingLasts DEF DryInit, BlockedInv
<1>2. BlockedInv /\ [DryNext]_dryVars =>
        (report' # report /\ report'.status = "READY_FOR_REVIEW"
         => \A i \in Identity :
              HashesNameContent(i) => Proposed(report'.changes, i) = SourceSays(i))
  <2>. SUFFICES ASSUME BlockedInv, [DryNext]_dryVars, report' # report,
                       report'.status = "READY_FOR_REVIEW", NEW i \in Identity, HashesNameContent(i)
                PROVE  Proposed(report'.changes, i) = SourceSays(i)
    OBVIOUS
  <2>1. DryRun
    BY DEF DryNext, Deliver, Propose, dryVars
  <2>2. /\ report'.status = Status(Findings(Sync)) /\ ~MappingRaises(Sync)
        /\ report'.changes = CanonicalChanges(Sync)
    BY <2>1, Reported DEF NoReport
  <2>3. Blockers(Findings(Sync)) = {}
    BY <2>2 DEF Status
  <2>4. export \in Seq(Records) /\ Clean(export) /\ KeyFindings(Sync) = {}
    BY <2>2, <2>3, ReadyIsClean DEF BlockedInv
  <2>5. CASE i \in States(Sync)
    BY <2>2, <2>4, <2>5, Followed, ProposedFor
  <2>6. CASE i \notin States(Sync)
    BY <2>2, <2>4, <2>6, NothingFollowed, ProposedFor
  <2>. QED  BY <2>5, <2>6
<1>3. BlockedInv /\ [DryNext]_dryVars => BlockedInv'
  BY BlockedStep
<1>. QED  BY <1>1, <1>2, <1>3, PTL DEF DrySpec, ProposalsFollowTheSource
=============================================================================
