--------------------------- MODULE EnterpriseSync ---------------------------
(***************************************************************************)
(* Reconciliation of an exported sequence of source pages:                 *)
(*   application/enterprise_sync.py  reconcile_enterprise_pages.           *)
(*                                                                         *)
(* A caller holds a checkpoint and calls the engine, with the same export, *)
(* until it is completed.  A call applies whole pages: it returns after    *)
(* max_pages, at the end, or when the attempts to read a page are used up, *)
(* and it may die without returning.                                       *)
(*                                                                         *)
(* A record is what the reconciliation looks at: identity, version,        *)
(* content hash, source time, deletion state, and what the mapping says of *)
(* it.  The k-th audit entry is about the k-th record of the export.       *)
(* Left out: texts, the retry schedule (data of the result), and the       *)
(* order of events, which is sorted from the states.                       *)
(***************************************************************************)
EXTENDS Reconciliation, FiniteSets

CONSTANTS
  Records,        \* the records the source may deliver
  PageEnd,        \* the last record of each page, counted through the export
  MaxCalls        \* bound: calls of the engine

Record == [identity: Identity, version: Version, hash: Hash,
           updated: SourceTime, deletion: Deletion, mapping: Mapping]

\* A deleted or restricted record has no payload that could be missing.
ASSUME SyncConstantsOK ==
  /\ Records \subseteq Record
  /\ \A r \in Records : r.deletion # "ACTIVE" => r.mapping # "QUARANTINED"
  /\ SourceTime \subseteq Nat
  /\ PageEnd \in Seq(Nat \ {0})
  /\ \A p, q \in DOMAIN PageEnd : p < q => PageEnd[p] < PageEnd[q]
  /\ MaxCalls \in Nat
  /\ None \notin Hash \cup SourceState

Pages == Len(PageEnd)

\* The records of the first n pages.
End(n) == IF n = 0 THEN 0 ELSE PageEnd[n]

VARIABLES
  export,     \* the records of all pages: the same in every call
  phase,      \* is a call at work?
  calls,
  work,       \* the checkpoint the call at work builds
  position,   \* records of the page at work that are reconciled
  checkpoint  \* the one the caller holds

syncVars == <<export, phase, calls, work, position, checkpoint>>

Checkpoint ==
  [next: 0..Pages,
   states: [Identity -> SourceState \cup {None}],
   audits: Seq(Audit)]

\* The page at work.
Page == SubSeq(export, End(work.next) + 1, End(work.next + 1))

SyncTypeOK ==
  /\ export \in [1..End(Pages) -> Records]
  /\ phase \in {"idle", "working"}
  /\ calls \in 0..MaxCalls
  /\ {work, checkpoint} \subseteq Checkpoint
  /\ position \in 0..(IF work.next < Pages THEN Len(Page) ELSE 0)

SyncInit ==
  /\ export \in [1..End(Pages) -> Records]
  /\ phase = "idle"
  /\ calls = 0
  /\ work = NoCheckpoint
  /\ position = 0
  /\ checkpoint = NoCheckpoint

-----------------------------------------------------------------------------
\* A call of the engine

Start ==
  /\ phase = "idle"
  /\ calls < MaxCalls
  /\ phase' = "working"
  /\ calls' = calls + 1
  /\ work' = checkpoint
  /\ position' = 0
  /\ UNCHANGED <<export, checkpoint>>

InPage == phase = "working" /\ work.next < Pages

ReconcileRecord ==
  /\ InPage
  /\ position < Len(Page)
  /\ work' = Reconciled(work, Page[position + 1])
  /\ position' = position + 1
  /\ UNCHANGED <<export, phase, calls, checkpoint>>

\* Mutant of CommitPage: the position is that of the page before.
CommitWithoutReset ==
  /\ InPage
  /\ position = Len(Page)
  /\ work' = [work EXCEPT !.next = @ + 1]
  /\ UNCHANGED <<export, phase, calls, checkpoint, position>>

CommitPage ==
  /\ InPage
  /\ position = Len(Page)
  /\ work' = [work EXCEPT !.next = @ + 1]
  /\ position' = 0
  /\ UNCHANGED <<export, phase, calls, checkpoint>>

\* Mutant of Return: the checkpoint is returned in the middle of a page.
ReturnInPage ==
  /\ phase = "working"
  /\ work.next = Pages \/ work.next > checkpoint.next \/ position > 0
  /\ checkpoint' = work
  /\ phase' = "idle"
  /\ UNCHANGED <<export, calls, work, position>>

\* COMPLETED, or PAUSED after max_pages, which is at least one.
Return ==
  /\ phase = "working"
  /\ position = 0
  /\ work.next = Pages \/ work.next > checkpoint.next
  /\ checkpoint' = work
  /\ phase' = "idle"
  /\ UNCHANGED <<export, calls, work, position>>

\* FAILED: every attempt to read the next page failed.
ReadFails ==
  /\ InPage
  /\ position = 0
  /\ checkpoint' = work
  /\ phase' = "idle"
  /\ UNCHANGED <<export, calls, work, position>>

\* The process that called the engine dies.
Interrupt ==
  /\ phase = "working"
  /\ phase' = "idle"
  /\ UNCHANGED <<export, calls, work, position, checkpoint>>

SyncNext ==
  \/ Start
  \/ ReconcileRecord \/ CommitPage
  \/ Return \/ ReadFails \/ Interrupt

SyncSpec == SyncInit /\ [][SyncNext]_syncVars

-----------------------------------------------------------------------------
\* Properties

Uninterrupted(n) ==
  [FoldLeft(Reconciled, NoCheckpoint, SubSeq(export, 1, End(n))) EXCEPT !.next = n]

\* One-shot and resumed synchronisation give the same states and audits,
\* whatever pauses, failed pages and lost calls there were
\* (ADR-0014-deterministic-enterprise-sync-reconciliation.md).
ResumedAsUninterrupted == checkpoint = Uninterrupted(checkpoint.next)

\* mapping_revision counts the changes that were applied to an identity: no
\* duplicate, refused or repeated record moves it.
RevisionsCountChanges ==
  \A i \in Identity :
    LET changes == {k \in DOMAIN work.audits :
                      /\ work.audits[k].identity = i
                      /\ work.audits[k].disposition = "APPLIED"}
    IN IF work.states[i] = None THEN changes = {}
       ELSE work.states[i].revision = Cardinality(changes)

\* Active content is applied over older content only, so that a late record
\* never restores what was changed, deleted or restricted after it.
ActiveContentIsNewest ==
  \A k, l \in DOMAIN work.audits :
    /\ l < k
    /\ work.audits[k].disposition = "APPLIED"
    /\ work.audits[l].disposition = "APPLIED"
    /\ work.audits[k].identity = work.audits[l].identity
    /\ export[k].deletion = "ACTIVE"
    => export[l].updated <= export[k].updated

\* "DELETED and RESTRICTED metadata records apply without payload." (ADR-0014):
\* content is not active any more after a mapped record that says so in a
\* version not seen before.
RemovalsApply ==
  [][\A r \in Records :
       LET prior == work.states[r.identity] IN
       /\ InPage
       /\ position' = position + 1
       /\ r = Page[position']
       /\ r.deletion # "ACTIVE"
       /\ r.mapping = "ACCEPT"
       /\ ~Repeated(prior, r)
       => work'.states[r.identity].deletion # "ACTIVE"]_syncVars
=============================================================================
