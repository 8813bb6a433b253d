-------------------------- MODULE EnterpriseDryRun --------------------------
(***************************************************************************)
(* The review of an enterprise export before anything is imported:         *)
(*   application/enterprise_dry_run.py  run_enterprise_dry_run,            *)
(*   cli/main.py                        soc-ot enterprise dry-run.         *)
(*                                                                         *)
(* The source delivers records, the operator runs the dry run over all of  *)
(* them, and the reviewer proposes resolutions for what it put aside.      *)
(* EnterpriseSync reconciles the export, SourceMapping the dirty corpus    *)
(* and the probes; the report brings them together.                        *)
(*                                                                         *)
(* A finding is what its id is the hash of, so findings are a set.  Left   *)
(* out: the counts of the summary, severities and texts.                   *)
(***************************************************************************)
EXTENDS Reconciliation, SourceMapping

CONSTANTS
  Records,       \* what the source may deliver
  Corpora,       \* dirty corpora: sets of cases, sequences of records
  ProbeSets,     \* sets of probes: a record and the keys it refers to
  Snapshots,     \* canonical objects by the identity they came from
  KeyField,      \* the target field that is the key of a kind
  KnownAcl, AsOf, StaleAfter,
  PinnedByMistake,  \* content hashes a reviewer may copy wrongly
  MaxRecords,       \* bound: records delivered
  MaxProposals      \* bound: entries of the resolution file

\* A record has every field of its class.
ASSUME RecordsOK ==
  /\ SourceTime \subseteq Nat
  /\ None \notin Hash /\ None \notin Records /\ None \notin SourceState
  /\ \A r \in Records :
       /\ DOMAIN r = SourceField /\ InactiveIsBare(r)
       /\ r.identity \in Identity /\ r.version \in Version /\ r.hash \in Hash
       /\ r.updated \in SourceTime /\ r.ingested \in Nat /\ r.deletion \in Deletion

\* require_unique_configuration
SnapshotsOK ==
  \A s \in Snapshots : \A i, j \in Identity :
    s[i] # None /\ s[j] # None /\ s[i].kind = s[j].kind /\ s[i].key = s[j].key => i = j

ASSUME SnapshotsAreOK == SnapshotsOK

VARIABLES
  snapshot, corpus, probes,   \* the input of the dry run
  export,                     \* the records delivered
  file,                       \* the resolutions proposed
  report                      \* of the last dry run

dryVars == <<snapshot, corpus, probes, export, file, report>>

NoReport == [status |-> "NONE", changes |-> {}, findings |-> {}, quarantine |-> {}]

DryInit ==
  /\ snapshot \in Snapshots
  /\ corpus \in Corpora
  /\ probes \in ProbeSets
  /\ export = << >>
  /\ file = {}
  /\ report = NoReport

-----------------------------------------------------------------------------
\* The synchronisation of the export, which ends COMPLETED.

SyncMapping ==
  [ACCEPT |-> "ACCEPT", QUARANTINE |-> "QUARANTINED", REJECT |-> "REJECTED",
   RAISED |-> "RAISED"]

Reconcilable(r) ==
  [f \in SourceField \cup {"mapping"} |->
     IF f = "mapping" THEN SyncMapping[MappingOf(r).disposition] ELSE r[f]]

Synced(records) ==
  FoldLeft(LAMBDA c, r: Reconciled(c, Reconcilable(r)), NoCheckpoint, records)

Sync == Synced(export)

States(c) == {i \in Identity : c.states[i] # None}

\* The mapping result of a state is that of the last record applied to it.
CurrentResult(c, i) ==
  MappingOf(export[CHOOSE k \in DOMAIN export :
    /\ c.audits[k].identity = i
    /\ c.audits[k].disposition = "APPLIED"
    /\ \A l \in DOMAIN export :
         c.audits[l].identity = i /\ c.audits[l].disposition = "APPLIED" => l <= k])

-----------------------------------------------------------------------------
\* _canonical_changes

Active(c, i) == c.states[i].deletion = "ACTIVE"

KeyOf(candidate) ==
  IF candidate.kind \in DOMAIN KeyField
     /\ KeyField[candidate.kind] \in DOMAIN candidate.values
  THEN candidate.values[KeyField[candidate.kind]] ELSE None

Keyed(c, i) == KeyOf(CurrentResult(c, i).structured) \in Text

Delete(i) ==
  [action |-> "DELETE", kind |-> snapshot[i].kind, key |-> snapshot[i].key,
   identity |-> i, before |-> snapshot[i].values, after |-> None]

\* Mutant of Write: an object that is there is replaced when its key changes.
WriteByKey(c, i) ==
  LET candidate == CurrentResult(c, i).structured
      before == snapshot[i]
  IN [action |-> IF before = None THEN "CREATE"
                 ELSE IF before.key = KeyOf(candidate) THEN "NO_CHANGE" ELSE "UPDATE",
      kind |-> candidate.kind, key |-> KeyOf(candidate), identity |-> i,
      before |-> IF before = None THEN None ELSE before.values,
      after |-> candidate.values]

Write(c, i) ==
  LET candidate == CurrentResult(c, i).structured
      before == snapshot[i]
  IN [action |-> IF before = None THEN "CREATE"
                 ELSE IF before.values = candidate.values THEN "NO_CHANGE" ELSE "UPDATE",
      kind |-> candidate.kind, key |-> KeyOf(candidate), identity |-> i,
      before |-> IF before = None THEN None ELSE before.values,
      after |-> candidate.values]

CanonicalChanges(c) ==
  {Delete(i) : i \in {j \in States(c) : ~Active(c, j) /\ snapshot[j] # None}}
  \cup {Write(c, i) : i \in {j \in States(c) : Active(c, j) /\ Keyed(c, j)}}

-----------------------------------------------------------------------------
\* _quality_findings

Blocker(code, identity, hash, about) ==
  [code |-> code, blocks |-> TRUE, identity |-> identity, hash |-> hash, about |-> about]

Warning(code, identity, hash, about) ==
  [code |-> code, blocks |-> FALSE, identity |-> identity, hash |-> hash, about |-> about]

KeyFindings(c) ==
  {Blocker("UNMAPPED_FIELD", i, c.states[i].hash, {"key"}) :
     i \in {j \in States(c) : Active(c, j) /\ ~Keyed(c, j)}}

ProbeRecords == {p.record : p \in probes}

CorpusRecords == UNION {Range(case) : case \in corpus}

Covered(p) ==
  p.required \cup DOMAIN p.direct \cup p.texts
    \cup (IF p.status = None THEN {} ELSE {p.status.from})

Uncovered(r) ==
  IF r.payload # None /\ Profiled(r) THEN DOMAIN r.payload \ Covered(Profile(r)) ELSE {}

Ambiguous(r) == r.effective > r.observed \/ r.updated > r.ingested

RecordFindings(r) ==
  {Blocker("ACL_REFERENCE_UNKNOWN", r.identity, r.hash, {}) :
     acl \in {r.acl} \ KnownAcl}
  \cup {Blocker("TIME_AMBIGUITY", q.identity, q.hash, {}) :
     q \in {s \in {r} : Ambiguous(s)}}
  \cup {Warning("UNMAPPED_FIELD", r.identity, r.hash, {f}) : f \in Uncovered(r)}

AvailableKeys(c) ==
  {snapshot[i].key : i \in {j \in Identity : snapshot[j] # None}}
  \cup UNION {Range(CurrentResult(c, i).structured.values) \cap Text : i \in States(c)}

ReferenceFindings(c) ==
  UNION {{Blocker("DANGLING_REFERENCE", p.record.identity, p.record.hash, {key}) :
            key \in p.references \ AvailableKeys(c)} : p \in probes}

StaleFindings(c) ==
  {Warning("STALE_SOURCE", i, c.states[i].hash, {}) :
     i \in {j \in States(c) : AsOf > c.states[j].latest + StaleAfter}}

\* The reasons: those of the mapping, or why reconciliation put it aside.
SyncReasons(k) ==
  LET earlier == Synced(SubSeq(export, 1, k - 1)).states[export[k].identity]
  IN IF Repeated(earlier, export[k]) THEN {"SOURCE_VERSION_CONFLICT"}
     ELSE IF Stale(earlier, export[k]) THEN {"OUT_OF_ORDER_SOURCE_UPDATE"}
     ELSE MappingOf(export[k]).reasons

SyncFindings(c) ==
  {Blocker("MAPPING_QUARANTINED", export[k].identity, export[k].hash, SyncReasons(k)) :
     k \in {l \in DOMAIN export : c.audits[l].disposition = "QUARANTINED"}}

\* A repeated record is no reason to stop.
CaseFinding(r, result) ==
  [code |-> IF result.disposition = "REJECT" THEN "MAPPING_REJECTED"
            ELSE "MAPPING_QUARANTINED",
   blocks |-> "DUPLICATE_SOURCE_VERSION" \notin result.reasons,
   identity |-> r.identity, hash |-> r.hash, about |-> result.reasons]

CaseFindings(case) ==
  LET results == MapSourceRecords(case) IN
  {CaseFinding(case[k], results[k]) :
     k \in {l \in DOMAIN case : results[l].disposition # "ACCEPT"}}

Findings(c) ==
  KeyFindings(c)
  \cup ReferenceFindings(c) \cup StaleFindings(c) \cup SyncFindings(c)
  \cup (UNION {RecordFindings(r) : r \in Range(export) \cup ProbeRecords \cup CorpusRecords})
  \cup (UNION {CaseFindings(case) : case \in corpus})

-----------------------------------------------------------------------------
\* _quarantine_entries

Blockers(findings) == {f \in findings : f.blocks}

Proposals(finding) == {e \in file : e.target = finding}

\* The file is for other findings, or for other content.
FileRefused(findings) ==
  \/ \E e \in file : e.target \notin Blockers(findings)
  \/ \E f \in Blockers(findings) : \E e \in Proposals(f) :
       e.expected \notin {None, f.hash}

Quarantine(findings) ==
  {[finding |-> f,
    status |-> IF Proposals(f) = {} THEN "OPEN" ELSE "RESOLUTION_PROPOSED"] :
     f \in Blockers(findings)}

-----------------------------------------------------------------------------
\* run_enterprise_dry_run

\* Some record has no valid candidate: the call that maps it raises.
MappingRaises(c) ==
  \/ \E k \in DOMAIN export : c.audits[k].disposition = "RAISED"
  \/ \E p \in probes : MappingOf(p.record).disposition = "RAISED"
  \/ \E case \in corpus : \E k \in DOMAIN case :
       MapSourceRecords(case)[k].disposition = "RAISED"

\* Mutant of Status: only what nobody proposed a resolution for blocks.
StatusOfOpen(findings) ==
  IF \E entry \in Quarantine(findings) : entry.status = "OPEN"
  THEN "BLOCKED" ELSE "READY_FOR_REVIEW"

Status(findings) ==
  IF Blockers(findings) # {} THEN "BLOCKED" ELSE "READY_FOR_REVIEW"

DryRun ==
  /\ report' =
       LET c == Sync
           findings == Findings(c) IN
       IF MappingRaises(c) \/ FileRefused(findings)
       THEN [NoReport EXCEPT !.status = "REFUSED"]
       ELSE [status |-> Status(findings), changes |-> CanonicalChanges(c),
             findings |-> findings, quarantine |-> Quarantine(findings)]
  /\ UNCHANGED <<snapshot, corpus, probes, export, file>>

\* The source delivers one more record.
Deliver ==
  /\ Len(export) < MaxRecords
  /\ \E r \in Records : export' = Append(export, r)
  /\ UNCHANGED <<snapshot, corpus, probes, file, report>>

\* The reviewer proposes how to resolve an entry, pinned to a content or not.
Propose ==
  /\ Cardinality(file) < MaxProposals
  /\ \E entry \in report.quarantine :
       /\ Proposals(entry.finding) = {}
       /\ \E expected \in {None, entry.finding.hash} \cup PinnedByMistake :
            file' = file \cup {[target |-> entry.finding, expected |-> expected]}
  /\ UNCHANGED <<snapshot, corpus, probes, export, report>>

DryNext == Deliver \/ DryRun \/ Propose

DrySpec == DryInit /\ [][DryNext]_dryVars

-----------------------------------------------------------------------------
\* Properties

\* The records of an identity whose version was not delivered before.
Fresh(i) ==
  {k \in DOMAIN export :
     /\ export[k].identity = i
     /\ \A l \in 1..(k - 1) :
          export[l].identity = i => export[l].version # export[k].version}

LastFresh(i) == CHOOSE k \in Fresh(i) : \A l \in Fresh(i) : l <= k

\* The object of an identity after the last new version of its source.
SourceSays(i) ==
  IF Fresh(i) = {} \/ TypeOf[i] \notin DOMAIN Profiles
  THEN IF snapshot[i] = None THEN None ELSE snapshot[i].values
  ELSE LET r == export[LastFresh(i)]
       IN IF r.deletion = "ACTIVE" THEN Values(Profile(r), r.payload) ELSE None

\* The object of an identity after the proposals of a report.
Proposed(changes, i) ==
  IF \E c \in changes : c.identity = i /\ c.action # "NO_CHANGE"
  THEN (CHOOSE c \in changes : c.identity = i).after
  ELSE IF snapshot[i] = None THEN None ELSE snapshot[i].values

\* The records of an identity that have one hash have one content.  The source
\* supplies the hash with the record and nothing computes or compares it, so
\* this is a condition on the export (EnterpriseSourceRecord.content_hash).
HashesNameContent(i) ==
  \A k, l \in DOMAIN export :
    export[k].identity = i /\ export[l].identity = i /\ export[k].hash = export[l].hash
      => export[k].payload = export[l].payload /\ export[k].deletion = export[l].deletion

\* A report is ready for review only when its proposals bring every canonical
\* object to what the source said last of it: nothing that was put aside, came
\* late, was repeated or removed is missing from them or comes back with them.
\* That holds where the hashes of the source name its content: a removal that
\* keeps the hash is no change for the reconciliation, and is not proposed.
ProposalsFollowTheSource ==
  [][report' # report /\ report'.status = "READY_FOR_REVIEW"
       => \A i \in Identity :
            HashesNameContent(i) => Proposed(report'.changes, i) = SourceSays(i)]_dryVars

\* Ingestion is in order, and so are removals.
InOrder(i) ==
  \A k, l \in DOMAIN export :
    k < l /\ export[k].identity = i /\ export[l].identity = i
      => /\ export[k].ingested <= export[l].ingested
         /\ export[l].deletion # "ACTIVE" => export[k].updated <= export[l].updated

\* The first record of an identity is one that reconciliation applies.
Opened(audits, i) ==
  \E k \in DOMAIN export :
    /\ export[k].identity = i
    /\ \A l \in 1..(k - 1) : export[l].identity # i
    /\ audits[k].disposition = "APPLIED"

\* Two judges read the same records, the mapping of the dirty corpus and the
\* reconciliation of the export.  Where the hashes of an identity name its
\* content and its records are ingested in order they agree on every one of
\* them, however many were put aside before it.
JudgesAgree ==
  LET results == MapSourceRecords(export)
      audits == Sync.audits
  IN \A k \in DOMAIN export :
       /\ HashesNameContent(export[k].identity)
       /\ InOrder(export[k].identity) /\ Opened(audits, export[k].identity)
       => LET d == results[k].disposition
              a == audits[k].disposition
          IN /\ d = "ACCEPT" => a \in {"APPLIED", "NO_CHANGE"}
             /\ d = "QUARANTINE" <=> a = "QUARANTINED"
             /\ a = "APPLIED" => d = "ACCEPT"

Lasting(findings) ==
  {f \in Blockers(findings) : f.code \notin {"UNMAPPED_FIELD", "DANGLING_REFERENCE"}}

\* More deliveries may bring a key or the target of a reference; every other
\* reason to block stays with the export, and no proposal of a resolution
\* takes one away.
BlockersStay ==
  [][/\ report' # report
     /\ report'.status # "REFUSED"
     /\ Lasting(report.findings) # {}
     => /\ Lasting(report.findings) \subseteq Lasting(report'.findings)
        /\ report'.status = "BLOCKED"]_dryVars
=============================================================================
