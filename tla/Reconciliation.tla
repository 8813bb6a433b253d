--------------------------- MODULE Reconciliation ---------------------------
(***************************************************************************)
(* What one source record does to the reconciled state of its identity:    *)
(*   application/enterprise_sync.py  _reconcile_record.                    *)
(*                                                                         *)
(* Besides the fields of SourceRecords used here, a record has the field   *)
(* mapping: what the mapping says of it.                                   *)
(***************************************************************************)
EXTENDS SourceRecords, SequencesExt

Mapping == {"ACCEPT", "QUARANTINED", "REJECTED"}
Disposition == {"APPLIED", "NO_CHANGE", "QUARANTINED", "REJECTED"}

SourceState ==
  [version: Version, hash: Hash, latest: SourceTime, deletion: Deletion,
   revision: Nat, seen: [Version -> Hash \cup {None}]]

Audit == [identity: Identity, disposition: Disposition, revision: Nat]

\* What a synchronisation starts from.
NoCheckpoint ==
  [next |-> 0, states |-> [i \in Identity |-> None], audits |-> << >>]

NothingSeen == [v \in Version |-> None]

SeenBefore(prior) == IF prior = None THEN NothingSeen ELSE prior.seen

Later(s, t) == IF s > t THEN s ELSE t

\* The version was delivered before, with this content or another one.
Repeated(prior, r) == SeenBefore(prior)[r.version] # None

\* Active content older than what was reconciled.
Stale(prior, r) ==
  prior # None /\ r.deletion = "ACTIVE" /\ r.updated < prior.latest

Unchanged(prior, r) == prior # None /\ r.hash = prior.hash

Verdict(prior, r) ==
  CASE Repeated(prior, r) ->
         IF prior.seen[r.version] = r.hash THEN "NO_CHANGE" ELSE "QUARANTINED"
    [] ~Repeated(prior, r) /\ Stale(prior, r) -> "QUARANTINED"
    [] ~Repeated(prior, r) /\ ~Stale(prior, r) ->
         IF Unchanged(prior, r) THEN "NO_CHANGE"
         ELSE IF r.mapping = "ACCEPT" THEN "APPLIED" ELSE r.mapping

Observed(prior, r) == [SeenBefore(prior) EXCEPT ![r.version] = r.hash]

\* Mutant of Applied: the latest source time is that of the last record.
AppliedAsLatest(prior, r) ==
  [version |-> r.version, hash |-> r.hash, latest |-> r.updated,
   deletion |-> r.deletion,
   revision |-> IF prior = None THEN 1 ELSE prior.revision + 1,
   seen |-> Observed(prior, r)]

Applied(prior, r) ==
  [version |-> r.version, hash |-> r.hash,
   latest |-> IF prior = None THEN r.updated ELSE Later(prior.latest, r.updated),
   deletion |-> r.deletion,
   revision |-> IF prior = None THEN 1 ELSE prior.revision + 1,
   seen |-> Observed(prior, r)]

\* Mutant of Refreshed: another version is another revision.
RefreshedAsRevision(prior, r) ==
  [prior EXCEPT !.version = r.version, !.latest = Later(@, r.updated),
                !.revision = @ + 1, !.seen = Observed(prior, r)]

\* Another version with the content of the state.
Refreshed(prior, r) ==
  [prior EXCEPT !.version = r.version, !.latest = Later(@, r.updated),
                !.seen = Observed(prior, r)]

StateAfter(prior, r) ==
  IF Repeated(prior, r) THEN prior
  ELSE IF Verdict(prior, r) = "APPLIED" THEN Applied(prior, r)
  ELSE IF Verdict(prior, r) = "NO_CHANGE" THEN Refreshed(prior, r)
  ELSE IF prior = None THEN None
  ELSE [prior EXCEPT !.seen = Observed(prior, r)]

\* revision: 0 stands for none.
Entry(prior, r) ==
  [identity |-> r.identity,
   disposition |-> Verdict(prior, r),
   revision |-> IF Verdict(prior, r) = "APPLIED" THEN StateAfter(prior, r).revision
                ELSE IF prior = None THEN 0 ELSE prior.revision]

Reconciled(c, r) ==
  LET prior == c.states[r.identity] IN
  [next |-> c.next,
   states |-> [c.states EXCEPT ![r.identity] = StateAfter(prior, r)],
   audits |-> Append(c.audits, Entry(prior, r))]
=============================================================================
