---------------------------- MODULE SourceMapping ----------------------------
(***************************************************************************)
(* The mapping of source records to candidates:                            *)
(*   application/enterprise_mapping.py  map_source_records.                *)
(*                                                                         *)
(* A profile says which fields of a payload a candidate is made of.  The   *)
(* records of a sequence are judged in turn, by the versions seen and the  *)
(* last record accepted of the same identity.                              *)
(* Left out: provenance (profile and extractor versions, pointers).        *)
(***************************************************************************)
EXTENDS SourceRecords, FiniteSets, SequencesExt

CONSTANTS
  TypeOf,      \* the source system and object type of an identity
  Profiles,    \* the registry: the profile of a type, where there is one
  CanonicalStatus, \* the statuses of the domain, for the kinds that have any
  Text,        \* values that are strings with something in them
  Empty        \* null and the empty string

ProfileOK(p) ==
  /\ p.required # {}
  /\ DOMAIN p.direct # {}
  /\ \A f, g \in DOMAIN p.direct : p.direct[f] = p.direct[g] => f = g
  /\ p.status # None =>
       /\ p.status.from \in p.required \ DOMAIN p.direct
       /\ DOMAIN p.status.map # {}
       /\ p.kind \in DOMAIN CanonicalStatus =>
            \A v \in DOMAIN p.status.map : p.status.map[v] \in CanonicalStatus[p.kind]

RegistryOK == \A t \in DOMAIN Profiles : ProfileOK(Profiles[t])

ASSUME RegistryIsOK == RegistryOK

Profiled(r) == TypeOf[r.identity] \in DOMAIN Profiles

Profile(r) == Profiles[TypeOf[r.identity]]

\* No content comes with what is deleted or restricted.
InactiveIsBare(r) == r.deletion = "ACTIVE" <=> r.payload # None

-----------------------------------------------------------------------------
\* _map_record

Refused(disposition, reason) ==
  [disposition |-> disposition, reasons |-> {reason},
   structured |-> None, texts |-> {}]

Missing(p, payload) ==
  \E f \in p.required : f \notin DOMAIN payload \/ payload[f] \in Empty

StatusKnown(p, payload) ==
  p.status # None => payload[p.status.from] \in DOMAIN p.status.map

\* The status is written last.
Values(p, payload) ==
  LET present == DOMAIN p.direct \cap DOMAIN payload
      targets == {p.direct[f] : f \in present}
      status == IF p.status = None THEN {} ELSE {p.status.to}
  IN [t \in targets \cup status |->
        IF t \in status THEN p.status.map[payload[p.status.from]]
        ELSE payload[CHOOSE f \in present : p.direct[f] = t]]

\* _extract_unstructured: candidates are never reviewed ones.
Texts(p, payload) ==
  {[field |-> f, text |-> payload[f], review |-> "UNREVIEWED"] :
     f \in {g \in p.texts \cap DOMAIN payload : payload[g] \in Text}}

Removal(r) ==
  [disposition |-> "ACCEPT",
   reasons |-> {IF r.deletion = "DELETED" THEN "SOURCE_DELETED" ELSE "SOURCE_RESTRICTED"},
   structured |-> [kind |-> "EVENT", values |-> [deletion_state |-> r.deletion]],
   texts |-> {}]

Content(p, payload) ==
  [disposition |-> "ACCEPT", reasons |-> {"MAPPED"},
   structured |-> [kind |-> p.kind, values |-> Values(p, payload)],
   texts |-> Texts(p, payload)]

\* A candidate without values is not valid: the call raises.
Raised == Refused("RAISED", "VALIDATION_ERROR")

MapRecord(r) ==
  LET p == Profile(r) IN
  IF r.deletion # "ACTIVE" THEN Removal(r)
  ELSE IF Missing(p, r.payload) THEN Refused("QUARANTINE", "REQUIRED_FIELD_MISSING")
  ELSE IF ~StatusKnown(p, r.payload) THEN Refused("QUARANTINE", "STATUS_UNMAPPED")
  ELSE IF DOMAIN Values(p, r.payload) = {} THEN Raised
  ELSE Content(p, r.payload)

-----------------------------------------------------------------------------
\* map_source_records

NothingMapped ==
  [seen |-> [v \in Identity \X Version |-> None],   \* the hash of a version
   previous |-> [i \in Identity |-> None],          \* the last record accepted
   results |-> << >>]

OutOfOrder(prior, r) ==
  /\ prior # None
  /\ r.ingested >= prior.ingested
  /\ r.updated < prior.updated

\* What an accepted record signals besides.
Signals(prior, r) ==
  (IF prior # None /\ r.url # prior.url THEN {"SOURCE_URL_CHANGED"} ELSE {})
  \cup
  (IF r.observed > r.effective + Profile(r).late THEN {"LATE_ARRIVAL"} ELSE {})

WithSignals(prior, r, result) ==
  IF result.disposition # "ACCEPT" THEN result
  ELSE [result EXCEPT !.reasons = @ \cup Signals(prior, r)]

Judged(s, r) ==
  LET known == s.seen[<<r.identity, r.version>>]
      prior == s.previous[r.identity]
  IN CASE known = r.hash -> Refused("REJECT", "DUPLICATE_SOURCE_VERSION")
       [] known \notin {None, r.hash} ->
            Refused("QUARANTINE", "SOURCE_VERSION_CONFLICT")
       [] known = None /\ ~Profiled(r) -> Refused("REJECT", "PROFILE_NOT_FOUND")
       [] known = None /\ Profiled(r) /\ OutOfOrder(prior, r) ->
            Refused("QUARANTINE", "OUT_OF_ORDER_SOURCE_UPDATE")
       [] known = None /\ Profiled(r) /\ ~OutOfOrder(prior, r) ->
            WithSignals(prior, r, MapRecord(r))

\* Mutant of Mapped: a record that was put aside is compared with all the same.
MappedAnyway(s, r) ==
  LET result == Judged(s, r)
      version == <<r.identity, r.version>>
  IN [seen |-> [s.seen EXCEPT ![version] = IF @ = None THEN r.hash ELSE @],
      previous |-> [s.previous EXCEPT ![r.identity] = r],
      results |-> Append(s.results, result)]

Mapped(s, r) ==
  LET result == Judged(s, r)
      version == <<r.identity, r.version>>
  IN [seen |-> [s.seen EXCEPT ![version] = IF @ = None THEN r.hash ELSE @],
      previous |-> [s.previous EXCEPT ![r.identity] =
                      IF result.disposition = "ACCEPT" THEN r ELSE @],
      results |-> Append(s.results, result)]

MapSourceRecords(records) == FoldLeft(Mapped, NothingMapped, records).results

\* What the mapping says of one record alone.
MappingOf(r) == MapSourceRecords(<<r>>)[1]
=============================================================================
