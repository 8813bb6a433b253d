---------------------------- MODULE SourceRecords ----------------------------
(***************************************************************************)
(* The source-neutral record of an enterprise export:                      *)
(*   application/enterprise_ingestion.py  EnterpriseSourceRecord.          *)
(***************************************************************************)
EXTENDS Naturals

CONSTANTS
  Identity,       \* system, tenant, object type and external id
  Version, Hash,
  SourceTime,     \* source_updated_at
  None

Deletion == {"ACTIVE", "DELETED", "RESTRICTED"}

SourceField ==
  {"identity", "version", "hash", "updated", "effective", "observed", "ingested",
   "url", "deletion", "acl", "payload"}
=============================================================================
