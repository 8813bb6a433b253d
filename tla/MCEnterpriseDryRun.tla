------------------------- MODULE MCEnterpriseDryRun -------------------------
(***************************************************************************)
(* Instances of EnterpriseDryRun for TLC: an issue, a page whose profile   *)
(* may find no value to map, and a note no profile is for.                 *)
(***************************************************************************)
EXTENDS EnterpriseDryRun, TLC

CONSTANTS issue1, page1, note1, IssueVersion

MCTypeOf == issue1 :> "issue" @@ page1 :> "page" @@ note1 :> "note"

MCStatus == [ISSUE |-> {"OPEN", "MITIGATING", "RESOLVED"}]

MCProfiles ==
  [issue |-> [kind |-> "ISSUE", required |-> {"id", "status"},
              direct |-> ("id" :> "issue_id"),
              status |-> [from |-> "status", to |-> "status",
                          map |-> ("open" :> "OPEN" @@ "closed" :> "RESOLVED")],
              texts |-> {"body"}, late |-> 1],
   page |-> [kind |-> "EVIDENCE", required |-> {"title"},
             direct |-> ("id" :> "evidence_id" @@ "title" :> "title"),
             status |-> None, texts |-> {"body"}, late |-> 1]]

MCText == {"I-1", "P-1", "open", "closed", "odd", "words"}

MCKeyField == [ISSUE |-> "issue_id", EVIDENCE |-> "evidence_id"]

Base ==
  [identity |-> issue1, version |-> None, hash |-> None, updated |-> 1,
   ingested |-> 2, effective |-> 1, observed |-> 1, url |-> "here",
   deletion |-> "ACTIVE", acl |-> "known", payload |-> None]

\* An issue that is open, closed, in a status nobody mapped, or deleted, and
\* one that is deleted under the hash it had when it was open.
Issue(v, h, updated, ingested) ==
  [Base EXCEPT !.version = v, !.hash = h, !.updated = updated, !.ingested = ingested,
     !.deletion = IF h = "gone" THEN "DELETED" ELSE "ACTIVE",
     !.payload = IF h = "gone" THEN None ELSE [id |-> "I-1", status |-> h]]

Issues ==
  {Issue(v, h, u, 2) : v \in IssueVersion, h \in {"open", "gone"}, u \in {1, 2}}
  \cup {Issue(v, h, 1, 2) : v \in IssueVersion, h \in {"closed", "odd"}}
  \cup {Issue(v, "open", 1, 3) : v \in IssueVersion}
  \cup {[Issue(v, "gone", 2, 2) EXCEPT !.hash = "open"] : v \in IssueVersion}

\* A page with a key, without one, and without a title, and a late one that
\* moved.
Pages ==
  LET page == [Base EXCEPT !.identity = page1] IN
  {[page EXCEPT !.version = "p1", !.hash = "full",
      !.payload = [id |-> "P-1", title |-> "words", body |-> "words", extra |-> "odd"]],
   [page EXCEPT !.version = "p2", !.hash = "keyless", !.acl = "unknown",
      !.payload = [title |-> "words"]],
   [page EXCEPT !.version = "p3", !.hash = "untitled",
      !.payload = [id |-> "P-1", title |-> ""]],
   [page EXCEPT !.version = "p4", !.hash = "late", !.url = "there", !.observed = 3,
      !.payload = [id |-> "P-1", title |-> "words"]]}

Notes ==
  {[Base EXCEPT !.identity = note1, !.version = "n1", !.hash = "note", !.effective = 2,
      !.payload = [id |-> "N-1"]]}

MCRecords == Issues \cup Pages \cup Notes

MCVersion == IssueVersion \cup {"p1", "p2", "p3", "p4", "n1"}

MCHash == {r.hash : r \in MCRecords}

\* Nothing, or an issue in another status and a page.
MCSnapshots ==
  {[i \in Identity |-> None],
   (issue1 :> [kind |-> "ISSUE", key |-> "I-1", values |-> [issue_id |-> "I-1", status |-> "OPEN"]]
    @@ page1 :> [kind |-> "EVIDENCE", key |-> "P-1", values |-> [evidence_id |-> "P-1"]]
    @@ note1 :> None)}

\* A record delivered twice, and a probe that refers to the issue.
MCCorpora == {{<<CHOOSE r \in Pages : r.hash = "full", CHOOSE r \in Pages : r.hash = "full">>}}

MCProbes == {{[record |-> CHOOSE r \in Pages : r.hash = "late", references |-> {"I-1"}]}}

Symmetry == Permutations(IssueVersion)
=============================================================================
