------------------------- MODULE MCProjectSituation -------------------------
(***************************************************************************)
(* An instance of ProjectSituation for TLC: a work item that may block, a  *)
(* milestone that may slip before another, two evidences, one of which is  *)
(* asked for, late or there; an issue seen in the first, a risk that rests *)
(* on the issue, on an event and on a lesson of another project, and a     *)
(* second risk that rests on the other evidence and is the target of the   *)
(* lesson; a case on the second risk, and an action that treats it.        *)
(***************************************************************************)
EXTENDS ProjectSituation, TLC

CONSTANTS t1, w1, m1, m2, e1, e2, i1, r1, r2, a1, d1, x1

MCTrackOf == w1 :> t1
MCTrackStatus == t1 :> "PLANNED"
MCCommitment == m1 :> 0 @@ m2 :> None
MCRestsOn ==
  i1 :> {e1} @@ r1 :> {i1, 1, x1} @@ r2 :> {e2, x1} @@ d1 :> {r2}
MCTargets == x1 :> {r2}
MCAffects == r1 :> {m1, w1} @@ r2 :> {m2}
MCTreatment == r1 :> {d1} @@ r2 :> {d1, a1}
MCVerification == a1 :> {e2}
MCImpact ==
  [r \in {r1, r2} |-> [downside |-> "MATERIAL", urgency |-> "MONITOR",
                       reversibility |-> "COSTLY", blast |-> "TRACK"]]
MCNumber == r1 :> 1 @@ r2 :> 2

Item(s) == [status |-> s, blocker |-> s = "BLOCKED", planned |-> 1, deps |-> {}]
Goal(s, p) == [status |-> s, planned |-> p]
Proof(s, a) == [status |-> s, expected |-> 1, available |-> a]
Threat(s, i) == [status |-> s, issue |-> i]
MCFirstState ==
  w1 :> Item("IN_PROGRESS") @@ m1 :> Goal("PLANNED", 1) @@ m2 :> Goal("PLANNED", 2)
  @@ e1 :> Proof("RECEIVED", 0) @@ e2 :> Proof("REQUESTED", None)
  @@ i1 :> [status |-> "OPEN"] @@ r1 :> Threat("OPEN", None) @@ r2 :> Threat("OPEN", None)
  @@ a1 :> [status |-> "PLANNED", due |-> 2]
MCValues ==
  w1 :> {Item("IN_PROGRESS"), Item("BLOCKED")}
  @@ m1 :> {Goal("PLANNED", 1), Goal("AT_RISK", 3)} @@ m2 :> {Goal("PLANNED", 2)}
  @@ e1 :> {Proof("RECEIVED", 0)}
  @@ e2 :> {Proof("REQUESTED", None), Proof("LATE", None), Proof("RECEIVED", 0)}
  @@ i1 :> {[status |-> "OPEN"]}
  @@ r1 :> {Threat("OPEN", None), Threat("REALIZED", i1)} @@ r2 :> {Threat("OPEN", None)}
  @@ a1 :> {[status |-> "PLANNED", due |-> 2]}
MCFirstSince ==
  [x \in {e1} |-> 0] @@ [x \in {e2, i1, r1, r2, a1, d1, x1} |-> None]
=============================================================================
