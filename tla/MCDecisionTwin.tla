--------------------------- MODULE MCDecisionTwin ---------------------------
(***************************************************************************)
(* An instance of DecisionTwin for TLC: two tracks of one work item each,  *)
(* the second waiting for the first; an evidence that may slip and a       *)
(* milestone with it; a claim the evidence supports and two it does not;   *)
(* an option that can be undone and one that cannot.                       *)
(***************************************************************************)
EXTENDS DecisionTwin, TLC

CONSTANTS t1, t2, w1, w2, m1, m2, e1, x1, c1, c2, c3, o1, o2, q1, rA, rB

MCTrackOf == w1 :> t1 @@ w2 :> t2
MCNextMilestone == t1 :> m1 @@ t2 :> None
MCSources == c1 :> {e1} @@ c2 :> {} @@ c3 :> {}
MCStanding == c1 :> "fact" @@ c2 :> "assumption" @@ c3 :> "unknown"
MCCost == o1 :> 2 @@ o2 :> None
MCPosition == o1 :> 2 @@ o2 :> 1
MCOptionClaims == o1 :> {c1} @@ o2 :> {c2}

Item(s, b, p, d) == [status |-> s, blocker |-> b, planned |-> p, deps |-> d]
Act1(s) == [status |-> s, due |-> 2, blocker |-> FALSE]
MCFirstState ==
  w1 :> Item("IN_PROGRESS", FALSE, 1, {}) @@ w2 :> Item("PLANNED", FALSE, 2, {w1})
  @@ m1 :> 1 @@ m2 :> 3 @@ e1 :> 1 @@ x1 :> Act1("PLANNED")
MCValues ==
  w1 :> {MCFirstState[w1], Item("BLOCKED", TRUE, 3, {}), Item("BLOCKED", TRUE, 3, {w2})}
  @@ w2 :> {MCFirstState[w2]}
  @@ m1 :> {1, 2} @@ m2 :> {3} @@ e1 :> {1, 2}
  @@ x1 :> {Act1("PLANNED")}

Review(o) == [option |-> o, recommendation |-> "APPROVE"]
MCDossier ==
  [original |-> rA :> Review(o1) @@ rB :> Review(o2), revised |-> rB :> Review(o1),
   dissent |-> {rB}, claims |-> {c1}]
Stop(m, k, a) ==
  [metric |-> m, operator |-> "lte", threshold |-> 2, check |-> k, expires |-> k + 1,
   action |-> a]
\* A Chair that sets two guardrails, the later one last.
Guarded ==
  [type |-> "APPROVE_WITH_GUARDRAILS", option |-> o1,
   safeguards |-> <<Stop("DDR_BANDWIDTH", 2, "pause"), Stop("THERMAL", 3, "rollback")>>,
   plan |-> Plan("execute", 2, {}, FALSE, FALSE),
   dissent |-> {rB}, source |-> "simulated_chair"]
MCExecutions ==
  {[dossier |-> MCDossier, chair |-> None], [dossier |-> MCDossier, chair |-> Guarded]}

\* Bandwidth above its limit of 2, temperature below.
MCPaths ==
  {[option |-> o1, rule |-> "guarded_sw_eis_path.v1", reveal |-> 2,
    metrics |-> "DDR_BANDWIDTH" :> 3 @@ "THERMAL" :> 1],
   [option |-> o2, rule |-> "deferred_eis_path.v1", reveal |-> None,
    metrics |-> [m \in {} |-> 0]]}
MCExpected ==
  [acceptable |-> Conditional, claims |-> {c1}, dependencies |-> {w1},
   metrics |-> {"DDR_BANDWIDTH"}]
MCTransitions ==
  o1 :> <<[entity |-> "action", to |-> "COMPLETED"], [entity |-> "milestone", to |-> "m1"]>>
  @@ o2 :> <<>>
=============================================================================
