---------------------------- MODULE DecisionTwin ----------------------------
(***************************************************************************)
(* From the record of a case to the screen of its decision:                *)
(*   agents/chair.py, agents/multi_role.py   the decision a packet leads   *)
(*       to, its policy and its action plan;                               *)
(*   application/outcomes.py      what the hidden path of the decision     *)
(*       reveals, and the guardrails that act on it;                       *)
(*   application/evaluation.py    the checks on process and outcome;       *)
(*   application/workspace_projection_v2.py  all of it on one screen, at   *)
(*       the present step or at an earlier one.                            *)
(*                                                                         *)
(* The screen joins the LATEST review run, decision, outcome and           *)
(* evaluation of the case (api/main.py, get_workspace), each read by       *)
(* itself.  CaseCommands has the transactions that write them; here a      *)
(* command is one step.  The evaluation runs the case of the fixture file, *)
(* not the stored decision.                                                *)
(*                                                                         *)
(* Texts are left out, but for what they claim of the guardrails; so are   *)
(* units (a policy check refuses any but the canonical unit of a metric)   *)
(* and the parameters an outcome rule has been validated to have.          *)
(***************************************************************************)
EXTENDS DevelopmentHistory, Sequences, SequencesExt

CONSTANTS
  Position,       \* [Option -> Nat]: the order of the case's alternatives
  OptionClaims,   \* [Option -> SUBSET Claim]
  Uncertainties,
  Role, RequiredRoles,
  Executions,     \* results of a review run: dossier, and the Chair's decision of B3
  AllowedTypes,   \* allowed_decision_types of the case
  CheckFloor,     \* 15 in the code: the step a guardrail is checked at, at the earliest
  Paths,          \* outcome paths of the hidden case
  Expected,       \* the expected result: acceptable, claims, dependencies, metrics
  FixtureDossier, \* what the replayed reviews of an evaluation say
  CaseStatus,
  TemplateStep,   \* first step with validated model content, or None
  Transitions     \* [Option -> sequence of expected state changes]

Conditional == {"APPROVE_WITH_GUARDRAILS", "RUN_REVERSIBLE_TRIAL"}
Executing == Conditional \cup {"APPROVE"}
DecisionType ==
  Executing \cup {"COLLECT_MINIMUM_EVIDENCE", "DEFER_UNTIL_TRIGGER", "ESCALATE", "REJECT"}
ActionType == {"execute", "collect_evidence", "defer", "escalate", "reject"}
Metric == {"DDR_BANDWIDTH", "THERMAL"}
ViolationAction == {"rollback", "pause", "escalate", "re_review"}
\* Its metric may be one the policy does not know.
Safeguard ==
  [metric: Metric \cup {"other"}, operator: {"lt", "lte", "gt", "gte", "eq"}, threshold: Int,
   check: Nat, expires: Nat, action: ViolationAction]
StateChange == [entity: {"action", "work_item", "milestone", "evidence"}, to: STRING]

ASSUME TwinConstantsOK ==
  /\ AllowedTypes # {} /\ AllowedTypes \subseteq DecisionType
  /\ RequiredRoles \subseteq Role /\ CheckFloor \in Nat
  /\ Option # {} /\ None \notin Option \cup {"COMPLETED"}
  /\ Position \in [Option -> Nat]
  /\ \A p, q \in Option : Position[p] = Position[q] => p = q
  /\ \A x \in Executions : x.chair # None =>
       x.chair.safeguards \in Seq(Safeguard) /\ x.chair.option \in Option \cup {None}
  /\ Transitions \in [Option -> Seq(StateChange)]

VARIABLES
  run,          \* the latest review run: status, and its execution when completed
  decision,     \* the latest simulated decision, or None
  outcome,      \* the latest outcome, or None
  evaluation    \* the latest evaluation, or None

twinVars == <<historyVars, run, decision, outcome, evaluation>>

\* An outcome writes its step to the case.
StoredStep == IF outcome = None THEN currentStep ELSE outcome.step

-----------------------------------------------------------------------------
(* The Chair *)

Rank(packet, o) ==
  <<IF o \in Reversible THEN 0 ELSE 1,
    CASE packet.recoverability[o] = "high" -> 0
      [] packet.recoverability[o] = "medium" -> 1
      [] OTHER -> 2,
    Position[o]>>
Before(a, b) ==
  \E i \in 1..3 : a[i] < b[i] /\ \A j \in 1..(i - 1) : a[j] = b[j]
Preferred(packet) ==
  CHOOSE o \in Option : \A p \in Option \ {o} : Before(Rank(packet, o), Rank(packet, p))

FutureSteps(packet) ==
  {packet.availability[e] : e \in Evidence} \ 0..packet.step
NextEvidence(packet) ==
  IF FutureSteps(packet) = {} THEN packet.step + 1 ELSE Min(FutureSteps(packet))

EvidenceIsLate(packet) ==
  FutureSteps(packet) # {} /\ Min(FutureSteps(packet)) > packet.deadline
SafelyReversible(packet) ==
  LET o == Preferred(packet)
  IN  o \in Reversible /\ packet.recoverability[o] = "high" /\ packet.detectability # "unknown"

Preference(packet) ==
  IF SafelyReversible(packet) /\ (packet.claims # {} \/ EvidenceIsLate(packet))
  THEN <<"APPROVE_WITH_GUARDRAILS", "RUN_REVERSIBLE_TRIAL", "APPROVE",
         "COLLECT_MINIMUM_EVIDENCE", "DEFER_UNTIL_TRIGGER", "ESCALATE", "REJECT">>
  ELSE <<"COLLECT_MINIMUM_EVIDENCE", "DEFER_UNTIL_TRIGGER", "ESCALATE", "REJECT",
         "RUN_REVERSIBLE_TRIAL", "APPROVE_WITH_GUARDRAILS", "APPROVE">>

Larger(a, b) == IF a > b THEN a ELSE b
Smaller(a, b) == IF a < b THEN a ELSE b

\* DecisionActionPlan: what its type asks for, with the texts as flags.
Plan(type, due, evidence, asks, reopens) ==
  [type |-> type, due |-> due, evidence |-> evidence, asks |-> asks, reopens |-> reopens]

\* A mutant: a deferral waits for the next evidence, however late.
ActionPlanLate(packet, type) ==
  CASE type \in Executing -> Plan("execute", packet.step + 1, {}, FALSE, FALSE)
    [] type = "COLLECT_MINIMUM_EVIDENCE" ->
         Plan("collect_evidence", NextEvidence(packet), {"open risk"}, FALSE, FALSE)
    [] type = "DEFER_UNTIL_TRIGGER" -> Plan("defer", NextEvidence(packet), {}, FALSE, FALSE)
    [] type = "ESCALATE" -> Plan("escalate", packet.step + 1, {}, TRUE, FALSE)
    [] type = "REJECT" -> Plan("reject", packet.step + 1, {}, FALSE, TRUE)

\* _build_action_plan
ActionPlan(packet, type) ==
  LET missing == {e \in Evidence : packet.availability[e] > packet.step}
  IN  CASE type \in Executing -> Plan("execute", packet.step + 1, {}, FALSE, FALSE)
        [] type = "COLLECT_MINIMUM_EVIDENCE" ->
             Plan("collect_evidence", NextEvidence(packet),
                  IF missing # {} THEN missing
                  ELSE IF Uncertainties # {} THEN Uncertainties ELSE {"open risk"},
                  FALSE, FALSE)
        [] type = "DEFER_UNTIL_TRIGGER" ->
             Plan("defer",
                  Larger(packet.step, Smaller(NextEvidence(packet), packet.deadline)),
                  {}, FALSE, FALSE)
        [] type = "ESCALATE" -> Plan("escalate", packet.step + 1, {}, TRUE, FALSE)
        [] type = "REJECT" -> Plan("reject", packet.step + 1, {}, FALSE, TRUE)

\* The threshold is the 20 GB/s of the code, in tens.
PowerStop(packet) ==
  [metric |-> "DDR_BANDWIDTH", operator |-> "lte", threshold |-> 2,
   check |-> Larger(packet.step + 1, CheckFloor),
   expires |-> Larger(packet.step + 2, CheckFloor + 1), action |-> "rollback"]

\* simulated_chair_decision
ChairDecision(packet, dissent, allowed) ==
  LET order == Preference(packet)
      type == order[Min({i \in DOMAIN order : order[i] \in allowed})]
  IN  [type |-> type,
       option |-> IF type \in Executing THEN Preferred(packet) ELSE None,
       safeguards |-> IF type \in Conditional THEN <<PowerStop(packet)>> ELSE <<>>,
       plan |-> ActionPlan(packet, type),
       dissent |-> dissent, source |-> "simulated_chair"]

\* deterministic_core_decision
CoreDecision(packet, allowed) ==
  [ChairDecision(packet, {}, allowed) EXCEPT !.source = "deterministic_core"]

\* SimulatedDecision.require_action_for_decision_type
DecisionOK(d) ==
  /\ d.plan.type = CASE d.type \in Executing -> "execute"
                     [] d.type = "COLLECT_MINIMUM_EVIDENCE" -> "collect_evidence"
                     [] d.type = "DEFER_UNTIL_TRIGGER" -> "defer"
                     [] d.type = "ESCALATE" -> "escalate"
                     [] d.type = "REJECT" -> "reject"
  /\ d.type = "COLLECT_MINIMUM_EVIDENCE" => d.plan.evidence # {}
  /\ d.type = "ESCALATE" => d.plan.asks
  /\ d.type = "REJECT" => d.plan.reopens

\* validate_decision_policy: a step 0 counts as a missing field.
PolicyOK(d, allowed, step) ==
  /\ d.type \in allowed
  /\ d.type \in Conditional => d.safeguards # <<>>
  /\ d.plan.due >= step
  /\ \A i \in DOMAIN d.safeguards :
       d.safeguards[i].check > 0 /\ d.safeguards[i].expires > 0
         /\ d.safeguards[i].metric \in Metric

-----------------------------------------------------------------------------
(* The outcome *)

MatchingPaths(option) ==
  IF option = None THEN {p \in Paths : p.rule = "deferred_eis_path.v1"}
  ELSE {p \in Paths : p.option = option}

Holds(value, operator, threshold) ==
  CASE operator = "lt" -> value < threshold
    [] operator = "lte" -> value <= threshold
    [] operator = "gt" -> value > threshold
    [] operator = "gte" -> value >= threshold
    [] operator = "eq" -> value = threshold

\* A mutant: a guardrail is checked from the step after its own.
GuardNextStep(metrics, step, result, guard) ==
  IF guard.metric \notin DOMAIN metrics \/ step <= guard.check
  THEN [result EXCEPT !.state = "monitoring"]
  ELSE IF ~Holds(metrics[guard.metric], guard.operator, guard.threshold)
  THEN [state |-> "triggered", actions |-> Append(result.actions, guard.action)]
  ELSE IF result.state # "triggered" THEN [result EXCEPT !.state = "monitoring"]
  ELSE result

\* One turn of the loop of _apply_guardrails.
Guard(metrics, step, result, guard) ==
  IF guard.metric \notin DOMAIN metrics \/ step < guard.check
  THEN [result EXCEPT !.state = "monitoring"]
  ELSE IF ~Holds(metrics[guard.metric], guard.operator, guard.threshold)
  THEN [state |-> "triggered", actions |-> Append(result.actions, guard.action)]
  ELSE IF result.state # "triggered" THEN [result EXCEPT !.state = "monitoring"]
  ELSE result

ApplyGuardrails(metrics, step, safeguards) ==
  FoldLeft(LAMBDA result, guard : Guard(metrics, step, result, guard),
           [state |-> "not_applicable", actions |-> <<>>], safeguards)

\* advance_outcome with the rule of the path: GuardedSwEisRule measures from its
\* reveal step on; DeferredEisRule tells of a delay, and measures nothing.
OutcomeOf(d, from, target) ==
  LET path == CHOOSE p \in MatchingPaths(d.option) : TRUE
      measured == path.rule = "guarded_sw_eis_path.v1" /\ target >= path.reveal
      metrics == IF measured THEN path.metrics ELSE [m \in {} |-> 0]
      guarded == ApplyGuardrails(metrics, target, d.safeguards)
  IN  [decision |-> d, option |-> path.option, from |-> from, step |-> target,
       revealed |-> measured,
       consequences |-> measured \/ path.rule = "deferred_eis_path.v1"
                          \/ guarded.actions # <<>>,
       metrics |-> metrics, guardrail |-> guarded.state, executed |-> guarded.actions]

HasOutcome(d) == Cardinality(MatchingPaths(d.option)) = 1

-----------------------------------------------------------------------------
(* The evaluation *)

\* conditional_control_complete and decision_action_complete
ControlComplete(d, step) ==
  \A i \in DOMAIN d.safeguards :
    d.safeguards[i].check >= step /\ d.safeguards[i].expires >= d.safeguards[i].check
ActionComplete(d, step) == d.plan.due >= step

\* _action_plan_type_complete
ActionTypeComplete(d, deadline) ==
  CASE d.type \in Executing ->
         /\ d.plan.type = "execute" /\ d.option # None
         /\ d.type = "APPROVE" \/ d.safeguards # <<>>
    [] d.type = "COLLECT_MINIMUM_EVIDENCE" ->
         d.plan.type = "collect_evidence" /\ d.plan.evidence # {}
    [] d.type = "DEFER_UNTIL_TRIGGER" ->
         d.plan.type = "defer" /\ d.option = None /\ d.plan.due <= deadline
    [] d.type = "ESCALATE" ->
         d.plan.type = "escalate" /\ d.option = None /\ d.plan.asks
    [] d.type = "REJECT" ->
         d.plan.type = "reject" /\ d.option = None /\ d.plan.reopens

\* _evaluate_development_history
ObservedSteps == {v.observed : v \in events}
HistoryChecks ==
  events # {} =>
    /\ Cardinality(ObservedSteps) >= 3
    /\ LET first == Min(ObservedSteps)
       IN  \A s \in ObservedSteps \cup {IF first = 0 THEN 0 ELSE first - 1} :
             /\ \A v \in Packet(s).events : v.observed <= s
             /\ \A e \in Packet(s).sources : Rewound(s)[e] <= s
    /\ \A w \in {x \in Work : now[x].blocker} : Propagation(now, w).milestones # {}

\* _evaluate_process, for the topology B3
ProcessPassed(d, dossier, packet) ==
  LET eligible == {c \in Claim : Sources[c] \subseteq packet.sources}
      guarded == {d.safeguards[i].metric : i \in DOMAIN d.safeguards}
  IN  /\ d.type \in Expected.acceptable
      /\ (Expected.claims \cap eligible) \subseteq dossier.claims
      /\ Expected.dependencies \subseteq Work
      /\ d.safeguards # <<>> => Expected.metrics \subseteq guarded
      /\ RequiredRoles \subseteq DOMAIN dossier.original
      /\ ControlComplete(d, packet.step) /\ ActionComplete(d, packet.step)
      /\ ActionTypeComplete(d, packet.deadline)
      /\ HistoryChecks

\* evaluate_case, of the fixture: its own decision, advanced to the last reveal.
RevealTarget ==
  Max({currentStep + 1} \cup {p.reveal : p \in {q \in Paths : q.reveal # None}})
FixtureDecision == ChairDecision(Packet(currentStep), FixtureDossier.dissent, AllowedTypes)
EvaluateCase ==
  LET result == OutcomeOf(FixtureDecision, currentStep, RevealTarget)
      contained == result.guardrail # "triggered" \/ result.executed # <<>>
  IN  [process |-> ProcessPassed(FixtureDecision, FixtureDossier, Packet(currentStep)),
       outcome |-> (result.revealed \/ result.consequences) /\ contained]

-----------------------------------------------------------------------------
(* The commands *)

TwinInit ==
  /\ HistoryInit
  /\ run = [status |-> None, execution |-> None]
  /\ decision = None /\ outcome = None /\ evaluation = None

\* The author's next versions come before the first decision (a bound);
\* CaseCommands has an import that meets a decision or an advance.
GrowRecord ==
  /\ decision = None
  /\ ObserveAny \/ ObservePair \/ PassStep
  /\ UNCHANGED <<run, decision, outcome, evaluation>>

StartReview ==
  /\ run.status \notin {"QUEUED", "RUNNING"}
  /\ run' = [status |-> "RUNNING", execution |-> None]
  /\ UNCHANGED <<historyVars, decision, outcome, evaluation>>

\* The Chair of B3 answers within its policy, at the time of the review.
EndReview ==
  /\ run.status = "RUNNING"
  /\ \/ run' = [status |-> "FAILED", execution |-> None]
     \/ \E x \in Executions :
          /\ x.chair # None =>
               DecisionOK(x.chair) /\ PolicyOK(x.chair, AllowedTypes, StoredStep)
          /\ run' = [status |-> "COMPLETED", execution |-> x]
  /\ UNCHANGED <<historyVars, decision, outcome, evaluation>>

\* create_simulated_decision, finalize_dossier_decision
Decide ==
  /\ run.status = "COMPLETED"
  /\ decision' = IF run.execution.chair # None THEN run.execution.chair
                 ELSE CoreDecision(Packet(StoredStep), AllowedTypes)
  /\ UNCHANGED <<historyVars, run, outcome, evaluation>>

Advance ==
  /\ decision # None /\ HasOutcome(decision)
  /\ \E target \in StoredStep + 1..LastStep :
       outcome' = OutcomeOf(decision, StoredStep, target)
  /\ UNCHANGED <<historyVars, run, decision, evaluation>>

\* _require_evaluation_ready
Evaluate ==
  /\ outcome # None /\ outcome.step >= RevealTarget
  /\ HasOutcome(FixtureDecision)
  /\ evaluation' = EvaluateCase
  /\ UNCHANGED <<historyVars, run, decision, outcome>>

TwinNext == GrowRecord \/ StartReview \/ EndReview \/ Decide \/ Advance \/ Evaluate
TwinSpec == TwinInit /\ [][TwinNext]_twinVars

-----------------------------------------------------------------------------
(* The workspace *)

\* _phase_for_status
Phase ==
  CASE CaseStatus \in {"DRAFT", "CONTEXT_BUILDING"} -> "CONTEXT_PREPARATION"
    [] evaluation # None -> "CLOSED"
    [] outcome # None -> "EVALUATION_READY"
    [] decision # None -> "OUTCOME_RUNNING"
    [] run.status \in {"QUEUED", "RUNNING", "PARTIALLY_COMPLETED"} -> "REVIEW_RUNNING"
    [] run.status = "COMPLETED" -> "DOSSIER_READY"
    [] CaseStatus \in {"OPTIONS_READY", "DECISION_REQUIRED", "REOPENED"} -> "READY_FOR_REVIEW"
    [] CaseStatus \in {"DECIDED", "ACTIONING"} -> "OUTCOME_RUNNING"
    [] CaseStatus = "VERIFIED" -> "EVALUATION_READY"
    [] OTHER -> "CLOSED"

PrimaryAction(phase) ==
  CASE phase = "CONTEXT_PREPARATION" -> "BUILD_CONTEXT"
    [] phase = "READY_FOR_REVIEW" -> "RUN_VIRTUAL_REVIEW"
    [] phase = "REVIEW_RUNNING" -> "VIEW_REVIEW_PROGRESS"
    [] phase = "DOSSIER_READY" -> "VIEW_DOSSIER"
    [] phase = "OUTCOME_RUNNING" -> "ADVANCE_SIMULATION"
    [] phase = "EVALUATION_READY" -> "VIEW_EVALUATION"
    [] phase = "CLOSED" -> "VIEW_LEARNING_SUMMARY"

\* _effective_reviews, _recommended_option: a tie recommends nothing.
Effective(dossier) == [r \in DOMAIN dossier.original |->
  IF r \in DOMAIN dossier.revised THEN dossier.revised[r] ELSE dossier.original[r]]
Supporters(dossier, o) == {r \in DOMAIN dossier.original : Effective(dossier)[r].option = o}
Recommended(dossier) ==
  LET n(o) == Cardinality(Supporters(dossier, o))
      best == {o \in Option : n(o) > 0 /\ \A p \in Option \ {o} : n(p) < n(o)}
  IN  IF best = {} THEN None ELSE CHOOSE o \in best : TRUE

\* _role_review_detail: a revision is told of when it differs.
ChangedAfterChallenge(dossier) ==
  {r \in DOMAIN dossier.revised \cap DOMAIN dossier.original :
     dossier.revised[r] # dossier.original[r]}

\* build_dossier: agreement and dissent are those of the original reviews.
Agreement(dossier) ==
  LET says(r) == dossier.original[r].recommendation
  IN  {[recommendation |-> says(r),
        roles |-> {q \in DOMAIN dossier.original : says(q) = says(r)}] :
         r \in DOMAIN dossier.original}

\* _epistemic_items: an earlier step shows only what its evidence supports.
KnownClaims(state, s, historical) ==
  {c \in Claim :
     IF Standing[c] \in {"fact", "inference"} THEN Sources[c] \subseteq Arrived(state, s)
     ELSE ~historical}

\* _deliberation
Deliberation(state, s, historical, dossier) ==
  [known |-> KnownClaims(state, s, historical),
   confirm |-> IF historical THEN {} ELSE Uncertainties,
   agreement |-> IF dossier = None THEN {} ELSE Agreement(dossier),
   dissent |-> IF dossier = None THEN {} ELSE dossier.dissent,
   changed |-> IF dossier = None THEN {} ELSE ChangedAfterChallenge(dossier)]

\* _action_status and _guardrail_results
ActionStatus(o) ==
  IF o = None THEN "IN_PROGRESS"
  ELSE IF Contains(o.executed, "rollback") THEN "CANCELLED"
  ELSE IF o.executed # <<>> THEN "BLOCKED" ELSE "COMPLETED"
GuardrailMessage(d, o) ==
  CASE o.guardrail = "triggered" -> "violated, measures taken"
    [] o.guardrail = "monitoring" -> "the measurements are within the guardrails"
    [] d.safeguards # <<>> -> "no measurement applies"
    [] OTHER -> "no guardrails"

\* One turn of the loop of _observed_transitions: the action comes to the state
\* its outcome left it in.
Change(last, changes, planned) ==
  IF planned = last THEN changes
  ELSE Append(changes, IF planned.entity = "action" THEN last ELSE planned)

ApplyChanges(last, planned) ==
  FoldLeft(LAMBDA changes, next : Change(last, changes, next), <<>>, planned)

ObservedChanges(expected, d, o) ==
  IF d = None THEN <<>>
  ELSE LET action(x) == [entity |-> "action", to |-> x]
           last == action(ActionStatus(o))
           changes == ApplyChanges(last, IF d.option = None THEN <<>> ELSE expected[d.option])
       IN  IF o = None THEN <<action("IN_PROGRESS")>>
           ELSE IF \E i \in DOMAIN changes : changes[i].entity = "action" THEN changes
           ELSE Append(changes, last)

\* _outcome_and_evaluation
Results(expected, d, o, e) ==
  IF d = None THEN [state |-> "not_available", hidden |-> TRUE]
  ELSE IF o = None THEN [state |-> "running", hidden |-> TRUE]
  ELSE [state |-> "available", hidden |-> FALSE,
        expected |-> IF d.option = None THEN <<>> ELSE expected[d.option],
        actual |-> <<o.revealed, o.metrics, o.consequences, o.executed>>,
        guardrail |-> GuardrailMessage(d, o),
        process |-> e # None /\ e.process, contained |-> e # None /\ e.outcome,
        lessons |-> e # None /\ (o.revealed \/ o.executed # <<>>)]

\* _state_at_step: the work item that stands for a track.
WorkPriority ==
  [BLOCKED |-> 0, REWORK |-> 1, IN_PROGRESS |-> 2, READY |-> 3,
   PLANNED |-> 4, DONE |-> 5, VERIFIED |-> 6, CANCELLED |-> 7]
TrackState(state, t) ==
  LET items == {w \in Work : TrackOf[w] = t}
      key(w) == <<WorkPriority[state[w].status], state[w].planned>>
      first == {w \in items : \A x \in items :
                  \/ key(w)[1] < key(x)[1]
                  \/ key(w)[1] = key(x)[1] /\ key(w)[2] <= key(x)[2]}
  IN  {[item |-> w, status |-> state[w].status, blocker |-> state[w].blocker] : w \in first}

\* _decision_posture
Posture(state, s) ==
  LET arrived == Arrived(state, s)
  IN  [evidence |-> IF arrived = {} THEN "insufficient"
                    ELSE IF arrived = Evidence THEN "sufficient" ELSE "partial",
       reversibility |-> IF Reversible = Option THEN "high"
                         ELSE IF Reversible # {} THEN "medium" ELSE "low",
       detectability |-> Detectability(arrived),
       urgency |-> IF state[Deadline] < s THEN "expired"
                   ELSE IF state[Deadline] <= s + 2 THEN "high"
                   ELSE IF state[Deadline] <= s + 5 THEN "medium" ELSE "low",
       blocked |-> {TrackOf[w] : w \in {x \in Work : \/ state[x].status = "BLOCKED"
                                                     \/ state[x].blocker}}]

\* _causal_chain, for each of the last three events
LastThree(log) == {v \in log : Cardinality({u \in log : Precedes(v, u)}) < 3}
CausalChain(state, v) ==
  LET related == {p \in Propagations(state) : p.source \in DOMAIN v.changes}
  IN  [event |-> v.id,
       inferred |-> {<<p.source, p.downstream>> : p \in {q \in related : q.downstream # {}}},
       milestones |-> UNION {p.milestones : p \in related}]

\* _alternative_comparisons
Alternative(state, s, historical, dossier, d, o) ==
  [evidence |-> {e \in UNION {Sources[c] : c \in OptionClaims[o]} :
                   ~historical \/ state[e] <= s},
   recommended |-> dossier # None /\ Recommended(dossier) = o,
   supporters |-> IF dossier = None THEN {} ELSE Supporters(dossier, o),
   safeguards |-> IF d # None /\ d.option = o THEN d.safeguards ELSE <<>>]

\* build_workspace_projection_v2: an earlier step shows no review, decision,
\* outcome or evaluation.
Workspace(s) ==
  LET state == Rewound(s)
      historical == s # StoredStep
      dossier == IF historical \/ run.status # "COMPLETED" THEN None
                 ELSE run.execution.dossier
      d == IF historical THEN None ELSE decision
      o == IF d = None THEN None ELSE outcome
      modelled == TemplateStep # None /\ s >= TemplateStep
      expected == IF modelled THEN Transitions ELSE [p \in Option |-> <<>>]
  IN  [mode |-> IF historical THEN "historical" ELSE "current",
       phase |-> IF historical THEN None ELSE Phase,
       action |-> IF historical THEN None ELSE PrimaryAction(Phase),
       remaining |-> <<state[Deadline], s>>,
       evidence |-> Arrived(state, s),
       nextEvidence |-> {state[e] : e \in Evidence} \ 0..s,
       active |-> {a \in Act : state[a].status \notin {"COMPLETED", "CANCELLED"}},
       tracks |-> [t \in Track |-> TrackState(state, t)],
       posture |-> Posture(state, s),
       chains |-> {CausalChain(state, v) : v \in LastThree(VisibleEvents(s))},
       blockers |-> Propagations(state),
       deliberation |-> Deliberation(state, s, historical, dossier),
       alternatives |-> [p \in Option |-> Alternative(state, s, historical, dossier, d, p)],
       control |-> IF d = None THEN None ELSE [plan |-> d.plan, status |-> ActionStatus(o)],
       observed |-> ObservedChanges(expected, d, o),
       result |-> Results(expected, d, o, evaluation)]

-----------------------------------------------------------------------------
(* Properties *)

\* An earlier step reads the same whatever is learnt, decided or measured
\* later: a step of the system changes the packet, the timeline and the
\* workspace of a past step only by an event observed by then
\* (reconstruct_case_at_step, the filters on observed_at_step, and what
\* build_workspace_projection_v2 leaves out of a historical view).
PastIsClosed ==
  [][\A s \in 0..currentStep :
       (\A v \in events' \ events : v.observed > s) =>
         /\ Packet(s)' = Packet(s) /\ Timeline(s)' = Timeline(s)
         /\ s < StoredStep => Workspace(s)' = Workspace(s)]_twinVars

\* A decision of simulated_chair_decision passes what is asked of decisions
\* elsewhere: the contract of multi_role, the policy, and, until the deadline,
\* the checks of evaluation on its control and its action, whatever types the
\* case allows (the one that is preferred is the only one that counts) and
\* whatever its record says.
ChairMeetsItsChecks ==
  LET packet == Packet(StoredStep)
  IN  \A type \in DecisionType :
        LET d == ChairDecision(packet, {}, {type})
        IN
        /\ DecisionOK(d) /\ PolicyOK(d, {type}, packet.step)
        /\ ControlComplete(d, packet.step) /\ ActionComplete(d, packet.step)
        /\ packet.step <= packet.deadline => ActionTypeComplete(d, packet.deadline)

\* A guardrail of decision d is violated by what has been measured at o.
Violated(o, guard) ==
  /\ guard.metric \in DOMAIN o.metrics /\ o.step >= guard.check
  /\ ~Holds(o.metrics[guard.metric], guard.operator, guard.threshold)

\* The action of a decision is shown as cancelled or blocked exactly when its
\* outcome has measured a violation of one of its guardrails that was due, and
\* as cancelled when one of those asks for a rollback (_apply_guardrails,
\* _action_status and _observed_transitions agree).
ViolationsStopTheAction ==
  decision # None /\ outcome # None /\ outcome.decision = decision =>
    LET w == Workspace(StoredStep)
        violated == {g \in ToSet(decision.safeguards) : Violated(outcome, g)}
        status == IF violated = {} THEN "COMPLETED"
                  ELSE IF \E g \in violated : g.action = "rollback" THEN "CANCELLED"
                  ELSE "BLOCKED"
    IN  /\ w.control.status = status
        /\ \A i \in DOMAIN w.observed :
             w.observed[i].entity = "action" => w.observed[i].to = status

\* Before a decision has been advanced no outcome is shown with it.
OutcomesAwaitTheirAdvance ==
  Workspace(StoredStep).result.state = "available" => outcome.decision = decision
=============================================================================
