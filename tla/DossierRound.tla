---------------------------- MODULE DossierRound ----------------------------
(***************************************************************************)
(* What an execution thread of ReviewRuns does for a dossier run:          *)
(*   application/multi_role.py  run_dossier_round (roles, Challenger,      *)
(*       revisions, Chair, their failures and the budgets),                *)
(*   agents/runtime.py  execute_grounded_review,                           *)
(*       execute_challenger_review, execute_chair_review (the retries of   *)
(*       one logical step).                                                *)
(*                                                                         *)
(* A run has several executions when workers are lost: the next one starts *)
(* from the checkpoints and from the attempts the earlier ones recorded.   *)
(* Who may write a checkpoint is the subject of ReviewRuns; here the       *)
(* executions of a run follow one another.                                 *)
(*                                                                         *)
(* Roles are numbered in the order of selected_role_ids.  What a provider  *)
(* says is reduced to what the orchestration looks at: the recommendation  *)
(* of a role, the target roles of the Challenger's objections, the roles   *)
(* whose dissent the Chair acknowledges, and the cost.                     *)
(***************************************************************************)
EXTENDS Naturals, FiniteSetsExt

CONSTANTS
  NumRoles,       \* length of selected_role_ids (at most max_role_agents, 5)
  Topology,       \* "B1", "B2" or "B3", stored with the run
  Advice,         \* recommendations
  Costs,          \* what a call may cost
  MaxCalls,       \* AgentRuntimeBudget.max_provider_attempts (12 in the code)
  MaxCost,        \* AgentRuntimeBudget.max_case_cost_usd
  MaxClaims,      \* max_attempts of the run (2 in the code)
  MaxRevised,     \* MAX_REVISED_ROLES (2 in the code)
  MaxObjections,  \* bound: objections a Challenger makes
  None

ASSUME DossierConstantsOK ==
  /\ NumRoles \in 1..5
  /\ Topology \in {"B1", "B2", "B3"}
  /\ Costs \subseteq Nat
  /\ {MaxCalls, MaxCost, MaxClaims, MaxRevised} \subseteq Nat

VARIABLES
  claim,      \* executions started
  phase,      \* of the latest execution
  now,        \* accepted outputs the execution has: loaded or produced
  failed,     \* the roles and revisions it gave up
  step,       \* the retry loop of the logical step at work
  unchecked,  \* the step whose budget check is still to come
  used,       \* provider_attempts: calls counted against the budget
  saved,      \* agent_run_steps: the checkpoints of the run
  rows,       \* agent_attempts: number of rows
  revised     \* the roles with rows of review_round 1

execVars == <<phase, now, failed, step, unchecked, used>>
runVars == <<claim, saved, rows, revised>>
dossierVars == <<execVars, runVars>>

Role == 1..NumRoles
Routed == IF Topology = "B1" THEN {1} ELSE Role

Review(i) == <<"review", i>>
Revision(i) == <<"revision", i>>
Challenger == <<"challenger", 0>>
Chair == <<"chair", 0>>

RoleStep == {Review(i) : i \in Role} \cup {Revision(i) : i \in Role}
LogicalStep == RoleStep \cup {Challenger, Chair}

Objections == UNION {[1..n -> Role] : n \in 0..MaxObjections}

Output(s) ==
  [content: CASE s \in RoleStep -> Advice
              [] s = Challenger -> Objections
              [] s = Chair -> SUBSET Role,
   cost: Costs]

ASSUME NoneOK == None \notin LogicalStep /\ \A s \in LogicalStep : None \notin Output(s)

\* The counters of one execute_..._review.
Fresh == [made |-> 0, retried |-> {}]

StepCounters == [made: 0..3, retried: SUBSET {"transport", "schema", "policy"}]

Nothing == [s \in LogicalStep |-> None]

DossierTypeOK ==
  /\ claim \in 0..MaxClaims
  /\ phase \in {"idle", "running", "returned", "failed", "lost"}
  /\ \A work \in {now, saved} :
       /\ DOMAIN work = LogicalStep
       /\ \A s \in LogicalStep : work[s] = None \/ work[s] \in Output(s)
  /\ failed \subseteq RoleStep
  /\ step \in StepCounters
  /\ unchecked \in LogicalStep \cup {None}
  /\ used \in 0..MaxCalls
  /\ rows \in 0..MaxCalls
  /\ revised \subseteq Role

DossierInit ==
  /\ claim = 0
  /\ phase = "idle"
  /\ now = Nothing
  /\ failed = {}
  /\ step = Fresh
  /\ unchecked = None
  /\ used = 0
  /\ saved = Nothing
  /\ rows = 0
  /\ revised = {}

-----------------------------------------------------------------------------
\* The order of the round

Reviewed == {i \in Routed : now[Review(i)] # None}
OpenRoles == {i \in Routed \ Reviewed : Review(i) \notin failed}

\* The targets of the first objections, MAX_REVISED_ROLES of them.
Objected ==
  IF now[Challenger] = None THEN << >>
  ELSE [n \in {k \in DOMAIN now[Challenger].content : k <= MaxRevised} |->
          now[Challenger].content[n]]

Targets == {Objected[n] : n \in DOMAIN Objected}
OpenTargets == {i \in Targets : now[Revision(i)] = None /\ Revision(i) \notin failed}

\* Where a target stands in the order of the objections.
Place(i) == Min({n \in DOMAIN Objected : Objected[n] = i})

\* The step run_dossier_round comes to next.
Due(s) ==
  \/ \E i \in OpenRoles : s = Review(i) /\ \A j \in OpenRoles : i <= j
  \/ /\ OpenRoles = {} /\ Reviewed # {}
     /\ \/ s = Challenger /\ Topology = "B3" /\ now[Challenger] = None
        \/ \E i \in OpenTargets :
             s = Revision(i) /\ \A j \in OpenTargets : Place(i) <= Place(j)
        \/ /\ s = Chair /\ Topology = "B3" /\ now[Chair] = None
           /\ now[Challenger] # None /\ OpenTargets = {}

\* The steps whose cost is in the total when the budget is checked after s:
\* those the round has passed, loaded or executed.
Passed(s) ==
  CASE s[1] = "review" -> {Review(i) : i \in {j \in Reviewed : j <= s[2]}}
    [] s = Challenger -> {Review(i) : i \in Reviewed} \cup {s}
    [] s[1] = "revision" ->
         {Review(i) : i \in Reviewed} \cup {Challenger}
           \cup {Revision(i) : i \in {j \in Targets : Place(j) <= Place(s[2])}}
    [] s = Chair -> LogicalStep

Total(work, S) == MapThenSumSet(LAMBDA s : work[s].cost, S)
CostOf(work, S) == Total(work, {s \in S : work[s] # None})

\* The minority roles of the dossier: the first most frequent recommendation is
\* the majority.
Dissent(work) ==
  LET R == {i \in Role : work[Review(i)] # None}
      advice(i) == work[Review(i)].content
      votes(i) == Cardinality({j \in R : advice(j) = advice(i)})
      leaders == {i \in R : \A j \in R : votes(i) >= votes(j)}
  IN {i \in R : advice(i) # advice(Min(leaders))}

-----------------------------------------------------------------------------
\* Mutant of Execute: what lost executions called is not counted.
ExecuteWithFullBudget ==
  /\ phase \in {"idle", "lost"}
  /\ claim < MaxClaims
  /\ claim' = claim + 1
  /\ phase' = "running"
  /\ now' = saved
  /\ used' = 0
  /\ failed' = {} /\ step' = Fresh /\ unchecked' = None
  /\ UNCHANGED <<saved, rows, revised>>

\* A worker claims the run (which closes the open attempts) and starts an
\* execution from the checkpoints.
Execute ==
  /\ phase \in {"idle", "lost"}
  /\ claim < MaxClaims
  /\ claim' = claim + 1
  /\ phase' = "running"
  /\ now' = saved
  /\ used' = rows
  /\ failed' = {} /\ step' = Fresh /\ unchecked' = None
  /\ UNCHANGED <<saved, rows, revised>>

Limit == Min({3, MaxCalls - used})

Ready(s) == phase = "running" /\ unchecked = None /\ Due(s)

\* A call of the provider for s, with its attempt row.
Calls(s) ==
  /\ Ready(s)
  /\ step.made < Limit
  /\ rows' = rows + 1
  /\ revised' = revised \cup {i \in Role : s = Revision(i)}

\* The loop of s ends: its calls count, and the next step starts afresh.
LoopEnds ==
  /\ used' = used + step.made + 1
  /\ step' = Fresh

\* No attempt is left for the step.
OutOfCalls(s) ==
  /\ Ready(s)
  /\ step.made = 0
  /\ used >= MaxCalls
  /\ phase' = "failed"
  /\ UNCHANGED <<now, failed, step, unchecked, used, runVars>>

\* Mutant of Valid: the Chair's answer is not held against the dossier.
ValidWithoutDissent(s, o) ==
  s = Challenger => \A n \in DOMAIN o.content : o.content[n] \in Reviewed

\* _validate_challenger and _validate_chair, as far as they look at other steps.
Valid(s, o) ==
  /\ s = Challenger => \A n \in DOMAIN o.content : o.content[n] \in Reviewed
  /\ s = Chair => Dissent(now) \subseteq o.content

\* Mutant of Accept: a role's output is kept only for the result.
AcceptUnsaved(s, o) ==
  /\ Calls(s)
  /\ Valid(s, o)
  /\ LoopEnds
  /\ now' = [now EXCEPT ![s] = o]
  /\ unchecked' = s
  /\ UNCHANGED <<phase, failed, saved, claim>>

\* The answer is accepted.  Roles and revisions are saved before the budget is
\* checked, the Challenger's and the Chair's answers after it.
Accept(s, o) ==
  /\ Calls(s)
  /\ Valid(s, o)
  /\ LoopEnds
  /\ now' = [now EXCEPT ![s] = o]
  /\ unchecked' = s
  /\ saved' = IF s \in RoleStep THEN [saved EXCEPT ![s] = o] ELSE saved
  /\ UNCHANGED <<phase, failed, claim>>

\* Mutant of CheckBudget: the cost is not looked at.
CheckNothing ==
  /\ phase = "running"
  /\ unchecked # None
  /\ saved' = IF unchecked \in {Challenger, Chair}
              THEN [saved EXCEPT ![unchecked] = now[unchecked]] ELSE saved
  /\ unchecked' = None
  /\ UNCHANGED <<phase, now, failed, step, used, claim, rows, revised>>

\* Mutant of CheckBudget: the Challenger's output is kept for the result only.
CheckWithoutChallenger ==
  /\ phase = "running"
  /\ unchecked # None
  /\ \/ /\ CostOf(now, Passed(unchecked)) > MaxCost
        /\ phase' = "failed"
        /\ UNCHANGED saved
     \/ /\ CostOf(now, Passed(unchecked)) <= MaxCost
        /\ saved' = IF unchecked = Chair
                    THEN [saved EXCEPT ![unchecked] = now[unchecked]] ELSE saved
        /\ UNCHANGED phase
  /\ unchecked' = None
  /\ UNCHANGED <<now, failed, step, used, claim, rows, revised>>

\* _enforce_runtime_budget, and the checkpoint of the Challenger or the Chair.
CheckBudget ==
  /\ phase = "running"
  /\ unchecked # None
  /\ \/ /\ CostOf(now, Passed(unchecked)) > MaxCost
        /\ phase' = "failed"
        /\ UNCHANGED saved
     \/ /\ CostOf(now, Passed(unchecked)) <= MaxCost
        /\ saved' = IF unchecked \in {Challenger, Chair}
                    THEN [saved EXCEPT ![unchecked] = now[unchecked]] ELSE saved
        /\ UNCHANGED phase
  /\ unchecked' = None
  /\ UNCHANGED <<now, failed, step, used, claim, rows, revised>>

\* Each kind of failure is retried once in a step, within its calls.
MayRetry(reason) == reason \notin step.retried /\ step.made + 1 < Limit

\* A call fails in a way that may be tried again.
Retry(s, reason) ==
  /\ Calls(s)
  /\ MayRetry(reason)
  /\ step' = [made |-> step.made + 1, retried |-> step.retried \cup {reason}]
  /\ UNCHANGED <<phase, now, failed, unchecked, used, saved, claim>>

\* The step fails: the retries are used up, the call timed out, or an error
\* nobody expects came (it ends the Challenger's and the Chair's loop without a
\* final record of the attempt).  A dossier does without the role or the
\* revision, but not without Challenger and Chair.
GiveUp(s, reason) ==
  /\ Calls(s)
  /\ reason \in {"transport", "schema", "policy"} => ~MayRetry(reason)
  /\ IF s \in RoleStep
     THEN /\ failed' = failed \cup {s}
          /\ LoopEnds
          /\ UNCHANGED phase
     ELSE /\ phase' = "failed"
          /\ UNCHANGED <<failed, step, used>>
  /\ UNCHANGED <<now, unchecked, saved, claim>>

\* A call that ends the execution: the provider's usage limit is reached, or the
\* answer is longer than the step may be.
Abort(s) ==
  /\ Calls(s)
  /\ phase' = "failed"
  /\ UNCHANGED <<now, failed, step, unchecked, used, saved, claim>>

\* Mutant of Return: a dossier without reviews is returned.
ReturnAnything ==
  /\ phase = "running"
  /\ unchecked = None
  /\ \A s \in LogicalStep : ~Due(s)
  /\ phase' = "returned"
  /\ UNCHANGED <<now, failed, step, unchecked, used, runVars>>

\* Nothing is left to do: the dossier is put together, unless no role has a
\* review (ALL_MANDATORY_ROLES_FAILED).
Return ==
  /\ phase = "running"
  /\ unchecked = None
  /\ \A s \in LogicalStep : ~Due(s)
  /\ phase' = IF Reviewed = {} THEN "failed" ELSE "returned"
  /\ UNCHANGED <<now, failed, step, unchecked, used, runVars>>

\* The worker is lost, in a call (its row stays open) or between two.
Lose ==
  /\ phase \in {"running", "returned"}
  /\ phase' = "lost"
  /\ \/ UNCHANGED <<rows, revised>>
     \/ \E s \in LogicalStep : Calls(s)
  /\ UNCHANGED <<now, failed, step, unchecked, used, claim, saved>>

CallStep ==
  \E s \in LogicalStep :
    \/ OutOfCalls(s)
    \/ \E o \in Output(s) : Accept(s, o)
    \/ \E reason \in {"transport", "schema", "policy"} : Retry(s, reason)
    \/ \E reason \in {"transport", "schema", "policy", "timeout", "unexpected"} :
         GiveUp(s, reason)
    \/ Abort(s)

RoundStep == CallStep \/ CheckBudget \/ Return

DossierNext == Execute \/ RoundStep \/ Lose

DossierSpec == DossierInit /\ [][DossierNext]_dossierVars

-----------------------------------------------------------------------------
\* Properties

\* "Provider attempts including retry/repair | 12 maximum"
\* (05_AGENT_RUNTIME_AND_SECURITY_POLICY.md): executions that follow one another
\* keep the budget together, and an execution knows what was called before it.
RunsShareTheBudget ==
  /\ rows <= MaxCalls
  /\ phase = "running" => rows = used + step.made

\* "Revised roles per case | 2 maximum": also when a later execution asks for
\* revisions again.
RevisedRolesAreLimited == Cardinality(revised) <= MaxRevised

\* A live execution has every checkpoint of the run, and what it accepted and
\* is past the budget check is one.
CheckpointsAreComplete ==
  phase \in {"running", "returned"} =>
    \A s \in LogicalStep : s # unchecked => now[s] = saved[s]

\* A dossier has a review of every routed role that did not fail, of at least
\* one, and a Challenger and a Chair if the topology asks for them.
ResultAccountsForRoles ==
  phase = "returned" =>
    /\ Reviewed # {}
    /\ \A i \in Routed : i \in Reviewed <=> Review(i) \notin failed
    /\ (Topology = "B3") <=> (now[Challenger] # None /\ now[Chair] # None)

\* In an execution that loaded nothing the Chair acknowledges the dissent of
\* the dossier it is part of, whichever roles failed and were revised.
FreshChairAcknowledgesDissent ==
  claim = 1 /\ phase = "returned" /\ now[Chair] # None =>
    Dissent(now) \subseteq now[Chair].content

\* The accepted outputs are within the cost of the case before every call of an
\* execution that loaded nothing.
FreshCallsAreCovered ==
  claim = 1 /\ phase = "running" /\ unchecked = None =>
    CostOf(now, LogicalStep) <= MaxCost

\* The same for every execution: test_dissent_survives_challenge_and_chair_
\* acknowledges_it asserts of a result that its Chair acknowledges its dissent.
ChairAcknowledgesDissent ==
  phase = "returned" /\ now[Chair] # None =>
    Dissent(now) \subseteq now[Chair].content
=============================================================================
