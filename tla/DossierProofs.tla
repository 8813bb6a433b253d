---------------------------- MODULE DossierProofs ----------------------------
(***************************************************************************)
(* Theorems of DossierRound: its types, the budget its executions share,   *)
(* the completeness of its checkpoints, what its result accounts for, and the *)
(* cost of what a first execution accepted.                                *)
(***************************************************************************)
EXTENDS DossierRound, FiniteSetTheorems, WellFoundedInduction, TLAPS

-----------------------------------------------------------------------------
\* Least numbers

Below == {p \in Nat \X Nat : p[1] < p[2]}

LEMMA BelowIsWellFounded == IsWellFoundedOn(Below, Nat)
BY NatLessThanWellFounded DEF OpToRel, Below

LEMMA LeastNumber ==
  ASSUME NEW S, S \subseteq Nat, S # {}
  PROVE  \E x \in S : \A y \in S : x <= y
<1>1. PICK x \in S : \A y \in S : <<y, x>> \notin Below
  BY BelowIsWellFounded, WFMin
<1>2. ASSUME NEW y \in S, y < x PROVE FALSE
  <2>1. <<y, x>> \in Nat \X Nat
    OBVIOUS
  <2>2. <<y, x>> \in Below
    BY <1>2, <2>1 DEF Below
  <2>. QED  BY <1>1, <2>2
<1>3. \A y \in S : x <= y
  BY <1>2
<1>. QED  BY <1>3

LEMMA MinIsLeast ==
  ASSUME NEW S, S \subseteq Nat, S # {}
  PROVE  Min(S) \in S /\ \A y \in S : Min(S) <= y
BY LeastNumber DEF Min

-----------------------------------------------------------------------------
\* Types and the budget

Typed == DossierTypeOK /\ RunsShareTheBudget

LEMMA LimitBounds ==
  ASSUME DossierTypeOK
  PROVE  Limit \in Nat /\ Limit <= 3 /\ Limit <= MaxCalls - used
<1>1. MaxCalls - used \in Nat
  BY DossierConstantsOK DEF DossierTypeOK
<1>2. {3, MaxCalls - used} \subseteq Nat
  BY <1>1
<1>. QED  BY <1>2, MinIsLeast DEF Limit

LEMMA TypedInit == ASSUME DossierInit PROVE Typed
BY DossierConstantsOK
   DEF Typed, DossierInit, DossierTypeOK, RunsShareTheBudget, Nothing, Fresh, StepCounters

\* A call keeps the number of rows in the budget.
LEMMA CallFits ==
  ASSUME Typed, NEW s \in LogicalStep, Calls(s)
  PROVE  /\ phase = "running" /\ rows = used + step.made
         /\ step.made \in 0..2 /\ used + step.made + 1 \in 0..MaxCalls
         /\ rows' = used + step.made + 1 /\ revised' \subseteq Role
         /\ unchecked = None
<1>1. step.made \in Nat /\ used \in Nat /\ MaxCalls \in Nat
  BY DossierConstantsOK DEF Typed, DossierTypeOK, StepCounters
<1>2. rows = used + step.made
  BY DEF Typed, RunsShareTheBudget, Calls, Ready
<1>3. Limit \in Nat /\ Limit <= 3 /\ Limit <= MaxCalls - used /\ step.made < Limit
  BY LimitBounds DEF Typed, Calls
<1>4. revised' \subseteq Role
  BY DEF Typed, DossierTypeOK, Calls
<1>. QED  BY <1>1, <1>2, <1>3, <1>4 DEF Calls, Ready

LEMMA TypedStep ==
  ASSUME Typed, [DossierNext]_dossierVars
  PROVE  Typed'
<1>. USE DossierConstantsOK DEF Typed
<1>1. CASE Execute
  BY <1>1 DEF Execute, DossierTypeOK, RunsShareTheBudget, Fresh, StepCounters
<1>2. ASSUME NEW s \in LogicalStep, OutOfCalls(s) PROVE Typed'
  BY <1>2 DEF OutOfCalls, runVars, DossierTypeOK, RunsShareTheBudget
<1>3. ASSUME NEW s \in LogicalStep, NEW o \in Output(s), Accept(s, o) PROVE Typed'
  <2>1. Calls(s) /\ now' = [now EXCEPT ![s] = o] /\ unchecked' = s
        /\ (saved' = [saved EXCEPT ![s] = o] \/ saved' = saved)
        /\ used' = used + step.made + 1 /\ step' = Fresh
        /\ phase' = phase /\ failed' = failed /\ claim' = claim
    BY <1>3 DEF Accept, LoopEnds
  <2>2. \A work \in {now', saved'} :
          /\ DOMAIN work = LogicalStep
          /\ \A t \in LogicalStep : work[t] = None \/ work[t] \in Output(t)
    BY <2>1 DEF DossierTypeOK
  <2>3. used' \in 0..MaxCalls /\ rows' \in 0..MaxCalls /\ rows' = used' + 0 /\ revised' \subseteq Role
    BY <2>1, CallFits
  <2>4. step' \in StepCounters /\ step'.made = 0
    BY <2>1 DEF Fresh, StepCounters
  <2>5. DossierTypeOK'
    BY <2>1, <2>2, <2>3, <2>4 DEF DossierTypeOK
  <2>. QED  BY <2>3, <2>4, <2>5 DEF RunsShareTheBudget
<1>4. ASSUME NEW s \in LogicalStep, NEW reason \in {"transport", "schema", "policy"},
             Retry(s, reason)
      PROVE  Typed'
  <2>1. Calls(s) /\ step' = [made |-> step.made + 1, retried |-> step.retried \cup {reason}]
    BY <1>4 DEF Retry
  <2>2. /\ rows' \in 0..MaxCalls /\ rows' = used + step.made + 1 /\ revised' \subseteq Role
        /\ step.made \in 0..2 /\ used \in Nat
    BY <2>1, CallFits DEF DossierTypeOK
  <2>3. step'.made = step.made + 1
    BY <2>1
  <2>4. rows' \in 0..MaxCalls /\ rows' = used + step'.made /\ revised' \subseteq Role
    BY <2>2, <2>3
  <2>5. step' \in StepCounters
    BY <2>1, CallFits DEF DossierTypeOK, StepCounters
  <2>. QED  BY <1>4, <2>4, <2>5 DEF Retry, DossierTypeOK, RunsShareTheBudget
<1>5. ASSUME NEW s \in LogicalStep,
             NEW reason \in {"transport", "schema", "policy", "timeout", "unexpected"},
             GiveUp(s, reason)
      PROVE  Typed'
  <2>1. Calls(s) /\ now' = now /\ unchecked' = unchecked /\ saved' = saved /\ claim' = claim
    BY <1>5 DEF GiveUp
  <2>2. rows' \in 0..MaxCalls /\ rows' = used + step.made + 1 /\ revised' \subseteq Role
        /\ used + step.made + 1 \in 0..MaxCalls
    BY <2>1, CallFits
  <2>3. CASE s \in RoleStep
    <3>1. failed' = failed \cup {s} /\ used' = used + step.made + 1 /\ step' = Fresh
          /\ phase' = phase
      BY <1>5, <2>3 DEF GiveUp, LoopEnds
    <3>2. step' \in StepCounters /\ step'.made = 0
      BY <3>1 DEF Fresh, StepCounters
    <3>3. used' + step'.made = used + step.made + 1
      BY <2>2, <3>1, <3>2
    <3>. QED  BY <2>1, <2>2, <2>3, <3>1, <3>2, <3>3 DEF DossierTypeOK, RunsShareTheBudget
  <2>4. CASE s \notin RoleStep
    BY <1>5, <2>1, <2>2, <2>4 DEF GiveUp, DossierTypeOK, RunsShareTheBudget
  <2>. QED  BY <2>3, <2>4
<1>6. ASSUME NEW s \in LogicalStep, Abort(s) PROVE Typed'
  <2>1. Calls(s)
    BY <1>6 DEF Abort
  <2>2. rows' \in 0..MaxCalls /\ revised' \subseteq Role
    BY <2>1, CallFits
  <2>. QED  BY <1>6, <2>2 DEF Abort, DossierTypeOK, RunsShareTheBudget
<1>7. CASE CheckBudget
  BY <1>7 DEF CheckBudget, DossierTypeOK, RunsShareTheBudget
<1>8. CASE Return
  BY <1>8 DEF Return, runVars, DossierTypeOK, RunsShareTheBudget
<1>9. CASE Lose
  <2>1. rows' \in 0..MaxCalls /\ revised' \subseteq Role
    BY <1>9, CallFits DEF Lose, DossierTypeOK
  <2>. QED  BY <1>9, <2>1 DEF Lose, DossierTypeOK, RunsShareTheBudget
<1>10. CASE UNCHANGED dossierVars
  BY <1>10 DEF dossierVars, execVars, runVars, DossierTypeOK, RunsShareTheBudget
<1>. QED
  BY <1>1, <1>2, <1>3, <1>4, <1>5, <1>6, <1>7, <1>8, <1>9, <1>10
     DEF DossierNext, RoundStep, CallStep

\* The executions of a run keep their types, for all budgets, roles and costs.
THEOREM DossierTypeCorrect == DossierSpec => []DossierTypeOK
<1>1. Typed => DossierTypeOK
  BY DEF Typed
<1>. QED  BY <1>1, TypedInit, TypedStep, PTL DEF DossierSpec

\* Executions that follow one another keep the attempt budget of the run, and
\* each knows how many calls were made before it, crashes in a call included.
THEOREM BudgetIsShared == DossierSpec => []RunsShareTheBudget
<1>1. Typed => RunsShareTheBudget
  BY DEF Typed
<1>. QED  BY <1>1, TypedInit, TypedStep, PTL DEF DossierSpec
-----------------------------------------------------------------------------
\* Checkpoints

Held ==
  /\ CheckpointsAreComplete
  /\ phase \in {"running", "returned"} /\ unchecked \in RoleStep
       => now[unchecked] = saved[unchecked]
  /\ phase = "returned" => unchecked = None

LEMMA StepsDiffer ==
  /\ Challenger \notin RoleStep /\ Chair \notin RoleStep /\ Challenger # Chair
  /\ Challenger \in LogicalStep /\ Chair \in LogicalStep
  /\ \A i \in Role : /\ Review(i) \in RoleStep /\ Revision(i) \in RoleStep
                     /\ Review(i) \in LogicalStep /\ Revision(i) \in LogicalStep
BY DEF Challenger, Chair, RoleStep, LogicalStep, Review, Revision

LEMMA HeldInit == ASSUME DossierInit PROVE Held
BY DEF DossierInit, Held, CheckpointsAreComplete

LEMMA HeldStep ==
  ASSUME DossierTypeOK, Held, [DossierNext]_dossierVars
  PROVE  Held'
<1>. USE DEF Held, CheckpointsAreComplete
<1>1. CASE Execute
  BY <1>1, NoneOK DEF Execute, LogicalStep
<1>2. ASSUME NEW s \in LogicalStep, NEW o \in Output(s), Accept(s, o) PROVE Held'
  <2>1. /\ phase = "running" /\ unchecked = None /\ unchecked' = s /\ phase' = phase
        /\ now' = [now EXCEPT ![s] = o]
        /\ saved' = IF s \in RoleStep THEN [saved EXCEPT ![s] = o] ELSE saved
    BY <1>2 DEF Accept, Calls, Ready
  <2>2. \A t \in LogicalStep : t # s => now'[t] = now[t] /\ saved'[t] = saved[t]
    BY <2>1 DEF DossierTypeOK
  <2>3. \A t \in LogicalStep : t # s => now'[t] = saved'[t]
    BY <2>1, <2>2, NoneOK
  <2>4. s \in RoleStep => now'[s] = saved'[s]
    BY <2>1 DEF DossierTypeOK
  <2>. QED  BY <2>1, <2>3, <2>4
<1>3. ASSUME NEW s \in LogicalStep,
             OutOfCalls(s) \/ Abort(s)
               \/ (\E reason \in {"transport", "schema", "policy"} : Retry(s, reason))
      PROVE  Held'
  BY <1>3 DEF OutOfCalls, Abort, Retry, Calls, Ready, runVars
<1>4. ASSUME NEW s \in LogicalStep,
             NEW reason \in {"transport", "schema", "policy", "timeout", "unexpected"},
             GiveUp(s, reason)
      PROVE  Held'
  BY <1>4 DEF GiveUp, Calls, Ready
<1>5. CASE CheckBudget
  <2>1. unchecked \in RoleStep \/ unchecked \in {Challenger, Chair}
    BY <1>5 DEF CheckBudget, DossierTypeOK, LogicalStep
  <2>2. CASE phase' = "failed"
    BY <2>2
  <2>3. CASE phase' = phase /\ unchecked \in RoleStep
    <3>1. saved' = saved /\ now' = now /\ unchecked' = None /\ phase = "running"
      BY <1>5, <2>3, StepsDiffer DEF CheckBudget
    <3>2. \A t \in LogicalStep : now'[t] = saved'[t]
      BY <2>3, <3>1
    <3>. QED  BY <2>3, <3>1, <3>2, NoneOK DEF LogicalStep
  <2>4. CASE phase' = phase /\ phase' # "failed" /\ unchecked \in {Challenger, Chair}
    <3>1. /\ saved' = [saved EXCEPT ![unchecked] = now[unchecked]]
          /\ now' = now /\ unchecked' = None /\ phase = "running"
      BY <1>5, <2>4 DEF CheckBudget
    <3>2. \A t \in LogicalStep : now'[t] = saved'[t]
      BY <3>1 DEF DossierTypeOK
    <3>. QED  BY <2>4, <3>1, <3>2, NoneOK DEF LogicalStep
  <2>. QED  BY <1>5, <2>1, <2>2, <2>3, <2>4 DEF CheckBudget
<1>6. CASE Return
  BY <1>6 DEF Return, runVars
<1>7. CASE Lose
  BY <1>7 DEF Lose
<1>8. CASE UNCHANGED dossierVars
  BY <1>8 DEF dossierVars, execVars, runVars
<1>. QED
  BY <1>1, <1>2, <1>3, <1>4, <1>5, <1>6, <1>7, <1>8 DEF DossierNext, RoundStep, CallStep

\* A live execution has every checkpoint of the run, and all it accepted is one
\* once the budget was checked, whatever executions were lost before it.
THEOREM CheckpointsComplete == DossierSpec => []CheckpointsAreComplete
<1>1. Held => CheckpointsAreComplete
  BY DEF Held
<1>2. Typed /\ Held /\ [DossierNext]_dossierVars => Held'
  BY HeldStep DEF Typed
<1>. QED  BY <1>1, <1>2, HeldInit, TypedInit, TypedStep, PTL DEF DossierSpec
-----------------------------------------------------------------------------
\* The order of the round

\* What the first objections in a checkpoint of the Challenger name.
Named(output) ==
  {output.content[n] : n \in {k \in DOMAIN output.content : k <= MaxRevised}}

LEMMA TargetsAreNamed ==
  ASSUME now[Challenger] # None
  PROVE  Targets = Named(now[Challenger])
BY DEF Targets, Objected, Named

LEMMA DueReview ==
  ASSUME NEW i \in Role, Due(Review(i))
  PROVE  i \in OpenRoles
BY DEF Due, Review, Revision, Challenger, Chair

LEMMA DueRevision ==
  ASSUME NEW i \in Role, Due(Revision(i))
  PROVE  now[Challenger] # None /\ i \in OpenTargets /\ OpenRoles = {} /\ Reviewed # {}
<1>1. /\ OpenRoles = {} /\ Reviewed # {}
      /\ \E j \in OpenTargets : Revision(i) = Revision(j)
  BY DEF Due, Review, Revision, Challenger, Chair
<1>2. i \in OpenTargets
  BY <1>1 DEF Revision
<1>3. Targets # {}
  BY <1>2 DEF OpenTargets
<1>4. ASSUME now[Challenger] = None PROVE FALSE
  <2>1. Objected = << >>
    BY <1>4 DEF Objected
  <2>2. DOMAIN << >> = {}
    OBVIOUS
  <2>. QED  BY <1>3, <2>1, <2>2 DEF Targets
<1>. QED  BY <1>1, <1>2, <1>4

LEMMA DueChallenger ==
  ASSUME Due(Challenger)
  PROVE  Topology = "B3" /\ now[Challenger] = None
BY DEF Due, Review, Revision, Challenger, Chair

LEMMA DueChair ==
  ASSUME Due(Chair)
  PROVE  /\ Topology = "B3" /\ now[Chair] = None /\ now[Challenger] # None
         /\ OpenRoles = {} /\ Reviewed # {} /\ OpenTargets = {}
BY DEF Due, Review, Revision, Challenger, Chair

LEMMA StepKinds ==
  ASSUME NEW s \in LogicalStep
  PROVE  \/ s = Challenger
         \/ s = Chair
         \/ \E i \in Role : s = Review(i) \/ s = Revision(i)
BY DEF LogicalStep, RoleStep

-----------------------------------------------------------------------------
\* Revisions

\* Only what the saved objections name was revised, and they are saved once.
RevisionsNamed ==
  /\ revised # {} => saved[Challenger] # None /\ revised \subseteq Named(saved[Challenger])
  /\ phase = "running" /\ unchecked = Challenger => saved[Challenger] = None

LEMMA NamedIsSmall ==
  ASSUME NEW o \in Output(Challenger), NEW R \in SUBSET Named(o)
  PROVE  Cardinality(R) <= MaxRevised
<1>1. o.content \in Objections
  BY StepsDiffer DEF Output
<1>2. PICK n \in 0..MaxObjections : o.content \in [1..n -> Role]
  BY <1>1 DEF Objections
<1>. DEFINE D == {k \in DOMAIN o.content : k <= MaxRevised}
<1>3. D \subseteq 1..MaxRevised
  BY <1>2, DossierConstantsOK
<1>4. IsFiniteSet(1..MaxRevised) /\ Cardinality(1..MaxRevised) = MaxRevised
  BY FS_Interval, DossierConstantsOK
<1>5. IsFiniteSet(D) /\ Cardinality(D) <= MaxRevised
  BY <1>3, <1>4, FS_Subset
<1>. DEFINE f == [k \in D |-> o.content[k]]
<1>6. f \in Surjection(D, Named(o))
  BY DEF Named, Surjection
<1>7. IsFiniteSet(Named(o)) /\ Cardinality(Named(o)) <= Cardinality(D)
  BY <1>5, <1>6, FS_Surjection
<1>8. IsFiniteSet(R) /\ Cardinality(R) <= Cardinality(Named(o))
  BY <1>7, FS_Subset
<1>9. Cardinality(R) \in Nat /\ Cardinality(Named(o)) \in Nat /\ Cardinality(D) \in Nat
  BY <1>5, <1>7, <1>8, FS_CardinalityType
<1>. QED  BY <1>5, <1>7, <1>8, <1>9, DossierConstantsOK

LEMMA RevisionsInit == ASSUME DossierInit PROVE RevisionsNamed
BY DEF DossierInit, RevisionsNamed

LEMMA CallRevises ==
  ASSUME Held, RevisionsNamed, NEW s \in LogicalStep, Calls(s)
  PROVE  revised' # {} =>
           saved[Challenger] # None /\ revised' \subseteq Named(saved[Challenger])
<1>1. /\ phase = "running" /\ unchecked = None /\ Due(s)
      /\ revised' = revised \cup {i \in Role : s = Revision(i)}
  BY DEF Calls, Ready
<1>2. now[Challenger] = saved[Challenger]
  BY <1>1, StepsDiffer, NoneOK DEF Held, CheckpointsAreComplete
<1>3. ASSUME NEW i \in Role, s = Revision(i)
      PROVE  saved[Challenger] # None /\ i \in Named(saved[Challenger])
  BY <1>1, <1>2, <1>3, DueRevision, TargetsAreNamed DEF OpenTargets
<1>. QED  BY <1>1, <1>3 DEF RevisionsNamed

LEMMA RevisionsStep ==
  ASSUME DossierTypeOK, Held, RevisionsNamed, [DossierNext]_dossierVars
  PROVE  RevisionsNamed'
<1>. USE DEF RevisionsNamed
<1>1. CASE Execute
  BY <1>1, StepsDiffer, NoneOK DEF Execute
<1>2. ASSUME NEW s \in LogicalStep, NEW o \in Output(s), Accept(s, o) PROVE RevisionsNamed'
  <2>1. /\ Calls(s) /\ Due(s) /\ unchecked = None /\ phase = "running" /\ unchecked' = s
        /\ saved' = IF s \in RoleStep THEN [saved EXCEPT ![s] = o] ELSE saved
    BY <1>2 DEF Accept, Calls, Ready
  <2>2. saved'[Challenger] = saved[Challenger]
    BY <2>1, StepsDiffer DEF DossierTypeOK
  <2>3. now[Challenger] = saved[Challenger]
    BY <2>1, StepsDiffer, NoneOK DEF Held, CheckpointsAreComplete
  <2>4. s = Challenger => saved[Challenger] = None
    BY <2>1, <2>3, DueChallenger
  <2>. QED  BY <2>1, <2>2, <2>4, CallRevises
<1>3. ASSUME NEW s \in LogicalStep,
             OutOfCalls(s) \/ Abort(s)
               \/ (\E reason \in {"transport", "schema", "policy"} : Retry(s, reason))
               \/ (\E reason \in {"transport", "schema", "policy", "timeout", "unexpected"} :
                     GiveUp(s, reason))
      PROVE  RevisionsNamed'
  <2>1. CASE OutOfCalls(s)
    BY <2>1 DEF OutOfCalls, runVars
  <2>2. CASE ~OutOfCalls(s)
    <3>1. /\ Calls(s) /\ unchecked = None /\ saved' = saved /\ unchecked' = unchecked
      BY <1>3, <2>2 DEF Abort, Retry, GiveUp, Calls, Ready
    <3>. QED  BY <3>1, CallRevises, StepsDiffer, NoneOK
  <2>. QED  BY <2>1, <2>2
<1>4. CASE CheckBudget
  <2>1. unchecked' = None /\ revised' = revised /\ phase = "running"
    BY <1>4 DEF CheckBudget
  <2>2. CASE unchecked = Challenger
    BY <2>1, <2>2, StepsDiffer, NoneOK
  <2>3. CASE unchecked # Challenger
    <3>1. saved'[Challenger] = saved[Challenger]
      BY <1>4, <2>3, StepsDiffer DEF CheckBudget, DossierTypeOK
    <3>. QED  BY <2>1, <3>1, StepsDiffer, NoneOK
  <2>. QED  BY <2>2, <2>3
<1>5. CASE Return
  BY <1>5 DEF Return, runVars
<1>6. CASE Lose
  BY <1>6, CallRevises DEF Lose
<1>7. CASE UNCHANGED dossierVars
  BY <1>7 DEF dossierVars, execVars, runVars
<1>. QED
  BY <1>1, <1>2, <1>3, <1>4, <1>5, <1>6, <1>7 DEF DossierNext, RoundStep, CallStep

\* However many executions a run takes and whatever its objections name, at
\* most MaxRevised roles are asked for a revision.
THEOREM FewRolesAreRevised == DossierSpec => []RevisedRolesAreLimited
<1>1. DossierTypeOK /\ RevisionsNamed => RevisedRolesAreLimited
  <2>1. CASE revised = {}
    BY <2>1, FS_EmptySet, DossierConstantsOK DEF RevisedRolesAreLimited
  <2>2. CASE revised # {}
    BY <2>2, NamedIsSmall, StepsDiffer DEF RevisedRolesAreLimited, RevisionsNamed, DossierTypeOK
  <2>. QED  BY <2>1, <2>2
<1>2. DossierTypeOK /\ Held /\ RevisionsNamed /\ [DossierNext]_dossierVars => RevisionsNamed'
  BY RevisionsStep
<1>3. Typed /\ Held /\ [DossierNext]_dossierVars => Held'
  BY HeldStep DEF Typed
<1>4. Typed => DossierTypeOK
  BY DEF Typed
<1>. QED
  BY <1>1, <1>2, <1>3, <1>4, HeldInit, TypedInit, TypedStep, RevisionsInit, PTL DEF DossierSpec
-----------------------------------------------------------------------------
\* The result

LEMMA RoutedIsRole == Routed \subseteq Role
BY DossierConstantsOK DEF Routed, Role

LEMMA ObjectedType ==
  ASSUME DossierTypeOK
  PROVE  DOMAIN Objected \subseteq Nat /\ Targets \subseteq Role
<1>1. CASE now[Challenger] = None
  <2>1. Objected = << >>
    BY <1>1 DEF Objected
  <2>2. DOMAIN << >> = {}
    OBVIOUS
  <2>. QED  BY <2>1, <2>2 DEF Targets
<1>2. CASE now[Challenger] # None
  <2>1. now[Challenger].content \in Objections
    BY <1>2, StepsDiffer DEF DossierTypeOK, Output
  <2>2. PICK n \in 0..MaxObjections : now[Challenger].content \in [1..n -> Role]
    BY <2>1 DEF Objections
  <2>3. \A k \in DOMAIN Objected : k \in 1..n /\ Objected[k] = now[Challenger].content[k]
    BY <1>2, <2>2 DEF Objected
  <2>. QED  BY <2>2, <2>3 DEF Targets
<1>. QED  BY <1>1, <1>2

LEMMA PlaceIsNat ==
  ASSUME DossierTypeOK, NEW i \in Targets
  PROVE  Place(i) \in Nat
<1>. DEFINE S == {n \in DOMAIN Objected : Objected[n] = i}
<1>1. S \subseteq Nat /\ S # {}
  BY ObjectedType DEF Targets
<1>2. Min(S) \in S
  BY <1>1, MinIsLeast
<1>. QED  BY <1>1, <1>2 DEF Place

\* Where nothing is due, nothing is missing.
LEMMA NothingDue ==
  ASSUME DossierTypeOK, \A s \in LogicalStep : ~Due(s)
  PROVE  /\ OpenRoles = {}
         /\ Reviewed # {} /\ Topology = "B3" => now[Challenger] # None /\ now[Chair] # None
<1>1. ASSUME OpenRoles # {} PROVE FALSE
  <2>1. OpenRoles \subseteq Role /\ OpenRoles \subseteq Nat
    <3>1. OpenRoles \subseteq Role
      BY RoutedIsRole DEF OpenRoles
    <3>. QED  BY <3>1 DEF Role
  <2>2. PICK i \in OpenRoles : \A j \in OpenRoles : i <= j
    BY <1>1, <2>1, LeastNumber
  <2>3. Due(Review(i))
    BY <2>2 DEF Due
  <2>. QED  BY <2>1, <2>3, StepsDiffer
<1>2. ASSUME Reviewed # {}, Topology = "B3" PROVE now[Challenger] # None
  BY <1>1, <1>2, StepsDiffer DEF Due
<1>3. ASSUME Reviewed # {}, Topology = "B3", OpenTargets # {} PROVE FALSE
  <2>1. OpenTargets \subseteq Targets /\ OpenTargets \subseteq Role
    BY ObjectedType DEF OpenTargets
  <2>. DEFINE P == {Place(i) : i \in OpenTargets}
  <2>2. P \subseteq Nat /\ P # {}
    BY <1>3, <2>1, PlaceIsNat
  <2>3. PICK p \in P : \A q \in P : p <= q
    BY <2>2, LeastNumber
  <2>4. PICK i \in OpenTargets : p = Place(i)
    BY <2>3
  <2>5. \A j \in OpenTargets : Place(i) <= Place(j)
    BY <2>3, <2>4
  <2>6. Due(Revision(i))
    BY <1>1, <1>3, <2>4, <2>5 DEF Due
  <2>. QED  BY <2>1, <2>4, <2>6, StepsDiffer
<1>4. ASSUME Reviewed # {}, Topology = "B3" PROVE now[Chair] # None
  BY <1>1, <1>2, <1>3, <1>4, StepsDiffer DEF Due
<1>. QED  BY <1>1, <1>2, <1>4

Accounted ==
  /\ phase \in {"running", "returned"} =>
       /\ \A t \in failed : now[t] = None
       /\ Topology # "B3" => now[Challenger] = None /\ now[Chair] = None
  /\ Topology # "B3" => saved[Challenger] = None /\ saved[Chair] = None
  /\ ResultAccountsForRoles

LEMMA AccountedInit == ASSUME DossierInit PROVE Accounted
BY StepsDiffer DEF DossierInit, Nothing, Accounted, ResultAccountsForRoles

\* A step that is due has no output yet.
LEMMA DueIsOpen ==
  ASSUME NEW s \in LogicalStep, Due(s), DossierTypeOK
  PROVE  /\ now[s] = None /\ s \notin failed
         /\ s \in {Challenger, Chair} => Topology = "B3"
<1>1. CASE s \in {Challenger, Chair}
  BY <1>1, DueChallenger, DueChair, StepsDiffer DEF DossierTypeOK
<1>2. ASSUME NEW i \in Role, s = Review(i) PROVE now[s] = None /\ s \notin failed
  BY <1>2, DueReview DEF OpenRoles, Reviewed
<1>3. ASSUME NEW i \in Role, s = Revision(i) PROVE now[s] = None /\ s \notin failed
  BY <1>3, DueRevision DEF OpenTargets
<1>. QED  BY <1>1, <1>2, <1>3, StepKinds, StepsDiffer

LEMMA AccountedStep ==
  ASSUME DossierTypeOK, Held, Accounted, [DossierNext]_dossierVars
  PROVE  Accounted'
<1>. USE DEF Accounted
<1>1. CASE Execute
  BY <1>1 DEF Execute, ResultAccountsForRoles
<1>2. ASSUME NEW s \in LogicalStep, NEW o \in Output(s), Accept(s, o) PROVE Accounted'
  <2>1. /\ Due(s) /\ phase = "running" /\ phase' = phase /\ failed' = failed
        /\ now' = [now EXCEPT ![s] = o]
        /\ saved' = IF s \in RoleStep THEN [saved EXCEPT ![s] = o] ELSE saved
    BY <1>2 DEF Accept, Calls, Ready
  <2>2. s \notin failed /\ (s \in {Challenger, Chair} => Topology = "B3")
    BY <2>1, DueIsOpen
  <2>3. \A t \in failed' : now'[t] = None
    BY <2>1, <2>2 DEF DossierTypeOK
  <2>4. Topology # "B3" =>
          /\ now'[Challenger] = None /\ now'[Chair] = None
          /\ saved'[Challenger] = None /\ saved'[Chair] = None
    BY <2>1, <2>2, StepsDiffer DEF DossierTypeOK
  <2>. QED  BY <2>1, <2>3, <2>4 DEF ResultAccountsForRoles
<1>3. ASSUME NEW s \in LogicalStep,
             OutOfCalls(s) \/ Abort(s)
               \/ (\E reason \in {"transport", "schema", "policy"} : Retry(s, reason))
      PROVE  Accounted'
  BY <1>3 DEF OutOfCalls, Abort, Retry, Calls, Ready, runVars, ResultAccountsForRoles
<1>4. ASSUME NEW s \in LogicalStep,
             NEW reason \in {"transport", "schema", "policy", "timeout", "unexpected"},
             GiveUp(s, reason)
      PROVE  Accounted'
  <2>1. /\ Due(s) /\ phase = "running" /\ now' = now /\ saved' = saved
        /\ phase' \in {"running", "failed"}
        /\ failed' \subseteq failed \cup {s}
    BY <1>4 DEF GiveUp, Calls, Ready
  <2>2. now[s] = None
    BY <2>1, DueIsOpen
  <2>. QED  BY <2>1, <2>2 DEF ResultAccountsForRoles
<1>5. CASE CheckBudget
  <2>1. /\ phase = "running" /\ phase' \in {"running", "failed"} /\ now' = now /\ failed' = failed
        /\ \/ saved' = saved
           \/ saved' = [saved EXCEPT ![unchecked] = now[unchecked]]
    BY <1>5 DEF CheckBudget
  <2>2. Topology # "B3" => saved'[Challenger] = None /\ saved'[Chair] = None
    BY <2>1, StepsDiffer DEF DossierTypeOK
  <2>. QED  BY <2>1, <2>2 DEF ResultAccountsForRoles
<1>6. CASE Return
  <2>1. /\ phase = "running" /\ \A s \in LogicalStep : ~Due(s)
        /\ phase' = IF Reviewed = {} THEN "failed" ELSE "returned"
        /\ now' = now /\ failed' = failed /\ saved' = saved
    BY <1>6 DEF Return, runVars
  <2>2. Reviewed' = Reviewed
    BY <2>1 DEF Reviewed
  <2>3. ASSUME phase' = "returned" PROVE ResultAccountsForRoles'
    <3>1. Reviewed # {} /\ OpenRoles = {}
      BY <2>1, <2>3, NothingDue
    <3>2. \A i \in Routed : i \in Reviewed <=> Review(i) \notin failed
      BY <2>1, <3>1 DEF OpenRoles, Reviewed
    <3>3. (Topology = "B3") <=> (now[Challenger] # None /\ now[Chair] # None)
      BY <2>1, <3>1, NothingDue
    <3>. QED  BY <2>1, <2>2, <3>1, <3>2, <3>3 DEF ResultAccountsForRoles
  <2>4. phase' # "returned" => ResultAccountsForRoles'
    BY DEF ResultAccountsForRoles
  <2>. QED  BY <2>1, <2>3, <2>4
<1>7. CASE Lose
  BY <1>7 DEF Lose, ResultAccountsForRoles
<1>8. CASE UNCHANGED dossierVars
  BY <1>8 DEF dossierVars, execVars, runVars, ResultAccountsForRoles, Reviewed
<1>. QED
  BY <1>1, <1>2, <1>3, <1>4, <1>5, <1>6, <1>7, <1>8 DEF DossierNext, RoundStep, CallStep

\* A dossier that is returned has a review of exactly the roles that did not
\* fail, of at least one, and the Challenger and the Chair its topology asks
\* for; what they say is not part of it.
THEOREM ResultIsAccounted == DossierSpec => []ResultAccountsForRoles
<1>1. Accounted => ResultAccountsForRoles
  BY DEF Accounted
<1>2. DossierTypeOK /\ Held /\ Accounted /\ [DossierNext]_dossierVars => Accounted'
  BY AccountedStep
<1>3. Typed /\ Held /\ [DossierNext]_dossierVars => Held'
  BY HeldStep DEF Typed
<1>4. Typed => DossierTypeOK
  BY DEF Typed
<1>. QED
  BY <1>1, <1>2, <1>3, <1>4, HeldInit, TypedInit, TypedStep, AccountedInit, PTL DEF DossierSpec
-----------------------------------------------------------------------------
\* The dissent of an execution that loaded nothing

\* Once the Chair has spoken the round of a first execution is over.
Acknowledged ==
  /\ phase = "idle" => claim = 0 /\ saved = Nothing
  /\ claim = 0 => phase = "idle"
  /\ claim = 1 /\ phase \in {"running", "returned"} /\ now[Chair] # None =>
       /\ \A s \in LogicalStep : ~Due(s)
       /\ Dissent(now) \subseteq now[Chair].content

\* Who dissents depends on the reviews alone.
LEMMA DissentOfReviews ==
  ASSUME NEW v, NEW w, \A i \in Role : v[Review(i)] = w[Review(i)]
  PROVE  Dissent(v) = Dissent(w)
<1>. DEFINE R(x) == {i \in Role : x[Review(i)] # None}
            A(x, i) == x[Review(i)].content
            V(x, i) == Cardinality({j \in R(x) : A(x, j) = A(x, i)})
            L(x) == {i \in R(x) : \A j \in R(x) : V(x, i) >= V(x, j)}
<1>1. R(v) = R(w) /\ R(v) \subseteq Role
  OBVIOUS
<1>2. \A i \in Role : A(v, i) = A(w, i)
  OBVIOUS
<1>3. ASSUME NEW i \in R(v) PROVE V(v, i) = V(w, i)
  <2>1. {j \in R(v) : A(v, j) = A(v, i)} = {j \in R(w) : A(w, j) = A(w, i)}
    BY <1>1, <1>2
  <2>. QED  BY <2>1
<1>. HIDE DEF A
<1>4. \A i \in R(v) : V(v, i) \in 0..NumRoles
  <2>1. IsFiniteSet(Role) /\ Cardinality(Role) = NumRoles
    <3>1. NumRoles \in Nat
      BY DossierConstantsOK
    <3>2. IsFiniteSet(1..NumRoles) /\ Cardinality(1..NumRoles) = NumRoles
      BY <3>1, FS_Interval
    <3>. QED  BY <3>2 DEF Role
  <2>2. ASSUME NEW i \in R(v) PROVE V(v, i) \in 0..NumRoles
    <3>1. {j \in R(v) : A(v, j) = A(v, i)} \subseteq Role
      OBVIOUS
    <3>2. /\ IsFiniteSet({j \in R(v) : A(v, j) = A(v, i)})
          /\ Cardinality({j \in R(v) : A(v, j) = A(v, i)}) <= NumRoles
      BY <2>1, <3>1, FS_Subset
    <3>3. Cardinality({j \in R(v) : A(v, j) = A(v, i)}) \in Nat
      BY <3>2, FS_CardinalityType
    <3>. QED  BY <3>2, <3>3, DossierConstantsOK
  <2>. QED  BY <2>2
<1>. HIDE DEF V
<1>5. L(v) = L(w)
  BY <1>1, <1>3
<1>6. R(v) # {} => L(v) # {}
  <2>. SUFFICES ASSUME R(v) # {} PROVE L(v) # {}
    OBVIOUS
  <2>. DEFINE S == {NumRoles - V(v, i) : i \in R(v)}
  <2>1. S \subseteq Nat /\ S # {}
    BY <1>4, DossierConstantsOK
  <2>2. PICK n \in S : \A m \in S : n <= m
    BY <2>1, LeastNumber
  <2>3. PICK i \in R(v) : n = NumRoles - V(v, i)
    BY <2>2
  <2>4. ASSUME NEW j \in R(v) PROVE V(v, i) >= V(v, j)
    <3>1. NumRoles - V(v, i) <= NumRoles - V(v, j)
      BY <2>2, <2>3
    <3>. QED  BY <1>4, <3>1, DossierConstantsOK
  <2>. QED  BY <2>4
<1>7. R(v) # {} => Min(L(v)) \in Role
  <2>1. L(v) \subseteq Role
    OBVIOUS
  <2>2. L(v) \subseteq Nat
    BY <2>1 DEF Role
  <2>. QED  BY <1>6, <2>1, <2>2, MinIsLeast
<1>8. Dissent(v) = {i \in R(v) : A(v, i) # A(v, Min(L(v)))}
  BY DEF Dissent, V, A
<1>9. Dissent(w) = {i \in R(w) : A(w, i) # A(w, Min(L(w)))}
  BY DEF Dissent, V, A
<1>. HIDE DEF R, L
<1>. QED  BY <1>1, <1>2, <1>5, <1>7, <1>8, <1>9

LEMMA AcknowledgedInit == ASSUME DossierInit PROVE Acknowledged
BY DEF DossierInit, Acknowledged

LEMMA DueSame ==
  ASSUME now' = now, failed' = failed, NEW s
  PROVE  Due(s)' = Due(s)
BY DEF Due, OpenRoles, Reviewed, OpenTargets, Targets, Objected, Place

\* Nothing is due after the Chair.
LEMMA ChairIsLast ==
  ASSUME DossierTypeOK, Due(Chair), NEW o, o # None, now' = [now EXCEPT ![Chair] = o],
         failed' = failed, NEW s
  PROVE  ~Due(s)'
<1>1. /\ now[Challenger] # None /\ OpenRoles = {} /\ OpenTargets = {}
  BY DueChair
<1>2. \A t \in LogicalStep : t # Chair => now'[t] = now[t]
  BY DEF DossierTypeOK
<1>3. now'[Chair] = o
  BY StepsDiffer DEF DossierTypeOK
<1>4. \A i \in Role : now'[Review(i)] = now[Review(i)] /\ now'[Revision(i)] = now[Revision(i)]
  BY <1>2, StepsDiffer
<1>5. now'[Challenger] = now[Challenger]
  BY <1>2, StepsDiffer
<1>6. Reviewed' = Reviewed
  BY <1>4, RoutedIsRole DEF Reviewed
<1>7. OpenRoles' = {}
  BY <1>1, <1>6 DEF OpenRoles
<1>8. Objected' = Objected
  BY <1>5 DEF Objected
<1>9. Targets' = Targets /\ Targets \subseteq Role
  BY <1>8, ObjectedType DEF Targets
<1>10. OpenTargets' = {}
  BY <1>1, <1>4, <1>9 DEF OpenTargets
<1>. QED  BY <1>1, <1>3, <1>5, <1>7, <1>10 DEF Due

LEMMA AcknowledgedStep ==
  ASSUME DossierTypeOK, Acknowledged, [DossierNext]_dossierVars
  PROVE  Acknowledged'
<1>. USE DEF Acknowledged
<1>1. CASE Execute
  <2>1. claim' = claim + 1 /\ claim \in Nat /\ phase' = "running" /\ now' = saved
    BY <1>1 DEF Execute, DossierTypeOK
  <2>2. claim' = 1 => saved = Nothing
    BY <1>1, <2>1 DEF Execute
  <2>3. Nothing[Chair] = None
    BY StepsDiffer DEF Nothing
  <2>. QED  BY <2>1, <2>2, <2>3
<1>2. ASSUME NEW s \in LogicalStep, NEW o \in Output(s), Accept(s, o) PROVE Acknowledged'
  <2>1. /\ Due(s) /\ Valid(s, o) /\ phase = "running" /\ phase' = phase
        /\ failed' = failed /\ claim' = claim /\ now' = [now EXCEPT ![s] = o]
    BY <1>2 DEF Accept, Calls, Ready
  <2>2. CASE s = Chair
    <3>1. o # None /\ now'[Chair] = o
      BY <2>1, <2>2, NoneOK, StepsDiffer DEF DossierTypeOK
    <3>2. \A t \in LogicalStep : ~Due(t)'
      BY <2>1, <2>2, <3>1, ChairIsLast
    <3>3. Dissent(now) \subseteq o.content
      BY <2>1, <2>2 DEF Valid
    <3>4. \A i \in Role : now'[Review(i)] = now[Review(i)]
      BY <2>1, <2>2, StepsDiffer DEF DossierTypeOK
    <3>5. Dissent(now') = Dissent(now)
      BY <3>4, DissentOfReviews
    <3>. QED  BY <2>1, <3>1, <3>2, <3>3, <3>5
  <2>3. CASE s # Chair
    <3>1. now'[Chair] = now[Chair]
      BY <2>1, <2>3, StepsDiffer DEF DossierTypeOK
    <3>. QED  BY <2>1, <3>1
  <2>. QED  BY <2>2, <2>3
<1>3. ASSUME NEW s \in LogicalStep,
             OutOfCalls(s) \/ Abort(s)
               \/ (\E reason \in {"transport", "schema", "policy"} : Retry(s, reason))
      PROVE  Acknowledged'
  BY <1>3 DEF OutOfCalls, Abort, Retry, Calls, Ready, runVars
<1>4. ASSUME NEW s \in LogicalStep,
             NEW reason \in {"transport", "schema", "policy", "timeout", "unexpected"},
             GiveUp(s, reason)
      PROVE  Acknowledged'
  BY <1>4 DEF GiveUp, Calls, Ready
<1>5. CASE CheckBudget
  <2>1. /\ phase = "running" /\ phase' \in {"running", "failed"} /\ claim' = claim
        /\ now' = now /\ failed' = failed
    BY <1>5 DEF CheckBudget
  <2>. QED  BY <2>1, DueSame
<1>6. CASE Return
  <2>1. /\ phase = "running" /\ phase' \in {"returned", "failed"} /\ claim' = claim
        /\ now' = now /\ failed' = failed
    BY <1>6 DEF Return, runVars
  <2>. QED  BY <2>1, DueSame
<1>7. CASE Lose
  BY <1>7 DEF Lose
<1>8. CASE UNCHANGED dossierVars
  <2>1. now' = now /\ failed' = failed /\ phase' = phase /\ claim' = claim /\ saved' = saved
    BY <1>8 DEF dossierVars, execVars, runVars
  <2>. QED  BY <2>1, DueSame
<1>. QED
  BY <1>1, <1>2, <1>3, <1>4, <1>5, <1>6, <1>7, <1>8 DEF DossierNext, RoundStep, CallStep

\* In an execution that loaded nothing the Chair acknowledges every minority of
\* the dossier it is part of: no review comes after it.
THEOREM DissentIsAcknowledged == DossierSpec => []FreshChairAcknowledgesDissent
<1>1. Acknowledged => FreshChairAcknowledgesDissent
  BY DEF Acknowledged, FreshChairAcknowledgesDissent
<1>2. DossierTypeOK /\ Acknowledged /\ [DossierNext]_dossierVars => Acknowledged'
  BY AcknowledgedStep
<1>3. Typed => DossierTypeOK
  BY DEF Typed
<1>. QED
  BY <1>1, <1>2, <1>3, TypedInit, TypedStep, AcknowledgedInit, PTL DEF DossierSpec
-----------------------------------------------------------------------------
\* The cost of an execution that loaded nothing

\* Nothing costs nothing.
LEMMA NothingIsFree ==
  ASSUME NEW work
  PROVE  Total(work, {}) = 0
<1>. DEFINE body(iter) ==
       [s \in SUBSET {} |->
          IF s = {} THEN 0
          ELSE LET x == CHOOSE x \in s : TRUE IN work[x].cost + iter[s \ {x}]]
<1>1. Total(work, {}) = (CHOOSE iter : iter = body(iter))[{}]
  BY DEF Total, MapThenSumSet, MapThenFoldSet
<1>2. \A iter : body(iter) = [s \in SUBSET {} |-> 0]
  OBVIOUS
<1>3. \E iter : iter = body(iter)
  BY <1>2
<1>4. PICK iter : iter = (CHOOSE i : i = body(i)) /\ iter = body(iter)
  BY <1>3
<1>. QED  BY <1>1, <1>2, <1>4

PassedByKind ==
  \A i \in Role :
    /\ Passed(Review(i)) = {Review(j) : j \in {k \in Reviewed : k <= i}}
    /\ Passed(Challenger) = {Review(j) : j \in Reviewed} \cup {Challenger}
    /\ Passed(Revision(i)) =
         {Review(j) : j \in Reviewed} \cup {Challenger}
           \cup {Revision(j) : j \in {k \in Targets : Place(k) <= Place(i)}}
    /\ Passed(Chair) = LogicalStep

LEMMA PassedOf == PassedByKind
<1>. SUFFICES ASSUME NEW i \in Role
              PROVE  /\ Passed(Review(i)) = {Review(j) : j \in {k \in Reviewed : k <= i}}
                     /\ Passed(Challenger) = {Review(j) : j \in Reviewed} \cup {Challenger}
                     /\ Passed(Revision(i)) =
                          {Review(j) : j \in Reviewed} \cup {Challenger}
                            \cup {Revision(j) : j \in {k \in Targets : Place(k) <= Place(i)}}
                     /\ Passed(Chair) = LogicalStep
  BY DEF PassedByKind
<1>1. Passed(Review(i)) = {Review(j) : j \in {k \in Reviewed : k <= i}}
  <2>1. Review(i)[1] = "review" /\ Review(i)[2] = i /\ Review(i) # Challenger /\ Review(i) # Chair
    BY DEF Review, Challenger, Chair
  <2>. QED  BY <2>1 DEF Passed
<1>2. Passed(Challenger) = {Review(j) : j \in Reviewed} \cup {Challenger}
  <2>1. Challenger[1] = "challenger" /\ Challenger # Chair
    BY DEF Challenger, Chair
  <2>. QED  BY <2>1 DEF Passed
<1>3. Passed(Revision(i)) =
        {Review(j) : j \in Reviewed} \cup {Challenger}
          \cup {Revision(j) : j \in {k \in Targets : Place(k) <= Place(i)}}
  <2>1. /\ Revision(i)[1] = "revision" /\ Revision(i)[2] = i
        /\ Revision(i) # Challenger /\ Revision(i) # Chair
    BY DEF Revision, Challenger, Chair
  <2>. QED  BY <2>1 DEF Passed
<1>4. Passed(Chair) = LogicalStep
  <2>1. Chair[1] = "chair" /\ Challenger # Chair
    BY DEF Challenger, Chair
  <2>. QED  BY <2>1 DEF Passed
<1>. QED  BY <1>1, <1>2, <1>3, <1>4

LEMMA PassedNext == PassedByKind'
BY PassedOf, PTL

LEMMA PassedAreSteps ==
  ASSUME DossierTypeOK, NEW s \in LogicalStep
  PROVE  Passed(s) \subseteq LogicalStep
<1>1. Reviewed \subseteq Role /\ Targets \subseteq Role
  BY RoutedIsRole, ObjectedType DEF Reviewed
<1>2. ASSUME NEW i \in Role
      PROVE  /\ Passed(Review(i)) \subseteq LogicalStep /\ Passed(Revision(i)) \subseteq LogicalStep
             /\ Passed(Challenger) \subseteq LogicalStep /\ Passed(Chair) \subseteq LogicalStep
  BY <1>1, PassedOf, StepsDiffer DEF PassedByKind
<1>3. 1 \in Role
  BY DossierConstantsOK DEF Role
<1>. QED  BY <1>2, <1>3, StepKinds

\* The steps of a first execution come in the order in which the budget check
\* counts them, so that its total is that of all accepted outputs.
InOrder ==
  /\ \A i \in Role : now[Review(i)] # None => i \in Routed /\ \A j \in OpenRoles : i < j
  /\ now[Challenger] # None => OpenRoles = {}
  /\ \A i \in Role : now[Revision(i)] # None =>
       /\ OpenRoles = {} /\ now[Challenger] # None /\ i \in Targets
       /\ \A j \in OpenTargets : Place(i) <= Place(j)

Counted ==
  claim = 1 /\ phase = "running" =>
    /\ InOrder
    /\ unchecked # None => \A s \in LogicalStep : now[s] # None => s \in Passed(unchecked)
    /\ unchecked = None => CostOf(now, LogicalStep) <= MaxCost

LEMMA CountedInit == ASSUME DossierInit PROVE Counted
BY DEF DossierInit, Counted

LEMMA OrderFixed ==
  ASSUME DossierTypeOK, InOrder, now' = now, failed \subseteq failed'
  PROVE  InOrder' /\ \A s : Passed(s)' = Passed(s)
<1>1. Reviewed' = Reviewed /\ Objected' = Objected
  BY DEF Reviewed, Objected
<1>2. Targets' = Targets /\ \A i : Place(i)' = Place(i)
  BY <1>1 DEF Targets, Place
<1>3. OpenRoles' \subseteq OpenRoles /\ OpenTargets' \subseteq OpenTargets
  BY <1>1, <1>2 DEF OpenRoles, OpenTargets
<1>4. \A s : Passed(s)' = Passed(s)
  BY <1>1, <1>2 DEF Passed
<1>5. InOrder'
  BY <1>2, <1>3 DEF InOrder
<1>. QED  BY <1>4, <1>5

LEMMA ReviewInOrder ==
  ASSUME DossierTypeOK, InOrder, now[Chair] = None, NEW i \in Role, Due(Review(i)),
         NEW o, o # None, now' = [now EXCEPT ![Review(i)] = o], failed' = failed
  PROVE  InOrder' /\ \A s \in LogicalStep : now'[s] # None => s \in Passed(Review(i))'
<1>1. i \in OpenRoles /\ \A j \in OpenRoles : i <= j
  BY DEF Due, Review, Revision, Challenger, Chair
<1>2. /\ now'[Review(i)] = o
      /\ \A s \in LogicalStep : s # Review(i) => now'[s] = now[s]
  BY StepsDiffer DEF DossierTypeOK
<1>3. \A j, k \in Role : /\ Review(j) = Review(k) => j = k
                         /\ Revision(j) # Review(k)
  BY DEF Review, Revision
<1>4. /\ now[Challenger] = None /\ now'[Challenger] = None /\ now'[Chair] = None
      /\ \A j \in Role : now[Revision(j)] = None /\ now'[Revision(j)] = None
  BY <1>1, <1>2, <1>3, StepsDiffer DEF InOrder
<1>5. Reviewed' = Reviewed \cup {i} /\ Reviewed \subseteq Role /\ i \in Routed
  BY <1>1, <1>2, <1>3, RoutedIsRole, StepsDiffer DEF Reviewed, OpenRoles
<1>6. OpenRoles' = OpenRoles \ {i} /\ OpenRoles \subseteq Role
  BY <1>5, RoutedIsRole DEF OpenRoles
<1>7. \A j \in OpenRoles' : i < j
  BY <1>1, <1>6 DEF Role
<1>8. ASSUME NEW k \in Role, now'[Review(k)] # None
      PROVE  k \in Routed /\ k <= i /\ \A j \in OpenRoles' : k < j
  <2>1. CASE k = i
    BY <1>5, <1>7, <2>1 DEF Role
  <2>2. CASE k # i
    <3>1. now[Review(k)] # None
      BY <1>2, <1>3, <1>8, <2>2, StepsDiffer
    <3>2. k \in Routed /\ \A j \in OpenRoles : k < j
      BY <3>1 DEF InOrder
    <3>3. k < i
      BY <1>1, <3>2
    <3>. QED  BY <1>6, <3>2, <3>3 DEF Role
  <2>. QED  BY <2>1, <2>2
<1>9. InOrder'
  BY <1>4, <1>8 DEF InOrder
<1>10. ASSUME NEW s \in LogicalStep, now'[s] # None PROVE s \in Passed(Review(i))'
  <2>1. PICK k \in Role : s = Review(k)
    BY <1>4, <1>10, StepKinds
  <2>2. k \in Reviewed' /\ k <= i
    BY <1>8, <1>10, <2>1 DEF Reviewed
  <2>3. Passed(Review(i))' = {Review(j) : j \in {l \in Reviewed' : l <= i}}
    BY PassedNext DEF PassedByKind
  <2>. QED  BY <2>1, <2>2, <2>3
<1>. QED  BY <1>9, <1>10

LEMMA ChallengerInOrder ==
  ASSUME DossierTypeOK, InOrder, now[Chair] = None, Due(Challenger),
         NEW o, o # None, now' = [now EXCEPT ![Challenger] = o], failed' = failed
  PROVE  InOrder' /\ \A s \in LogicalStep : now'[s] # None => s \in Passed(Challenger)'
<1>1. now[Challenger] = None /\ OpenRoles = {}
  BY DEF Due, Review, Revision, Challenger, Chair
<1>2. /\ now'[Challenger] = o
      /\ \A s \in LogicalStep : s # Challenger => now'[s] = now[s]
  BY StepsDiffer DEF DossierTypeOK
<1>3. \A i \in Role : now'[Review(i)] = now[Review(i)] /\ now'[Revision(i)] = None
  BY <1>1, <1>2, StepsDiffer DEF InOrder
<1>4. now'[Chair] = None
  BY <1>2, StepsDiffer
<1>5. Reviewed' = Reviewed
  BY <1>3, RoutedIsRole DEF Reviewed
<1>6. OpenRoles' = {}
  BY <1>1, <1>5 DEF OpenRoles
<1>7. InOrder'
  BY <1>3, <1>6 DEF InOrder
<1>8. ASSUME NEW s \in LogicalStep, now'[s] # None PROVE s \in Passed(Challenger)'
  <2>1. s = Challenger \/ \E k \in Role : s = Review(k)
    BY <1>3, <1>4, <1>8, StepKinds
  <2>2. \A k \in Role : now'[Review(k)] # None => k \in Reviewed'
    BY <1>7 DEF InOrder, Reviewed
  <2>3. 1 \in Role
    BY DossierConstantsOK DEF Role
  <2>4. Passed(Challenger)' = {Review(j) : j \in Reviewed'} \cup {Challenger}
    BY <2>3, PassedNext DEF PassedByKind
  <2>. QED  BY <1>8, <2>1, <2>2, <2>4
<1>. QED  BY <1>7, <1>8

LEMMA RevisionInOrder ==
  ASSUME DossierTypeOK, InOrder, now[Chair] = None, NEW i \in Role, Due(Revision(i)),
         NEW o, o # None, now' = [now EXCEPT ![Revision(i)] = o], failed' = failed
  PROVE  InOrder' /\ \A s \in LogicalStep : now'[s] # None => s \in Passed(Revision(i))'
<1>1. /\ now[Challenger] # None /\ i \in OpenTargets /\ OpenRoles = {}
      /\ \A j \in OpenTargets : Place(i) <= Place(j)
  <2>1. PICK k \in OpenTargets : Revision(i) = Revision(k) /\ \A j \in OpenTargets : Place(k) <= Place(j)
    BY DEF Due, Review, Revision, Challenger, Chair
  <2>2. i = k
    BY <2>1 DEF Revision
  <2>. QED  BY <2>1, <2>2, DueRevision
<1>2. /\ now'[Revision(i)] = o
      /\ \A s \in LogicalStep : s # Revision(i) => now'[s] = now[s]
  BY StepsDiffer DEF DossierTypeOK
<1>3. \A j, k \in Role : /\ Revision(j) = Revision(k) => j = k
                         /\ Review(j) # Revision(k)
  BY DEF Review, Revision
<1>4. /\ now'[Challenger] = now[Challenger] /\ now'[Chair] = None
      /\ \A j \in Role : now'[Review(j)] = now[Review(j)]
      /\ \A j \in Role : j # i => now'[Revision(j)] = now[Revision(j)]
  BY <1>2, <1>3, StepsDiffer
<1>5. Reviewed' = Reviewed /\ Objected' = Objected
  BY <1>4, RoutedIsRole DEF Reviewed, Objected
<1>6. Targets' = Targets /\ \A j : Place(j)' = Place(j)
  BY <1>5 DEF Targets, Place
<1>7. OpenRoles' = {}
  BY <1>1, <1>5 DEF OpenRoles
<1>8. Targets \subseteq Role
  BY ObjectedType
<1>9. OpenTargets' \subseteq OpenTargets
  <2>1. i \notin OpenTargets'
    BY <1>2 DEF OpenTargets
  <2>. QED  BY <1>4, <1>6, <1>8, <2>1 DEF OpenTargets
<1>10. ASSUME NEW k \in Role, now'[Revision(k)] # None
       PROVE  /\ k \in Targets' /\ Place(k)' <= Place(i)'
              /\ \A j \in OpenTargets' : Place(k)' <= Place(j)'
  <2>1. CASE k = i
    <3>1. i \in Targets
      BY <1>1 DEF OpenTargets
    <3>2. Place(i) \in Nat
      BY <3>1, PlaceIsNat
    <3>. QED  BY <1>1, <1>6, <1>9, <2>1, <3>1, <3>2
  <2>2. CASE k # i
    <3>1. now[Revision(k)] # None
      BY <1>4, <1>10, <2>2
    <3>2. k \in Targets /\ \A j \in OpenTargets : Place(k) <= Place(j)
      BY <3>1 DEF InOrder
    <3>. QED  BY <1>1, <1>6, <1>9, <3>2
  <2>. QED  BY <2>1, <2>2
<1>11. \A k \in Role : now'[Review(k)] # None => k \in Routed
  BY <1>4 DEF InOrder
<1>12. InOrder'
  BY <1>1, <1>4, <1>7, <1>10, <1>11 DEF InOrder
<1>13. ASSUME NEW s \in LogicalStep, now'[s] # None PROVE s \in Passed(Revision(i))'
  <2>1. Passed(Revision(i))' =
          {Review(j) : j \in Reviewed'} \cup {Challenger}
            \cup {Revision(j) : j \in {k \in Targets' : Place(k)' <= Place(i)'}}
    BY PassedNext DEF PassedByKind
  <2>2. CASE s = Challenger
    BY <2>1, <2>2
  <2>3. ASSUME NEW k \in Role, s = Review(k) PROVE s \in Passed(Revision(i))'
    <3>1. k \in Reviewed'
      BY <1>11, <1>13, <2>3 DEF Reviewed
    <3>. QED  BY <2>1, <2>3, <3>1
  <2>4. ASSUME NEW k \in Role, s = Revision(k) PROVE s \in Passed(Revision(i))'
    <3>1. k \in Targets' /\ Place(k)' <= Place(i)'
      BY <1>10, <1>13, <2>4
    <3>. QED  BY <2>1, <2>4, <3>1
  <2>5. s # Chair
    BY <1>4, <1>13
  <2>. QED  BY <2>2, <2>3, <2>4, <2>5, StepKinds
<1>. QED  BY <1>12, <1>13

LEMMA ChairInOrder ==
  ASSUME DossierTypeOK, InOrder, NEW o, now' = [now EXCEPT ![Chair] = o], failed' = failed
  PROVE  InOrder' /\ \A s \in LogicalStep : now'[s] # None => s \in Passed(Chair)'
<1>1. \A s \in LogicalStep : s # Chair => now'[s] = now[s]
  BY DEF DossierTypeOK
<1>2. /\ now'[Challenger] = now[Challenger]
      /\ \A i \in Role : now'[Review(i)] = now[Review(i)] /\ now'[Revision(i)] = now[Revision(i)]
  BY <1>1, StepsDiffer
<1>3. Reviewed' = Reviewed /\ Objected' = Objected
  BY <1>2, RoutedIsRole DEF Reviewed, Objected
<1>4. Targets' = Targets /\ Targets \subseteq Role /\ \A i : Place(i)' = Place(i)
  BY <1>3, ObjectedType DEF Targets, Place
<1>5. OpenRoles' = OpenRoles /\ OpenTargets' = OpenTargets
  BY <1>2, <1>3, <1>4 DEF OpenRoles, OpenTargets
<1>6. InOrder'
  BY <1>2, <1>4, <1>5 DEF InOrder
<1>7. 1 \in Role
  BY DossierConstantsOK DEF Role
<1>8. Passed(Chair)' = LogicalStep
  BY <1>7, PassedNext DEF PassedByKind
<1>. QED  BY <1>6, <1>8

LEMMA CountedStep ==
  ASSUME DossierTypeOK, Acknowledged, Counted, [DossierNext]_dossierVars
  PROVE  Counted'
<1>. SUFFICES ASSUME claim' = 1, phase' = "running"
              PROVE  /\ InOrder'
                     /\ unchecked' # None =>
                          \A s \in LogicalStep : now'[s] # None => s \in Passed(unchecked)'
                     /\ unchecked' = None => CostOf(now, LogicalStep)' <= MaxCost
  BY DEF Counted
<1>1. CASE Execute
  <2>1. now' = Nothing /\ unchecked' = None
    <3>1. claim = 0
      BY <1>1 DEF Execute, DossierTypeOK
    <3>. QED  BY <1>1, <3>1 DEF Execute, Acknowledged
  <2>2. \A s \in LogicalStep : now'[s] = None
    BY <2>1 DEF Nothing
  <2>3. InOrder'
    BY <2>2, StepsDiffer DEF InOrder
  <2>4. {s \in LogicalStep : now'[s] # None} = {}
    BY <2>2
  <2>5. CostOf(now', LogicalStep) = Total(now', {})
    BY <2>4 DEF CostOf
  <2>6. CostOf(now', LogicalStep) <= MaxCost
    BY <2>5, NothingIsFree, DossierConstantsOK
  <2>. QED  BY <2>1, <2>3, <2>6
<1>2. ASSUME NEW s \in LogicalStep, NEW o \in Output(s), Accept(s, o)
      PROVE  InOrder' /\ unchecked' = s
               /\ \A t \in LogicalStep : now'[t] # None => t \in Passed(s)'
  <2>1. /\ Due(s) /\ claim = 1 /\ phase = "running" /\ unchecked' = s
        /\ now' = [now EXCEPT ![s] = o] /\ failed' = failed
    BY <1>2 DEF Accept, Calls, Ready
  <2>2. InOrder /\ o # None
    BY <2>1, NoneOK DEF Counted
  <2>3. now[Chair] = None
    BY <2>1 DEF Acknowledged
  <2>4. CASE s = Challenger
    BY <2>1, <2>2, <2>3, <2>4, ChallengerInOrder
  <2>5. CASE s = Chair
    BY <2>1, <2>2, <2>5, ChairInOrder
  <2>6. ASSUME NEW i \in Role, s = Review(i)
        PROVE  InOrder' /\ \A t \in LogicalStep : now'[t] # None => t \in Passed(s)'
    BY <2>1, <2>2, <2>3, <2>6, ReviewInOrder
  <2>7. ASSUME NEW i \in Role, s = Revision(i)
        PROVE  InOrder' /\ \A t \in LogicalStep : now'[t] # None => t \in Passed(s)'
    BY <2>1, <2>2, <2>3, <2>7, RevisionInOrder
  <2>. QED  BY <2>1, <2>4, <2>5, <2>6, <2>7, StepKinds
<1>3. ASSUME claim = 1, phase = "running", now' = now, unchecked' = unchecked, failed \subseteq failed'
      PROVE  /\ InOrder'
             /\ unchecked' # None =>
                  \A s \in LogicalStep : now'[s] # None => s \in Passed(unchecked)'
             /\ unchecked' = None => CostOf(now, LogicalStep)' <= MaxCost
  <2>1. InOrder' /\ \A s : Passed(s)' = Passed(s)
    BY <1>3, OrderFixed DEF Counted
  <2>2. Passed(unchecked)' = Passed(unchecked)
    BY <1>3, <2>1
  <2>3. CostOf(now', LogicalStep) = CostOf(now, LogicalStep)
    BY <1>3
  <2>. QED  BY <1>3, <2>1, <2>2, <2>3 DEF Counted
<1>4. ASSUME NEW s \in LogicalStep,
             OutOfCalls(s) \/ Abort(s)
               \/ (\E reason \in {"transport", "schema", "policy"} : Retry(s, reason))
      PROVE  claim = 1 /\ phase = "running" /\ now' = now /\ unchecked' = unchecked
               /\ failed \subseteq failed'
  BY <1>4 DEF OutOfCalls, Abort, Retry, Calls, Ready, runVars
<1>5. ASSUME NEW s \in LogicalStep,
             NEW reason \in {"transport", "schema", "policy", "timeout", "unexpected"},
             GiveUp(s, reason)
      PROVE  claim = 1 /\ phase = "running" /\ now' = now /\ unchecked' = unchecked
               /\ failed \subseteq failed'
  BY <1>5 DEF GiveUp, Calls, Ready
<1>6. CASE CheckBudget
  <2>1. /\ claim = 1 /\ phase = "running" /\ unchecked # None /\ unchecked' = None
        /\ now' = now /\ failed' = failed /\ CostOf(now, Passed(unchecked)) <= MaxCost
    BY <1>6 DEF CheckBudget
  <2>2. InOrder'
    BY <2>1, OrderFixed DEF Counted
  <2>3. \A s \in LogicalStep : now[s] # None => s \in Passed(unchecked)
    BY <2>1 DEF Counted
  <2>4. Passed(unchecked) \subseteq LogicalStep
    BY <2>1, PassedAreSteps DEF DossierTypeOK
  <2>5. {s \in LogicalStep : now[s] # None} = {s \in Passed(unchecked) : now[s] # None}
    BY <2>3, <2>4
  <2>6. CostOf(now, LogicalStep) = CostOf(now, Passed(unchecked))
    BY <2>5 DEF CostOf
  <2>. QED  BY <2>1, <2>2, <2>6
<1>7. CASE Return \/ Lose
  BY <1>7 DEF Return, Lose
<1>8. CASE UNCHANGED dossierVars
  <2>1. claim = 1 /\ phase = "running" /\ now' = now /\ unchecked' = unchecked
          /\ failed \subseteq failed'
    BY <1>8 DEF dossierVars, execVars, runVars
  <2>. QED  BY <1>3, <2>1
<1>9. ASSUME NEW s \in LogicalStep, NEW o \in Output(s), Accept(s, o)
      PROVE  /\ InOrder'
             /\ unchecked' # None =>
                  \A t \in LogicalStep : now'[t] # None => t \in Passed(unchecked)'
             /\ unchecked' = None => CostOf(now, LogicalStep)' <= MaxCost
  <2>1. unchecked' = s /\ s # None
    BY <1>2, <1>9, NoneOK
  <2>2. Passed(unchecked)' = Passed(s)'
    BY <2>1
  <2>. QED  BY <1>2, <1>9, <2>1, <2>2
<1>. QED
  BY <1>1, <1>3, <1>4, <1>5, <1>6, <1>7, <1>8, <1>9 DEF DossierNext, RoundStep, CallStep

\* In an execution that loaded nothing no provider is called while the accepted
\* outputs are over the cost of the case.
THEOREM CallsAreCovered == DossierSpec => []FreshCallsAreCovered
<1>1. Counted => FreshCallsAreCovered
  BY DEF Counted, FreshCallsAreCovered
<1>2. DossierTypeOK /\ Acknowledged /\ Counted /\ [DossierNext]_dossierVars => Counted'
  BY CountedStep
<1>3. DossierTypeOK /\ Acknowledged /\ [DossierNext]_dossierVars => Acknowledged'
  BY AcknowledgedStep
<1>4. Typed => DossierTypeOK
  BY DEF Typed
<1>. QED
  BY <1>1, <1>2, <1>3, <1>4, TypedInit, TypedStep, AcknowledgedInit, CountedInit, PTL
  DEF DossierSpec
=============================================================================
