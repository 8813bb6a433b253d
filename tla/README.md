# Verification of the SoC decision workspace

The repository is a decision workspace for SoC development: observable case
packets go to a set of reviewing agents (roles, a Challenger, a Chair), their
reviews become a dossier and a simulated decision, synthetic outcomes are
released, a human evaluator answers before and after seeing the advice, and an
enterprise side reconciles and maps source records without writing anything.

This directory holds TLA+ modules translated from its Python source, TLC
configurations that check them on small instances, and TLAPS proofs. Paths are
relative to the repository; `so/` stands for `backend/src/soc_ot/`.

## 1. Inventory

| Component | State | Operations | Meets |
|---|---|---|---|
| Review-run queue `so/application/review_runs.py` | tables `agent_runs`, `agent_run_events`, `agent_run_steps`, `agent_attempts` | enqueue, claim, heartbeat, complete, fail, cancel, retry, checkpoints, record_attempt | API (commands), workers (claims), threads (checkpoints, attempts) |
| Worker `so/worker/main.py` | one main loop, execution threads | process_one, execute_with_lease_heartbeat | queue, runtime |
| Agent runtime `so/agents/runtime.py` | attempt and retry counters of one logical step | execute_grounded_review, execute_challenger_review, execute_chair_review | providers, attempt ledger |
| Dossier orchestration `so/application/multi_role.py` | results, failures and usage of one execution | run_dossier_round | runtime, checkpoints |
| HTTP API `so/api/main.py` | none of its own | run, outcome and evaluation commands, event stream | all repositories |
| Outcome advances, simulated decisions `so/application/outcome_advances.py`, `outcomes.py`, `simulated_decisions.py` | decisions, action and outcome rows, commands | advance, decide | queue, hidden store |
| Evaluation responses `so/application/decision_evaluation_responses.py` | initial response, reveal, final response | submit, reveal, finalize | API |
| Case evaluation `so/application/evaluation.py`, `live_evaluation.py`, `so/infrastructure/evaluation_repository.py` | evaluations | evaluate a case; compare recorded live runs | hidden store |
| Enterprise sync `so/application/enterprise_sync.py` | checkpoint, known identities, tombstones | full, incremental, resumed synchronisation | mapping |
| Enterprise mapping, dry run `so/application/enterprise_mapping.py`, `enterprise_dry_run.py` | files the operator keeps between two runs | records to candidates, changes, findings, quarantine | sync |
| Enterprise security operation emulator, handoff `so/application/enterprise_security_operations.py` | none (pure) | scenarios against a policy table | - |
| Decision agents `so/agents/chair.py`, `multi_role.py`, `providers.py` | none | the decision a packet leads to, policy, action plan | packets, dossier |
| Packets, development twin `so/application/packets.py`, `development_twin.py` | none (pure) | state at a step, role selection | runtime, projections |
| Projections `so/application/workspace_projection_v2.py` | none (pure) | the case, its decision and outcome on one screen | API |
| Project operations `so/application/project_fixture_contracts.py`, `project_operations.py` | none (pure) | a project rewound to a step: situation, risks, timeline | API |
| Usability study, manifests, command line | files | validation and scoring | - |
| Frontend `frontend/src` | React queries, pending keys | commands with idempotency keys | API |

How they interact: the API and the workers share nothing but the database.
A run is a row; its status, lease and result change in transactions that lock
the row. The worker's main loop waits on an execution thread it cannot stop;
the thread writes attempts (unfenced) and checkpoints (fenced by the lease
owner's name) on its own connections.

What is hard here: transactions of API, workers and abandoned threads in any
order; lost leases and reclaims; crashes between claim, checkpoint and
completion; a deadline racing a late result; records decided on a row that was
read earlier; budgets shared by executions that overlap; idempotent commands in
more than one transaction; release of hidden state step by step. The hazards
are listed, each at its line, in `PROJECT.json`.

What makes each component correct:
- queue: one owner at a time, stale threads fenced, accepted steps final and
  never repeated, the result made of the accepted steps, an event stream that
  tells the status, cancellation that wins, runs that settle;
- ledger: accepted outputs audited, no open row without a call, the attempt
  budget over all executions, results after cancellation discarded;
- orchestration: per-step retry limits, budgets, partial results from the roles
  that succeeded, a resumed execution equal to an uninterrupted one;
- commands: the same key never acts twice, another payload is refused;
- evaluation responses: the advice is revealed only after the initial response,
  versions never go back;
- sync: a resumed page run ends as an uninterrupted one, deletions are not lost;
- records that are rewound (cases and projects): the past reads as it was, and
  stays as it was whatever is learnt later; a person and an agent are told the
  same of a step;
- decisions: what the Chair proposes passes every later check of the decision, a
  violated guardrail stops the action, an outcome is shown with its own decision;
- mapping and dry run: the two judges of a record agree, a report that is ready
  proposes what the source says, a blocker is not lost between two runs.

## 2. Plan

In the order in which the modules were built, the most important behaviour first:

1. `RunLifecycle`, `ReviewRuns`: the queue and the workers, checked and proved
   (`ReviewRunsProofs`).
2. `AttemptLedger`: extends `ReviewRuns` with provider calls and their rows; its
   theorems follow those of the queue in `ReviewRunsProofs`.
3. `DossierRound`: what an execution thread does for a dossier run;
   `DossierProofs`.
4. `EnterpriseSync` over `Reconciliation`: pages, checkpoints, interruptions;
   `SyncProofs`.
5. `CaseCommands`, `CaseProofs`: decisions, outcome advances, evaluations and the
   evaluation response as commands in several transactions.
6. `EventChain`, `DevelopmentHistory`, `DecisionTwin`: the record of a case, what
   is read out of it, decided on it and shown of it; `EventChainProofs`,
   `TwinProofs`.
7. `ProjectSituation`: the same for projects, over the same `EventChain`;
   `ProjectProofs`.
8. `SourceRecords`, `SourceMapping`, `EnterpriseDryRun`: mapping and dry run over
   deliveries, composed with the reconciliation of `EnterpriseSync`;
   `DryRunProofs`.

Left, in the order of their importance:

1. `RunCommands`: enqueue, retry and cancel with their idempotency keys,
   composed with the life of a run.
2. What a call is asked: the feedback of repairs and revisions in `DossierRound`.

## 3. Modules

### RunLifecycle
The promise to the user of a run: `state`, `attempts`, `outcome` of each run and
the five things that can happen to it. An ended run is never worked on again;
cancellation is possible at any time, even of a completed run, because the code
asks nothing about the status (`so/application/review_runs.py:643`).

### ReviewRuns
The queue and the workers. One action per repository method (each is one
transaction that locks its row) and per step of a worker's main loop or thread:

| Action | Code |
|---|---|
| `Enqueue`, `Cancel` | `PostgresReviewRunRepository.enqueue`, `cancel` |
| `Claim` | `claim`: queued runs whose retry is due, running ones whose lease expired, below the attempt limit |
| `Launch` | the checkpoint reads and the submit in `execute_with_lease_heartbeat` |
| `Heartbeat` | one turn of the waiting loop: cancel check, then `heartbeat` |
| `Complete`, `Fail`, `Dismiss` | the three ways `process_one` ends |
| `SaveCheckpoint`, `SkipStep`, `Return`, `Raise` | what the execution thread does to the outside |
| `Crash`, `Restart`, `LeaseExpires`, `RetryComesDue` | the environment |

`thread[r][k]` is the thread of the k-th claim of run r. It is never stopped:
on cancellation, lost lease or deadline the main loop detaches it
(`attached = FALSE`) and goes on. An output is named by the claim that produced
it, because a provider does not answer twice the same. Time is left out: a lease
may expire whenever it is held. `Fail` keeps the retryable branch although the
runtime wraps transport errors, so `process_one` reaches it only for errors of
the database layer or of a role-less path; the model allows it at any time.
A role that fails (`SkipStep`) may be any checkpointed step, and any of them makes
a result partial in `Complete`, where the code looks at `failed_roles` only
(`review_runs.py:575`). `Launch` reads the checkpoints in one step, where
`execute_with_lease_heartbeat` reads them in four transactions and the number of
attempts in a fifth (`worker/main.py:108`): a read torn by a thread that still
writes is not in the model.

### AttemptLedger
Extends `ReviewRuns` with the provider calls of a thread (`call`) and the rows of
`agent_attempts` (`ledger`). `record_attempt` is two steps (read the run, write
the row) because it takes no lock: `OpenRead`/`OpenWrite` for the start of a
call, `CloseRead`/`CloseWrite` for its end; `LedgerClaim` closes open rows as
`claim` does. `LedgerEscape` is the error that the loops of the Challenger and
the Chair do not catch, after which the row stays open. Every step is a step of
`ReviewRuns` or leaves its variables alone.

### DossierRound
One dossier run over its executions. `now` is what the current execution has,
`saved` what the checkpoints have, `rows` the number of attempt rows; an
execution starts (`Execute`) from `saved` and `rows`, as
`execute_with_lease_heartbeat` loads them. `Due` is the order in which
`run_dossier_round` comes to its steps: the roles, the Challenger, the revisions
of the first two objected roles, the Chair. `Accept`, `Retry`, `GiveUp` and
`Abort` are the ends of one provider call, with the counters of the retry loops
in `step`; `CheckBudget` is `_enforce_runtime_budget`, a step of its own because
a worker can be lost between the checkpoint and the check. `Return` builds the
dossier. An output is reduced to what the orchestration reads of it: the
recommendation of a role, the targets of objections, the acknowledged dissent,
and the cost.

### EnterpriseSync
One call of `reconcile_enterprise_pages` after the other over a fixed export in
pages. `work` is the call's copy of the checkpoint, `checkpoint` the last one a
page committed; `ReconcileRecord` is the turn of the loop, `CommitPage` the end of
a page, `Return` the pause or the end of a call, `ReadFails` the retryable read
error of a page, `Interrupt` a process that stops. What one record does to the
state of its identity is `Reconciliation` (`_reconcile_record`, in the order of
its branches: repeated version, conflicting version, stale content, unchanged
content, removal, mapping), which the dry run uses too.

### CaseCommands
The commands on one case by requests in flight together. A request reads the
case (`Receive`), then what its command needs (`ReadDecision`, `ReadOutcome`),
looks its key up (`Lookup`) and writes (`Decide`, `Advance`, `Evaluate`,
`RecordInitial`, `Reveal`, `RecordFinal`), with other requests and imports of
the fixture (`Reimport`) between any two steps. Where the code does the lookup
and the write in one transaction the two are still two steps: at the default
isolation level another transaction may commit between them, until the row is
locked or the unique constraint speaks. A request that fails or whose process
dies has written nothing, so leaving it where it is covers that. A client names
a version it was shown, so `match` is at most the version at the time it asks.
A decision is named by the dossier run it finalises; the fingerprint of each
command is made of what the code hashes, so that an advance and a reveal have
the decision that was read in them, and a decision and an evaluation the version.

### EventChain, DevelopmentHistory
A case and a project keep the current state of their entities and the events that
led to it. `EventChain` is what both do with them: the validators (each change
starts where the one before it ended, the last one ends in the current state) and
the rewinding of `reconstruct_case_at_step`. `DevelopmentHistory` is a case:
`Learn` is the next version of its file with one more event, of any step so far
and learnt late, as far as the validators accept it; `Packet` is what the agents are given
(`packets.py`), `Timeline` what a person is shown (`development_twin.py`), and
`Propagation` the work behind a blocker, which both compute.

### DecisionTwin
From the packet to the screen. `Review` is a dossier run that ends with one of
`Executions`; `Decide` makes the decision (of the Chair for B3,
`ChairDecision` for the simulated Chair, `CoreDecision` for
`deterministic_core_decision`), held to `PolicyOK`; `Advance` writes the outcome
the rule of the hidden path gives, with `_apply_guardrails`; `Evaluate` runs the
checks of `evaluate_case`; `Workspace(s)` is `build_workspace_projection_v2` of
the latest review, decision, outcome and evaluation at a step. A command is one
step here: its transactions are in `CaseCommands`. Left out are the refusal of a
step before the earliest available one (`workspace_projection_v2.py:196`), so that
the model shows steps the code does not, and two checks of the evaluation that are
about the texts of the reviews, `role_differentiation` and
`unresolved_uncertainty_visible` (`evaluation.py:217`).

### ProjectSituation
A project rewound with the same `EventChain`, with what a case does not have:
objects that exist from a step on (issues, risks, evidence, actions, lessons of
other projects). A step adds one event, one object or one step of time, if the
validators of `project_fixture_contracts.py` accept the result. `Situation`,
`Timeline`, `RiskDetail` and `ListItem` are the read models of
`project_operations.py`, computed from `History(s)`, the project rewound to step s.
Three things in them are read from the present instead, as in the code: the planned
dates and the current step in the rank of a risk (`RiskKey`), the actions that ask
for missing evidence (`MissingEvidence`), and the evidence that has a source now
(`received` of `History`). `PastSituationIsClosed` says of each what it follows:
`Dates`, `Acts`, `Received`. The current step and the version that the responses
repeat are left out. A risk names the cases and actions that treat it as they come
to the record (`Treatment`).

### SourceRecords, SourceMapping, EnterpriseDryRun
`MapSourceRecords` judges a sequence of records in turn, as `map_source_records`
does. In `EnterpriseDryRun` the source delivers records (`Deliver`), the operator
runs the dry run over all of them (`DryRun`), and a reviewer writes resolutions
for what the last report put aside (`Propose`), which name its findings
by their hash and so may be out of date at the next run. A report joins the
reconciliation (`Sync`), the mapping of a dirty corpus, the probes and the
snapshot of the canonical objects into changes, findings and a status.

### Instances and proofs
`MCReviewRuns`, `MCAttemptLedger`, `MCDossierRound`, `MCEnterpriseSync`,
`MCCaseCommands`, `MCDecisionTwin`, `MCProjectSituation` and `MCEnterpriseDryRun`
hold the instances and symmetry sets for TLC.
`ReviewRunsProofs` (of the queue and of the ledger that extends it),
`DossierProofs`, `SyncProofs`, `DryRunProofs`, `CaseProofs`, `EventChainProofs`,
`TwinProofs` and `ProjectProofs` (which both extend `EventChainProofs`) hold the
theorems, see section 5.

## 4. Runs

| Run | Instance | Shows |
|---|---|---|
| `ReviewRunsSafety` | 1 run, 2 workers, 3 steps of which 2 are checkpointed, 2 attempts, 1 crash, fairness | types, fencing, checkpoint reuse, result integrity, event log, cancellation, finality, refinement of `RunLifecycle`; queued runs are taken, claimed runs settle unless the last attempt lost its worker |
| `AttemptLedgerSafety` | 1 run, 2 workers, 1 step, 2 calls | accepted outputs are audited, open rows have a call |
| `DossierRoundSafety` | B3, 2 roles, 2 executions, 7 calls, costs 0 and 1, 2 objections of which 1 is revised | shared budget, limits of revisions, complete checkpoints, what a result accounts for, dissent, cost |
| `DossierRoundResumedChair` | the same without objections or costs, 12 calls | **violated**: a resumed Chair has not seen the dissent of its dossier |
| `EnterpriseSyncSafety` | 3 records in pages of 2 and 1: 2 identities, 3 versions, 2 hashes, 2 times; 2 calls | resumed as uninterrupted, revisions, newest content |
| `EnterpriseSyncRemoval` | the same, 1 call | **violated**: a deletion that keeps the content hash is not applied |
| `CaseCommandsSafety` | 2 clients, 14 commands, 2 decisions, 3 versions, 3 steps | case and events, recorded answers, one row per key, order of the evaluation response |
| `CaseCommandsRetry` | the same | **violated**: a recorded response is refused to its retry |
| `DecisionTwinSafety` | 2 tracks, 2 work items, 2 milestones, 2 events, 3 steps, 2 options, 2 Chair results | the past is faithful and closed, agent and person are told the same, the Chair passes its checks, violations stop the action |
| `DecisionTwinStale` | the same | **violated**: an outcome is shown with a later decision |
| `ProjectSituationSafety` | 1 work item, 2 milestones, 2 evidences, issue, 2 risks, action, case, lesson, 2 events, 2 steps | past situations are closed but for what they read from the present, risks are shown with their sources but for two kinds that may come later |
| `EnterpriseDryRunSafety` | 3 records of an issue (3 versions), a page and a note, 1 resolution | where hashes name the content mapping and reconciliation agree and ready reports propose what the source says; blockers stay |

Bounds. Two attempts are the code's own limit (`max_attempts=2`). Two workers
are enough for a stale and a current owner; with two attempts a third worker can
only poll. Two checkpointed steps and one that is not distinguish reused,
repeated and final outputs. `MaxCrashes = 1` allows a crash in either attempt;
the second worker remains. `MaxCalls` is 12 in the code for a run of up to five
roles; 2 calls of one step, and 7 calls of two roles, Challenger, revision and
Chair, let a budget run out within a step, between steps and across executions.
One revision of two objected roles shows the limit of revisions. Three records
are the fewest for which a version is repeated after another one was applied; the
page boundary lies between any two of them by the choice of records. Two clients
are enough for a command to overtake another between two of its steps, and
three versions for an outdated, a current and a later one; the commands reuse
keys with another content and for another kind. Heartbeat and repeated cancel
events are logged once in a row, because the code sets no limit on them.
Two events are the fewest of which one can be learnt after the other and be put
before it; with two tracks of which one waits for the other a blocker has something
to reach. The two guardrails of the recorded Chair are due at different steps and
one of them is violated by the metrics of the path. A project's objects cover what
its validators relate: a risk that rests on an issue, an event and a lesson, and one
that rests on evidence asked for after it was there and is the target of the lesson,
so that both kinds of source that may be missing occur; a milestone that slips, an
action on the second risk and evidence that is received change all three things that
an earlier step reads from the present. Two steps are an earlier and the present one.
In the dry run three deliveries are enough for a version
that is repeated after another, a late record and a removal, one of them under the hash the record had before;
the page and the note are the records whose mapping has no key, no value or no profile.
`CHECK_DEADLOCK FALSE` is said where the system ends: a dossier run after its
last execution, an export after its last page, a case or project at its last step
with all its events, a source that has delivered its records.

Fairness. Main loops poll for ever (`worker/main.py:169`), `process_one` has a
deadline and so always ends its wait, a provider call has a timeout, an
unrenewed lease expires: hence weak fairness of those steps. Nothing restarts a
worker process, so `FairSpec` has no fairness for `Restart`. Crashes,
cancellations and enqueues are never forced. `ReviewRunsSafety` is checked under
`FairSpec`; its safety properties do not depend on the fairness. The other
modules state no liveness: their steps are commands of users and of operators,
which nothing makes happen.

## 5. Proofs

For every set of runs, workers and steps, from `ConstantsOK` only
(`ReviewRunsProofs`):

- `TypeCorrect`: `TypeOK` is inductive by itself; `TypeStep`
  has one step per action, with lemmas for what a thread record may be replaced by.
- `LateThreadsAreFenced`: a thread that is not the one of the
  current claim writes nothing. Alone it is not inductive: the lease names only
  the worker, so what counts is that a worker whose loop waits for one thread
  has no other attached one. `Control` is `ThreadsKnown` (which threads exist),
  `LoopsWait` (for which thread a main loop waits) and `Fenced`. The assumption
  `MaxAttempts <= 2`, which is the code's value, is needed: with a third attempt
  a process could claim a run again for which it still has a detached thread,
  and the owner's name in the lease would let that thread write.
- `MainLoopsWaitOnce`: a busy main loop waits on exactly one thread and any other
  on none, for every attempt limit. `Watching` names the claim of that one thread
  (`Once`) and adds that a thread somebody waits on is that of a claim that was made.
- `CancellationHolds`: a cancelled run stays cancelled, from
  `CancelledStays` (a cancellation request and the status go together).
- `CheckpointsAreReused`, `ResultsAreAcceptedSteps`: from
  `Integrity`, which is `HoldsAccepted` (what a thread holds for a step whose
  output was accepted is that output), `AcceptedAtTheEnd` (what it holds when it
  returns) and `ResultStands` (the result of a completed run).
- `EventLogHolds`: the last event that is about the status tells the status, and
  the claims in the log are the attempts. It is inductive with the types; the lemmas
  (`TellsAppended`) say what appending one event does to both readings of a log.
- `QueueImplementsLifecycle`, `FirstAcceptedOutputStays`:
  initial states map to initial states and every step of `ReviewRuns` to a step
  or a stutter of `RunLifecycle`; an accepted output is never replaced.

For every set of runs, workers, steps and every budget, with `MaxAttempts <= 2`
(`ReviewRunsProofs`, the last part):

- `LedgerImplementsQueue`: every step of `AttemptLedger` is a step of `ReviewRuns`
  or leaves its variables alone. So the theorems above hold with provider calls.
- `OutputsAreAudited`, `RowsAreClosed`, `LedgerTypeCorrect`: from `LedgerInv`,
  which is for each claim `CallShape` (a call belongs to a thread at work),
  `RowsInOrder` (rows of calls to come are empty), `AnswerAudited`, `HeldAudited`
  and `OpenRowsAreCalled`. The rows are written without a lock; the argument is
  `LostStaysLost`: a run that a thread does not own when its answer is recorded is
  never owned by that thread again, so an output whose row was discarded cannot be
  saved. That needs the fencing invariant `Control`.

For every set of roles, objections, costs and budgets, from the assumptions of
`DossierRound` only (`DossierProofs`): `DossierTypeCorrect`, `BudgetIsShared`,
`CheckpointsComplete`, `FewRolesAreRevised`, `ResultIsAccounted`,
`DissentIsAcknowledged` and `CallsAreCovered`. The executions of `DossierRound`
follow one another; `BudgetIsShared` says nothing of executions that overlap, which
exceed the budget (section 6). `ResultIsAccounted` is about which steps a returned
result has, not about what they say. The first two are
inductive together (`Typed`). For complete checkpoints the invariant `Held` adds
that the one result not yet compared with its checkpoint is the one just saved;
for the limit of revisions `RevisionsNamed` says that what was revised by any
execution is among what the saved Challenger's output names; for the result
`Accounted` says that a failed step holds nothing and that only B3 has a
Challenger and a Chair; for the dissent `Acknowledged` says that once the Chair of
a first execution has spoken no step is due and all dissent is in its output. That
a dossier with nothing due has no open role (`NothingDue`) takes the least of the
open roles, which exists because the natural numbers
are well founded (`LeastNumber`).

For every export and paging, from `SyncConstantsOK` only (`SyncProofs`):
`SyncTypeCorrect`, `RevisionsHold` (`mapping_revision` counts the applied records)
and `NewestHold` (old content never replaces newer). The inductive invariant
`SyncInv` says the same of the call's copy and of the checkpoint, and that both
stand at places of the export in their order, because a resumed call goes on
from the latter.
`ResumptionHolds` adds that a checkpoint is the fold of the reconciliation over the
prefix of the export it has passed (`Resumed`). A fold is a recursive function on
the set of places; its lemmas (`FoldOfPrefix` and those before it) show, by a least
counterexample, that one more record is one more turn of the loop.

For every source, registry of profiles, corpus, set of probes and snapshot
(`DryRunProofs`), from `RecordsOK` (what a record is). `JudgesHold` and
`ProposalsHold` are about the identities for which `HashesNameContent` is true of the
export, a condition in the two properties: the records of the identity that have one
hash have one content, a removal included. The code does not see to it (the hash
comes with the record, `enterprise_ingestion.py:47`), and without it `ProposalsHold`
is false: a removal that keeps the hash, as in `EnterpriseSyncRemoval`, is not
proposed by a report that is ready. The run has such a record.

- `BlockersHold`: the lasting reasons of a report are `Reasons` of the export, the
  probes and the corpus, and these only grow with the export, because the answer of
  either loop to a record depends on the records before it (`AnswersInTurn`).
- `JudgesHold`: the two loops go over the same records with different tables.
  `Matched` says how the tables correspond for an identity that is in order and
  whose first record is applied: both know the same versions with the same hashes,
  and the record that the mapping compares with has the hash and the latest time of
  the state. `FirstRecord` establishes it, `LaterRecord` keeps it, branch by branch,
  and gives the agreement on each record with it.
- `ProposalsHold`: in an export of which nothing was put aside (`Clean`, which a
  ready report implies) the state of an identity has the content of its last new
  version, and so has the last record that was applied to it (`Follows`).
  What has no profile is never applied (`UnprofiledStaysOut`). The rest is what the
  changes of a report are for one identity (`ProposedFor`).

For every set of requests, keys, commands and dossiers, from `CaseConstantsOK`
only (`CaseProofs`): all seven properties of `CaseCommands`. What makes them
inductive is `ReadsHold`: a request acts on what it read some steps ago, and that
stays true because the tables only grow (`TablesGrow`, lemma `ReadsKept`): a
decision that was found remains recorded, a step of the case that was reached
stays among its events, a row found under a key stays there. The content a
request read may be old, but only together with an old version, which `Advance`
refuses under the lock. `CaseInv` adds this to the properties themselves.

For every log of events (`EventChainProofs`): `RewindingIsReplaying` and
`PastStatesStay`. What the validators check of a log, that each event starts from
the state the one before it left (`Continuous`) and that the last one leads to the
state of today (`LeadsTo`), is enough for both. The latest and the earliest event of
a set exist because a log is finite and its events are ordered (`HasEnds`), which
every step keeps.

For every case, policy, review and log, from `TwinConstantsOK` and what it extends
(`TwinProofs`), with the inductive invariant `HistoryInv`: the log is one the
validators accept and ends in the states of the case.

- `HindsightHolds`: every earlier state is that of the events up to it.
- `TimelineCovers`: the packet and the timeline find what waits for a blocked item
  in the same rewound state; what the packet counts as reaching a track or the
  deadline the timeline counts too.
- `PastHolds`: packet and timeline from `PastStatesStay`; the workspace of a past
  step shows neither decision nor outcome nor what they changed.
- `ChairHolds`: by the kind of decision the Chair takes, one case each. The check of
  the evaluation on the type of the action is excepted past the deadline, where a
  `DEFER_UNTIL_TRIGGER` fails it (section 6).
- `ViolationsHold`: two loops lead from a violated guardrail to the screen, the one
  over the guardrails and the one over the expected changes. The first keeps what
  the guardrails so far ask for (`StatusOfViolations`), the second that every change
  of the action ends in its last state (`ChangesEndInLast`). `DecidedInv` says that
  an outcome is that of a decision with such guardrails.

`PastHolds` and `ChairHolds` assume that `None` is not the value of an outcome,
`OutcomeOf(d, from, target) # None`: an outcome is a record and `None` a model
value, but the provers know nothing of a model value. For the same reason the
constants' assumptions say that `None` is not an option or a status.

For every project the validators accept (`ProjectProofs`): `ProjectHolds`,
`RisksShow` and `PastSituationHolds`, from `ProjectInv`, which is the same for a
project as `HistoryInv` for a case, with the dates of its objects.

- `RisksShow`: what a risk was identified from is known when the risk is
  (`SourcesAreKnown`), by the dates that the validators compare. They leave two kinds
  of source out, a lesson that does not name the risk as its target and evidence that
  was asked for after it was there: the theorem says that a source that is missing
  from the detail is one of these and comes after the step, not that none is missing.
- `PastSituationHolds`: the rewound states, events and objects of an earlier step
  stay (`HistoryOfThePastStays`), and so does all that the read models compute from
  them alone (`ScreensOfThePastStay`). Ranks, missing evidence and sources of evidence
  are computed from the present too and do change; `RanksFollowTheDates`,
  `MissingFollowsTheActs` and `SourcesFollowWhatIsReceived` say with what.

Only model-checked is liveness (`QueuedRunsAreTaken`, `ClaimedRunsSettleOrStrand`):
fairness and ENABLED are out of reach of the prover. Every other property of a
passing run is stated by a theorem.

## 6. Findings

Shown by a run:

- A checkpoint of the Chair is reused with roles that failed before the crash and
  succeed after it, so that the result carries dissent its Chair never
  acknowledged (`DossierRoundResumedChair`).
- A deletion or restriction in a new version with the same content hash counts
  as no change (`EnterpriseSyncRemoval`).
- In PostgreSQL a command of the evaluation response that is repeated after the
  case has moved is refused, although it was recorded (`CaseCommandsRetry`).
- After a second decision the workspace shows the outcome of the first with it
  (`DecisionTwinStale`).

Seen while reading, without a run.

Queue, ledger, runtime:

- A run whose second attempt loses its worker is RUNNING for ever: `claim`
  requires `attempt_no < max_attempts` and nothing else settles the row
  (`so/application/review_runs.py:520`). `ClaimedRunsSettleOrStrand` has it as an
  exception.
- Attempts of overlapping executions are not counted together
  (`so/worker/main.py:126`).
- A result may be recorded as accepted after the cancellation, because the run
  is read without a lock (`so/application/review_runs.py:728`).
- The loop over provider attempts does not look at a cancellation; calls go on
  until a checkpoint is refused (`so/agents/runtime.py:372`, against
  `docs/readiness/05_AGENT_RUNTIME_AND_SECURITY_POLICY.md:154`).
- Revisions may use the attempt that the same document (line 65) reserves for
  the Chair (`so/application/multi_role.py:243`).
- The cost of refused answers is not counted, and the cost is compared with its
  limit only after a call (`multi_role.py:371`).
- An unexpected error of the Challenger or the Chair leaves its attempt row
  running (`runtime.py:269`).

Decisions, evaluations, projections:

- An evaluation runs the case of the fixture and not the recorded decision
  (`so/infrastructure/evaluation_repository.py:52`).
- A decision that finalises a B3 run takes the Chair's decision of the time of the
  review, without comparing the step of its packet; `DEFER_UNTIL_TRIGGER` past the
  deadline fails the evaluation's own check.
- A guardrail without a measurement sets the status "monitoring" over one that was
  triggered before it in the list (`so/application/outcomes.py:188`), and the
  workspace then says that none was triggered (`workspace_projection_v2.py:739`).
- Three fields of an earlier step of a project change with what is added later,
  although a historical query is to expose nothing of the future
  (`docs/decisions/ADR-0010-project-operations-and-risk-provenance.md:165`): the
  evidence a risk is missing takes in actions that were not created yet
  (`project_operations.py:591`), its rank uses the present milestones and the current
  step (`project_operations.py:560`), and an evidence shows its source only while it
  is received now (`project_operations.py:795`). `PastSituationIsClosed` bounds all
  three; asked to stay as they were, each has a counterexample in the instance of
  `ProjectSituationSafety`.
- A risk may rest on a lesson that does not name it as its target and comes later:
  its membership is all that is checked (`project_fixture_contracts.py:471`), the
  dates only along `target_risk_ids` (line 516), against the message "risk cannot
  precede its cross-project source" (line 520). At the steps before the lesson the
  summary names it (`project_operations.py:599`) and the detail leaves it out
  (`project_operations.py:471`), where the plan asks that the lineage of propagation
  between projects is not broken (`internal_docs`, OPS-A plan, line 224). The same
  happens with evidence that was available before it was asked for: the dates compare
  `available_at_step` (line 482), the history looks at the request.
  `RisksShowTheirSources` has both as its exceptions, and both occur in its instance.

Enterprise:

- A completed sync checkpoint refuses an export to which pages were appended
  (`so/application/enterprise_sync.py:228`).
- The version of a record that was refused before its identity had a state is
  forgotten, so that the version with another hash is applied later
  (`enterprise_sync.py:399`).
- A candidate without a value ends the whole dry run with an error
  (`enterprise_mapping.py:189`; the report is `REFUSED` in the model).
- A probe that the mapping quarantines, and an exported record that no profile is
  for, give no finding: the report may be ready.
- The check of the order of ingestion compares with the last record that was
  accepted, not with the last one that was delivered (`enterprise_mapping.py:333`).

## 7. Not modelled

`PROJECT.json` lists every component with its status. Not modelled at all:

- the security operation emulator and the handoff: each call holds a list of
  scenarios against a policy table and keeps nothing;
- the usability study: offline validation and scoring of files, sums and form
  checks without a state that a step changes;
- the frontend: a client whose keys and repeated requests are the clients of
  `CaseCommands`.

In the components that are modelled in part: the in-memory repositories are test
doubles; loading of fixtures and rows, the command line but for the dry run, and
calls into external model services have no behaviour of their own; the selection of
roles for a packet, the comparison of live runs, the older projections and the
lists are read-only and left out. Texts of reviews, rationales and risks, token
counts (treated by the code as the cost is), severities, provenance and telemetry
are left out everywhere. The idempotency keys of the run commands are in the plan.
