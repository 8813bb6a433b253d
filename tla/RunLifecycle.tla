--------------------------- MODULE RunLifecycle ---------------------------
(***************************************************************************)
(* What the durable queue promises to the users of a run, whatever workers *)
(* do: the life of one agent_runs row as the API shows it                  *)
(* (domain/models.py AgentRunStatus, api/main.py /runs/{run_id}).          *)
(*                                                                         *)
(*   - a run is worked on at most MaxAttempts times;                       *)
(*   - it gets a result at most once, while it is worked on, and ends with *)
(*     it;                                                                 *)
(*   - an ended run is never worked on again, and can only be cancelled.   *)
(*                                                                         *)
(* Leases, workers, threads, checkpoints and events are not visible here;  *)
(* ReviewRuns implements this specification.                               *)
(***************************************************************************)
EXTENDS Naturals

CONSTANTS
  Run,
  MaxAttempts,
  Outcome,        \* the results a run may have
  NoOutcome

VARIABLES
  state,          \* the status the API shows
  attempts,       \* how often the run was taken up
  outcome         \* the stored result

lifecycleVars == <<state, attempts, outcome>>

Ended == {"PARTIALLY_COMPLETED", "COMPLETED", "FAILED", "CANCELLED"}

LifecycleInit ==
  /\ state = [r \in Run |-> "ABSENT"]
  /\ attempts = [r \in Run |-> 0]
  /\ outcome = [r \in Run |-> NoOutcome]

Submit(r) ==
  /\ state[r] = "ABSENT"
  /\ state' = [state EXCEPT ![r] = "QUEUED"]
  /\ UNCHANGED <<attempts, outcome>>

\* Taken up for the first time, again after a failure, or over from a worker
\* that was lost.
TakeUp(r) ==
  /\ state[r] \in {"QUEUED", "RUNNING"}
  /\ attempts[r] < MaxAttempts
  /\ state' = [state EXCEPT ![r] = "RUNNING"]
  /\ attempts' = [attempts EXCEPT ![r] = @ + 1]
  /\ UNCHANGED outcome

Deliver(r, o) ==
  /\ state[r] = "RUNNING"
  /\ outcome[r] = NoOutcome
  /\ \E end \in {"PARTIALLY_COMPLETED", "COMPLETED"} :
       state' = [state EXCEPT ![r] = end]
  /\ outcome' = [outcome EXCEPT ![r] = o]
  /\ UNCHANGED attempts

GiveUp(r) ==
  /\ state[r] = "RUNNING"
  /\ \/ state' = [state EXCEPT ![r] = "FAILED"]
     \/ attempts[r] < MaxAttempts /\ state' = [state EXCEPT ![r] = "QUEUED"]
  /\ UNCHANGED <<attempts, outcome>>

Withdraw(r) ==
  /\ state[r] # "ABSENT"
  /\ state' = [state EXCEPT ![r] = "CANCELLED"]
  /\ UNCHANGED <<attempts, outcome>>

LifecycleNext ==
  \E r \in Run :
    \/ Submit(r)
    \/ TakeUp(r)
    \/ \E o \in Outcome : Deliver(r, o)
    \/ GiveUp(r)
    \/ Withdraw(r)

LifecycleSpec == LifecycleInit /\ [][LifecycleNext]_lifecycleVars
=============================================================================
