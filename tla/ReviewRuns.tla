---------------------------- MODULE ReviewRuns ----------------------------
(***************************************************************************)
(* The durable queue of agent runs and the workers that drain it:          *)
(*   backend/src/soc_ot/application/review_runs.py                         *)
(*       (PostgresReviewRunRepository)                                     *)
(*   backend/src/soc_ot/worker/main.py                                     *)
(*       (process_one, execute_with_lease_heartbeat).                      *)
(*                                                                         *)
(* Every repository method is one database transaction that locks the row  *)
(* of its run (SELECT ... FOR UPDATE), so it is one action here.  A worker *)
(* process has a main loop and starts one thread per claim.  The thread is *)
(* never killed: when the main loop gives up on it (cancellation, lost     *)
(* lease, deadline) the thread is detached and keeps running, and the main *)
(* loop may claim another run.  The claim of a run is named by its attempt *)
(* number, thread[r][k] is the thread of the k-th claim of r, and an       *)
(* output of a logical step is named by the claim whose thread produced    *)
(* it: what a provider answers differs from one call to the next.          *)
(*                                                                         *)
(* Time is abstracted: a lease may expire whenever it is held, because the *)
(* process that must renew it may be stopped for any time.                 *)
(***************************************************************************)
EXTENDS Naturals, Sequences, FiniteSets

CONSTANTS
  Run,            \* run_id of the runs that may be enqueued
  Worker,         \* worker_id (host:pid) of the worker processes
  NoWorker,       \* lease_owner IS NULL
  Step,           \* logical steps (step_kind, role_id, review_round) of a run
  Checkpointed,   \* the steps saved as soon as their output is accepted
  MaxAttempts,    \* max_attempts of every run (2 in the code)
  MaxCrashes      \* bound: crashes of worker processes in a behaviour

ASSUME ConstantsOK ==
  /\ NoWorker \notin Worker
  /\ Checkpointed \subseteq Step
  /\ MaxAttempts \in Nat \ {0}
  /\ MaxCrashes \in Nat

VARIABLES
  status,           \* agent_runs.status, "ABSENT" before the row exists
  attemptNo,        \* agent_runs.attempt_no
  leaseOwner,       \* agent_runs.lease_owner
  leaseLive,        \* agent_runs.lease_expires_at > now
  retryDue,         \* agent_runs.next_retry_at IS NULL or <= now
  cancelRequested,  \* agent_runs.cancel_requested
  result,           \* agent_runs.result: the output held for each step
  accepted,         \* agent_run_steps: the output accepted for each step
  events,           \* agent_run_events of the run, in sequence order
  mode,             \* what the main loop of a worker process is doing
  thread,           \* the execution thread of each claim
  crashes           \* crashes so far

rowVars == <<status, attemptNo, leaseOwner, leaseLive, retryDue,
             cancelRequested, result, accepted, events>>
processVars == <<mode, thread, crashes>>
vars == <<rowVars, processVars>>

-----------------------------------------------------------------------------
Attempt == 1..MaxAttempts

Output == 0..MaxAttempts       \* 0: no output
NoOutput == [s \in Step |-> 0]

Terminal == {"PARTIALLY_COMPLETED", "COMPLETED", "FAILED", "CANCELLED"}
Status == {"ABSENT", "QUEUED", "RUNNING"} \cup Terminal

Event == {"run.queued", "run.claimed", "run.heartbeat", "run.retry_queued",
          "run.partially_completed", "run.completed", "run.failed",
          "run.cancel_requested"}

\* "claimed": the claim is committed, the thread not yet submitted;
\* "returned", "error", "transient", "fenced": the future holds a result, an
\* error that is not retried, one that is, or a RunConflictError.
ThreadPc == {"none", "claimed", "running", "returned", "error", "transient",
             "fenced"}

Thread == [worker: Worker \cup {NoWorker},
           attached: BOOLEAN,          \* the main loop waits on this future
           pc: ThreadPc,
           held: [Step -> Output],     \* outputs loaded or produced
           skipped: SUBSET Step]       \* roles that failed

NoThread == [worker |-> NoWorker, attached |-> FALSE, pc |-> "none",
             held |-> NoOutput, skipped |-> {}]

TypeOK ==
  /\ status \in [Run -> Status]
  /\ attemptNo \in [Run -> Output]
  /\ leaseOwner \in [Run -> Worker \cup {NoWorker}]
  /\ leaseLive \in [Run -> BOOLEAN]
  /\ retryDue \in [Run -> BOOLEAN]
  /\ cancelRequested \in [Run -> BOOLEAN]
  /\ result \in [Run -> [Step -> Output]]
  /\ accepted \in [Run -> [Step -> Output]]
  /\ events \in [Run -> Seq(Event)]
  /\ mode \in [Worker -> {"polling", "busy", "exited"}]
  /\ thread \in [Run -> [Attempt -> Thread]]
  /\ crashes \in 0..MaxCrashes

Init ==
  /\ status = [r \in Run |-> "ABSENT"]
  /\ attemptNo = [r \in Run |-> 0]
  /\ leaseOwner = [r \in Run |-> NoWorker]
  /\ leaseLive = [r \in Run |-> FALSE]
  /\ retryDue = [r \in Run |-> TRUE]
  /\ cancelRequested = [r \in Run |-> FALSE]
  /\ result = [r \in Run |-> NoOutput]
  /\ accepted = [r \in Run |-> NoOutput]
  /\ events = [r \in Run |-> << >>]
  /\ mode = [w \in Worker |-> "polling"]
  /\ thread = [r \in Run |-> [k \in Attempt |-> NoThread]]
  /\ crashes = 0

-----------------------------------------------------------------------------
\* Helpers of the repository

\* Mutant of Log: an event equal to the last one is taken for a repetition.
LogWithoutRepetition(r, e) ==
  events' = IF events[r] # << >> /\ events[r][Len(events[r])] = e
            THEN events
            ELSE [events EXCEPT ![r] = Append(@, e)]

\* An event row is appended in the transaction that changes the run.  The
\* log is kept modulo repetition of the two events a run can be sent any
\* number of times.
Log(r, e) ==
  events' = IF /\ e \in {"run.heartbeat", "run.cancel_requested"}
               /\ events[r] # << >>
               /\ events[r][Len(events[r])] = e
            THEN events
            ELSE [events EXCEPT ![r] = Append(@, e)]

\* Mutant of Owned: the lease owner is not compared.
OwnedByAnyWorker(r, w) == status[r] = "RUNNING" /\ w \in Worker

\* _locked_owned: the caller still owns the lease.  The expiry is not looked
\* at: an expired lease that nobody reclaimed is still owned.
Owned(r, w) == status[r] = "RUNNING" /\ leaseOwner[r] = w

ReleaseLease(r) ==
  /\ leaseOwner' = [leaseOwner EXCEPT ![r] = NoWorker]
  /\ leaseLive' = [leaseLive EXCEPT ![r] = FALSE]

\* The thread of claim k of r has ended: the main loop finds the outcome in
\* the future if it still waits, otherwise nobody ever looks at it.
EndThread(r, k, outcome) ==
  thread' = [thread EXCEPT ![r][k] =
               IF @.attached THEN [@ EXCEPT !.pc = outcome] ELSE NoThread]

\* Mutant of Abandon: the main loop goes on without letting go of the thread.
AbandonNothing(r, k) == UNCHANGED thread

\* The main loop no longer waits on the thread, which ends or runs on.
Abandon(r, k) ==
  thread' = [thread EXCEPT ![r][k] =
               IF @.pc = "running" THEN [@ EXCEPT !.attached = FALSE]
                                   ELSE NoThread]

BackTo(r, k, m) == mode' = [mode EXCEPT ![thread[r][k].worker] = m]

-----------------------------------------------------------------------------
\* Commands of the API

\* enqueue with a new idempotency key (RunCommands has the keys).
Enqueue(r) ==
  /\ status[r] = "ABSENT"
  /\ status' = [status EXCEPT ![r] = "QUEUED"]
  /\ Log(r, "run.queued")
  /\ UNCHANGED <<attemptNo, leaseOwner, leaseLive, retryDue, cancelRequested,
                 result, accepted, processVars>>

\* Mutant of Cancel: the request is noted and left to the worker.
CancelCooperatively(r) ==
  /\ status[r] # "ABSENT"
  /\ cancelRequested' = [cancelRequested EXCEPT ![r] = TRUE]
  /\ Log(r, "run.cancel_requested")
  /\ UNCHANGED <<status, attemptNo, leaseOwner, leaseLive, retryDue, result,
                 accepted, processVars>>

\* cancel asks nothing about the status the run has.
Cancel(r) ==
  /\ status[r] # "ABSENT"
  /\ status' = [status EXCEPT ![r] = "CANCELLED"]
  /\ cancelRequested' = [cancelRequested EXCEPT ![r] = TRUE]
  /\ ReleaseLease(r)
  /\ Log(r, "run.cancel_requested")
  /\ UNCHANGED <<attemptNo, retryDue, result, accepted, processVars>>

-----------------------------------------------------------------------------
\* The main loop of a worker

\* Mutants of Claimable: attempts are not limited; the last attempt is never
\* made; a run whose lease expired is not taken over.
ClaimableWithoutLimit(r) ==
  /\ ~cancelRequested[r]
  /\ retryDue[r]
  /\ \/ status[r] = "QUEUED"
     \/ status[r] = "RUNNING" /\ ~leaseLive[r]

ClaimableBeforeLastAttempt(r) ==
  ClaimableWithoutLimit(r) /\ attemptNo[r] + 1 < MaxAttempts

ClaimableWhenQueued(r) ==
  ClaimableWithoutLimit(r) /\ attemptNo[r] < MaxAttempts /\ status[r] = "QUEUED"

Claimable(r) ==
  /\ ~cancelRequested[r]
  /\ attemptNo[r] < MaxAttempts
  /\ retryDue[r]
  /\ \/ status[r] = "QUEUED"
     \/ status[r] = "RUNNING" /\ ~leaseLive[r]

\* claim takes the oldest claimable run whose row is not locked (SKIP LOCKED):
\* as any row may be locked by another transaction, any of them.
Claim(w, r) ==
  LET k == attemptNo[r] + 1 IN
  /\ mode[w] = "polling"
  /\ Claimable(r)
  /\ status' = [status EXCEPT ![r] = "RUNNING"]
  /\ attemptNo' = [attemptNo EXCEPT ![r] = k]
  /\ leaseOwner' = [leaseOwner EXCEPT ![r] = w]
  /\ leaseLive' = [leaseLive EXCEPT ![r] = TRUE]
  /\ retryDue' = [retryDue EXCEPT ![r] = TRUE]
  /\ Log(r, "run.claimed")
  /\ mode' = [mode EXCEPT ![w] = "busy"]
  /\ thread' = [thread EXCEPT ![r][k] =
                  [NoThread EXCEPT !.worker = w, !.attached = TRUE,
                                   !.pc = "claimed"]]
  /\ UNCHANGED <<cancelRequested, result, accepted, crashes>>

\* Mutant of Launch: the checkpoints are not read.
LaunchAfresh(r, k) ==
  /\ thread[r][k].pc = "claimed"
  /\ thread' = [thread EXCEPT ![r][k].pc = "running"]
  /\ UNCHANGED <<rowVars, mode, crashes>>

\* The checkpoints are read after the claim, in transactions of their own;
\* then the thread is submitted.
Launch(r, k) ==
  /\ thread[r][k].pc = "claimed"
  /\ thread' = [thread EXCEPT ![r][k].pc = "running",
                              ![r][k].held = accepted[r]]
  /\ UNCHANGED <<rowVars, mode, crashes>>

RenewLease(r, w) ==
  /\ Owned(r, w)
  /\ leaseLive' = [leaseLive EXCEPT ![r] = TRUE]
  /\ Log(r, "run.heartbeat")

\* The result did not come within the heartbeat interval: the cancellation
\* flag is read and the lease renewed.  A cancellation between the two is
\* found by the second, which refuses a run that is not RUNNING.
Heartbeat(r, k) ==
  LET w == thread[r][k].worker IN
  /\ thread[r][k].attached
  /\ thread[r][k].pc = "running"
  /\ \/ /\ ~cancelRequested[r]
        /\ RenewLease(r, w)
        /\ UNCHANGED <<mode, thread>>
     \/ /\ cancelRequested[r] \/ ~Owned(r, w)
        /\ Abandon(r, k)
        /\ BackTo(r, k, "polling")
        /\ UNCHANGED <<leaseLive, events>>
  /\ UNCHANGED <<status, attemptNo, leaseOwner, retryDue, cancelRequested,
                 result, accepted, crashes>>

\* Mutant of Complete: the lease is not checked again.
CompleteUnfenced(r, k) ==
  LET t == thread[r][k] IN
  /\ t.attached
  /\ t.pc = "returned"
  /\ status' = [status EXCEPT ![r] =
                  IF t.skipped # {} THEN "PARTIALLY_COMPLETED" ELSE "COMPLETED"]
  /\ result' = [result EXCEPT ![r] = t.held]
  /\ accepted' = [accepted EXCEPT ![r] =
                    [s \in Step |-> IF t.held[s] # 0 THEN t.held[s] ELSE @[s]]]
  /\ ReleaseLease(r)
  /\ Log(r, "run.completed")
  /\ Abandon(r, k)
  /\ BackTo(r, k, "polling")
  /\ UNCHANGED <<attemptNo, retryDue, cancelRequested, crashes>>

\* complete stores the result, the steps and the status in one transaction,
\* or nothing: a lost lease or a step accepted with another output is a
\* RunConflictError, on which the main loop goes back to polling.
Complete(r, k) ==
  LET t == thread[r][k]
      accepts == /\ Owned(r, t.worker)
                 /\ ~cancelRequested[r]
                 /\ \A s \in Step : t.held[s] # 0 => accepted[r][s] \in {0, t.held[s]}
      final == IF t.skipped # {} THEN "PARTIALLY_COMPLETED" ELSE "COMPLETED"
  IN
  /\ t.attached
  /\ t.pc = "returned"
  /\ \/ /\ accepts
        /\ status' = [status EXCEPT ![r] = final]
        /\ result' = [result EXCEPT ![r] = t.held]
        /\ accepted' = [accepted EXCEPT ![r] =
                          [s \in Step |-> IF t.held[s] # 0 THEN t.held[s] ELSE @[s]]]
        /\ ReleaseLease(r)
        /\ Log(r, IF final = "COMPLETED" THEN "run.completed"
                                         ELSE "run.partially_completed")
     \/ /\ ~accepts
        /\ UNCHANGED <<status, result, accepted, leaseOwner, leaseLive, events>>
  /\ Abandon(r, k)
  /\ BackTo(r, k, "polling")
  /\ UNCHANGED <<attemptNo, retryDue, cancelRequested, crashes>>

\* Mutant of Failure: a thread that is past the deadline may be tried again.
FailureAtDeadline(r, k, retryable) ==
  thread[r][k].pc \in IF retryable THEN {"running", "transient"}
                      ELSE {"claimed", "returned", "error"}

\* The errors process_one hands to fail: the thread raised one; the deadline
\* passed or the database refused a query while it was still running; the
\* provider could not be built; the result costs more than the case may.
Failure(r, k, retryable) ==
  thread[r][k].pc \in IF retryable THEN {"transient"}
                      ELSE {"claimed", "running", "returned", "error"}

\* fail is called in the except branch: its own RunConflictError is not
\* caught, leaves process_one and ends the main loop.
Fail(r, k, retryable) ==
  LET requeue == retryable /\ attemptNo[r] < MaxAttempts IN
  /\ thread[r][k].attached
  /\ Failure(r, k, retryable)
  /\ \/ /\ Owned(r, thread[r][k].worker)
        /\ status' = [status EXCEPT ![r] = IF requeue THEN "QUEUED" ELSE "FAILED"]
        /\ retryDue' = [retryDue EXCEPT ![r] = ~requeue]
        /\ ReleaseLease(r)
        /\ Log(r, IF requeue THEN "run.retry_queued" ELSE "run.failed")
        /\ BackTo(r, k, "polling")
     \/ /\ ~Owned(r, thread[r][k].worker)
        /\ BackTo(r, k, "exited")
        /\ UNCHANGED <<status, retryDue, leaseOwner, leaseLive, events>>
  /\ Abandon(r, k)
  /\ UNCHANGED <<attemptNo, cancelRequested, result, accepted, crashes>>

\* A RunConflictError of a checkpoint, raised in the thread, is swallowed.
Dismiss(r, k) ==
  /\ thread[r][k].attached
  /\ thread[r][k].pc = "fenced"
  /\ Abandon(r, k)
  /\ BackTo(r, k, "polling")
  /\ UNCHANGED <<rowVars, crashes>>

-----------------------------------------------------------------------------
\* The execution thread

Pending(r, k) ==
  {s \in Checkpointed : thread[r][k].held[s] = 0 /\ s \notin thread[r][k].skipped}

\* Mutant of SaveCheckpoint: the step row is upserted without the lease.
SaveCheckpointUnfenced(r, k, s) ==
  /\ thread[r][k].pc = "running"
  /\ s \in Pending(r, k)
  /\ accepted' = [accepted EXCEPT ![r][s] = k]
  /\ thread' = [thread EXCEPT ![r][k].held[s] = k]
  /\ UNCHANGED <<status, attemptNo, leaseOwner, leaseLive, retryDue,
                 cancelRequested, result, events, mode, crashes>>

\* A step has an acceptable output and saves it as a checkpoint.
SaveCheckpoint(r, k, s) ==
  LET mine == /\ Owned(r, thread[r][k].worker)
              /\ accepted[r][s] \in {0, k}
  IN
  /\ thread[r][k].pc = "running"
  /\ s \in Pending(r, k)
  /\ \/ /\ mine
        /\ accepted' = [accepted EXCEPT ![r][s] = k]
        /\ thread' = [thread EXCEPT ![r][k].held[s] = k]
     \/ /\ ~mine
        /\ EndThread(r, k, "fenced")
        /\ UNCHANGED accepted
  /\ UNCHANGED <<status, attemptNo, leaseOwner, leaseLive, retryDue,
                 cancelRequested, result, events, mode, crashes>>

\* A role whose review cannot be accepted is a failure of the dossier, and
\* the thread goes on with the next.
SkipStep(r, k, s) ==
  /\ thread[r][k].pc = "running"
  /\ s \in Pending(r, k)
  /\ thread' = [thread EXCEPT ![r][k].skipped = @ \cup {s}]
  /\ UNCHANGED <<rowVars, mode, crashes>>

\* All steps are dealt with: the result is put together.  A dossier without
\* one accepted review is ALL_MANDATORY_ROLES_FAILED.
Return(r, k) ==
  LET t == thread[r][k] IN
  /\ t.pc = "running"
  /\ Pending(r, k) = {}
  /\ \/ /\ Checkpointed \ t.skipped # {} \/ Checkpointed = {}
        /\ thread' = [thread EXCEPT ![r][k] =
             IF @.attached
             THEN [@ EXCEPT !.pc = "returned",
                            !.held = [s \in Step |-> IF s \in Checkpointed
                                                     THEN t.held[s] ELSE k]]
             ELSE NoThread]
     \/ /\ Checkpointed \ t.skipped = {} /\ Checkpointed # {}
        /\ EndThread(r, k, "error")
  /\ UNCHANGED <<rowVars, mode, crashes>>

\* An error that ends the execution; is_retryable looks at its type.
Raise(r, k, outcome) ==
  /\ thread[r][k].pc = "running"
  /\ EndThread(r, k, outcome)
  /\ UNCHANGED <<rowVars, mode, crashes>>

-----------------------------------------------------------------------------
\* The environment

\* A worker process stops with its threads, wherever they are.
Crash(w) ==
  /\ crashes < MaxCrashes
  /\ mode[w] # "exited"
  /\ crashes' = crashes + 1
  /\ mode' = [mode EXCEPT ![w] = "exited"]
  /\ thread' = [r \in Run |-> [k \in Attempt |->
                  IF thread[r][k].worker = w THEN NoThread ELSE thread[r][k]]]
  /\ UNCHANGED rowVars

\* A process whose main loop ended stays alive until its threads have ended
\* (the interpreter joins them); then a new one may get the same name.
Restart(w) ==
  /\ mode[w] = "exited"
  /\ \A r \in Run, k \in Attempt : thread[r][k].worker # w
  /\ mode' = [mode EXCEPT ![w] = "polling"]
  /\ UNCHANGED <<rowVars, thread, crashes>>

LeaseExpires(r) ==
  /\ status[r] = "RUNNING"
  /\ leaseLive[r]
  /\ leaseLive' = [leaseLive EXCEPT ![r] = FALSE]
  /\ UNCHANGED <<status, attemptNo, leaseOwner, retryDue, cancelRequested,
                 result, accepted, events, processVars>>

RetryComesDue(r) ==
  /\ ~retryDue[r]
  /\ retryDue' = [retryDue EXCEPT ![r] = TRUE]
  /\ UNCHANGED <<status, attemptNo, leaseOwner, leaseLive, cancelRequested,
                 result, accepted, events, processVars>>

-----------------------------------------------------------------------------
ApiStep(r) == Enqueue(r) \/ Cancel(r)

WorkerStep(r, k) ==
  \/ Launch(r, k)
  \/ Heartbeat(r, k)
  \/ Complete(r, k)
  \/ \E retryable \in BOOLEAN : Fail(r, k, retryable)
  \/ Dismiss(r, k)

ThreadStep(r, k) ==
  \/ \E s \in Checkpointed : SaveCheckpoint(r, k, s) \/ SkipStep(r, k, s)
  \/ Return(r, k)
  \/ \E outcome \in {"error", "transient"} : Raise(r, k, outcome)

Next ==
  \/ \E r \in Run :
       \/ ApiStep(r)
       \/ LeaseExpires(r)
       \/ RetryComesDue(r)
       \/ \E w \in Worker : Claim(w, r)
       \/ \E k \in Attempt : WorkerStep(r, k) \/ ThreadStep(r, k)
  \/ \E w \in Worker : Crash(w) \/ Restart(w)

Spec == Init /\ [][Next]_vars

-----------------------------------------------------------------------------
\* Safety

\* Fencing: while the thread of a claim lives, the worker that made the claim
\* owns the lease of the run only if the claim is the latest one and the main
\* loop still waits on the thread.  The repository checks the worker's name
\* and not the attempt number, so a detached thread of an earlier claim would
\* pass the check if its own process claimed the run again.
StaleThreadsAreFenced ==
  \A r \in Run, k \in Attempt :
    /\ thread[r][k].pc # "none"
    /\ Owned(r, thread[r][k].worker)
    => k = attemptNo[r] /\ thread[r][k].attached

\* "accepted logical steps are not repeated after lease reclaim": whenever the
\* thread that owns the run works on a step, the step has no accepted output
\* yet, although the checkpoints were read once, before the thread started.
AcceptedStepsAreNotRepeated ==
  \A r \in Run, k \in Attempt :
    /\ thread[r][k].pc = "running"
    /\ Owned(r, thread[r][k].worker)
    => \A s \in Pending(r, k) : accepted[r][s] = 0

\* The stored result is made of the accepted step outputs, all of them and
\* nothing else, whichever claims they come from.
ResultIsAcceptedSteps ==
  \A r \in Run : result[r] # NoOutput => result[r] = accepted[r]

\* A worker process waits on exactly one thread while it is busy, and on none
\* otherwise: no claim is lost from sight while its main loop goes on.
OneThreadPerMainLoop ==
  \A w \in Worker :
    LET waiting == {c \in Run \X Attempt :
                      /\ thread[c[1]][c[2]].attached
                      /\ thread[c[1]][c[2]].worker = w}
    IN IF mode[w] = "busy" THEN \E c \in waiting : waiting = {c}
                           ELSE waiting = {}

\* A client that replays the event stream ends in the status of the row, and
\* sees one claim event per attempt.
StatusAfter ==
  [e \in Event \ {"run.heartbeat"} |->
     CASE e = "run.queued" -> "QUEUED"
       [] e = "run.retry_queued" -> "QUEUED"
       [] e = "run.claimed" -> "RUNNING"
       [] e = "run.completed" -> "COMPLETED"
       [] e = "run.partially_completed" -> "PARTIALLY_COMPLETED"
       [] e = "run.failed" -> "FAILED"
       [] e = "run.cancel_requested" -> "CANCELLED"]

EventLogTellsStatus ==
  \A r \in Run :
    LET lifecycle == {n \in DOMAIN events[r] : events[r][n] # "run.heartbeat"}
        claims == {n \in lifecycle : events[r][n] = "run.claimed"}
    IN /\ Cardinality(claims) = attemptNo[r]
       /\ lifecycle = {} => status[r] = "ABSENT"
       /\ \A last \in lifecycle :
            (\A n \in lifecycle : n <= last) => status[r] = StatusAfter[events[r][last]]

\* Nothing is accepted and no worker takes over once a run was cancelled,
\* whatever the threads still running for it return.
CancellationWins ==
  [][\A r \in Run : cancelRequested[r] =>
       /\ status'[r] = "CANCELLED"
       /\ result'[r] = result[r]
       /\ accepted'[r] = accepted[r]]_vars

\* One logical step stores at most one accepted output: a second execution of
\* it, by a late thread or after a reclaim, never replaces the first.
AcceptedOutputIsFinal ==
  [][\A r \in Run, s \in Step :
       accepted[r][s] # 0 => accepted'[r][s] = accepted[r][s]]_vars

\* The queue implements the life of a run that its users are promised.
Lifecycle ==
  INSTANCE RunLifecycle WITH
    state <- status, attempts <- attemptNo, outcome <- result,
    Outcome <- [Step -> Output], NoOutcome <- NoOutput

ImplementsLifecycle == Lifecycle!LifecycleSpec

-----------------------------------------------------------------------------
\* Liveness

Waited(r) ==
  \E k \in Attempt : thread[r][k].attached /\ Owned(r, thread[r][k].worker)

\* The main loops make progress; process_one has a deadline, so it does not
\* wait for ever on a thread; a provider call has a timeout, so a thread does
\* not stop; a lease nobody renews expires.  Nothing restarts a process.
Fairness ==
  /\ \A w \in Worker : WF_vars(\E r \in Run : Claim(w, r))
  /\ \A r \in Run, k \in Attempt :
       /\ WF_vars(Launch(r, k))
       /\ WF_vars(Heartbeat(r, k))
       /\ WF_vars(Complete(r, k))
       /\ WF_vars(\E retryable \in BOOLEAN : Fail(r, k, retryable))
       /\ WF_vars(Dismiss(r, k))
       /\ WF_vars(ThreadStep(r, k))
  /\ \A r \in Run :
       /\ WF_vars(RetryComesDue(r))
       /\ WF_vars(~Waited(r) /\ LeaseExpires(r))

FairSpec == Spec /\ Fairness

AllExited == \A w \in Worker : mode[w] = "exited"

\* A queued run is claimed or cancelled, as long as one worker is left.
QueuedRunsAreTaken ==
  \A r \in Run : status[r] = "QUEUED" ~> status[r] # "QUEUED" \/ AllExited

\* A run whose last attempt lost its worker.
Stranded(r) ==
  /\ status[r] = "RUNNING"
  /\ attemptNo[r] = MaxAttempts
  /\ ~Waited(r)

\* A claimed run is settled or goes to another worker, unless the worker of
\* its last attempt was lost.
ClaimedRunsSettleOrStrand ==
  \A r \in Run :
    status[r] = "RUNNING" ~> status[r] \in Terminal \/ Stranded(r) \/ AllExited
=============================================================================
