--------------------------- MODULE AttemptLedger ---------------------------
(***************************************************************************)
(* The provider calls made by the execution threads of ReviewRuns, and the *)
(* ledger of provider attempts (agent_attempts) they write:                *)
(*   agents/runtime.py  (the start and the final record of every call),    *)
(*   application/multi_role.py  (the attempt budget of a run),             *)
(*   application/review_runs.py  record_attempt, attempt_count, and the    *)
(*       rows that claim closes.                                           *)
(*                                                                         *)
(* record_attempt is not fenced: any thread writes rows for its run, and   *)
(* the row of the run is read without a lock before the attempt row is     *)
(* written, so each record takes two steps here, and the run may change    *)
(* between them.  Rows are named <<claim, number of the call in it>>.      *)
(***************************************************************************)
EXTENDS ReviewRuns, FiniteSets

CONSTANT
  MaxCalls        \* AgentRuntimeBudget.max_provider_attempts (12 in the code)

ASSUME MaxCallsOK == MaxCalls \in Nat \ {0}

VARIABLES
  ledger,         \* agent_attempts.final_status of every row
  call            \* where each thread is in its provider calls

ledgerVars == <<ledger, call>>
allVars == <<vars, ledgerVars>>

Number == 1..MaxCalls

\* "expired": final_status failed with validation_result WORKER_LEASE_EXPIRED;
\* "failed" stands for failed and retryable_failed; "left" is running, of a call
\* whose loop ended without a final record.
RowStatus == {"none", "running", "left", "accepted", "failed", "expired", "discarded"}

\* "opening" and "closing": the run was read, the attempt row is not written.
Call == [pc: {"idle", "opening", "calling", "closing", "answered"},
         made: 0..MaxCalls,      \* calls of this thread
         prior: Nat,             \* attempt_count when the thread was launched
         verdict: {"none", "accepted", "failed"},
         stamp: RowStatus]       \* the final_status about to be written

NoCall == [pc |-> "idle", made |-> 0, prior |-> 0, verdict |-> "none",
           stamp |-> "none"]

LedgerTypeOK ==
  /\ ledger \in [Run -> [Attempt -> [Number -> RowStatus]]]
  /\ call \in [Run -> [Attempt -> Call]]

Rows(r) == {c \in Attempt \X Number : ledger[r][c[1]][c[2]] # "none"}

LedgerInit ==
  /\ Init
  /\ ledger = [r \in Run |-> [k \in Attempt |-> [n \in Number |-> "none"]]]
  /\ call = [r \in Run |-> [k \in Attempt |-> NoCall]]

-----------------------------------------------------------------------------
\* Mutant of Stamp: a result that comes after the lease expired is discarded.
StampWhileLeased(r, final) == IF ~leaseLive[r] THEN "discarded" ELSE final

\* record_attempt: what a row becomes depends on the run as it was read.
Stamp(r, final) ==
  IF cancelRequested[r] \/ status[r] # "RUNNING" THEN "discarded" ELSE final

\* A thread whose work is over takes its calls with it.
DropEndedCalls ==
  call' = [r \in Run |-> [k \in Attempt |->
             IF thread'[r][k].pc = "running" THEN call[r][k] ELSE NoCall]]

CallMoves(r, k, c) ==
  /\ call' = [call EXCEPT ![r][k] = c]
  /\ UNCHANGED vars

\* A call is scheduled while the budget of the run lasts; the start record
\* reads the run.
OpenRead(r, k) ==
  LET c == call[r][k] IN
  /\ thread[r][k].pc = "running"
  /\ c.pc = "idle"
  /\ Pending(r, k) # {}
  /\ c.prior + c.made < MaxCalls
  /\ CallMoves(r, k, [c EXCEPT !.pc = "opening", !.stamp = Stamp(r, "running")])
  /\ UNCHANGED ledger

OpenWrite(r, k) ==
  LET c == call[r][k] IN
  /\ c.pc = "opening"
  /\ ledger' = [ledger EXCEPT ![r][k][c.made + 1] = c.stamp]
  /\ CallMoves(r, k, [c EXCEPT !.pc = "calling", !.made = @ + 1, !.stamp = "none"])

\* The provider answers, fails or times out; the final record reads the run.
CloseRead(r, k, verdict) ==
  LET c == call[r][k] IN
  /\ c.pc = "calling"
  /\ CallMoves(r, k, [c EXCEPT !.pc = "closing", !.verdict = verdict,
                           !.stamp = Stamp(r, verdict)])
  /\ UNCHANGED ledger

\* Mutant of CloseWrite: the final record is not written.
CloseUnrecorded(r, k) ==
  LET c == call[r][k] IN
  /\ c.pc = "closing"
  /\ CallMoves(r, k, [c EXCEPT !.pc = "answered", !.stamp = "none"])
  /\ UNCHANGED ledger

CloseWrite(r, k) ==
  LET c == call[r][k] IN
  /\ c.pc = "closing"
  /\ ledger' = [ledger EXCEPT ![r][k][c.made] = c.stamp]
  /\ CallMoves(r, k, [c EXCEPT !.pc = "answered", !.stamp = "none"])

\* A failed call is tried again: transport, schema repair, policy feedback.
TryAgain(r, k) ==
  LET c == call[r][k] IN
  /\ c.pc = "answered"
  /\ c.verdict = "failed"
  /\ CallMoves(r, k, [c EXCEPT !.pc = "idle", !.verdict = "none"])
  /\ UNCHANGED ledger

-----------------------------------------------------------------------------
\* The steps of ReviewRuns with what they do to calls and rows

\* A reclaim closes every open attempt of the run, whoever made it.
LedgerClaim(w, r) ==
  /\ Claim(w, r)
  /\ ledger' = IF status[r] = "RUNNING"
               THEN [ledger EXCEPT ![r] = [k \in Attempt |-> [n \in Number |->
                       IF @[k][n] \in {"running", "left"} THEN "expired"
                       ELSE @[k][n]]]]
               ELSE ledger
  /\ UNCHANGED call

\* The attempts that lost executions made are counted once, at the launch.
LedgerLaunch(r, k) ==
  /\ Launch(r, k)
  /\ call' = [call EXCEPT ![r][k] = [NoCall EXCEPT !.prior = Cardinality(Rows(r))]]
  /\ UNCHANGED ledger

\* The output of an accepted call is saved; the next step has its own calls.
LedgerSave(r, k, s) ==
  /\ call[r][k].pc = "answered"
  /\ call[r][k].verdict = "accepted"
  /\ SaveCheckpoint(r, k, s)
  /\ call' = [call EXCEPT ![r][k] =
                IF thread'[r][k].pc = "running"
                THEN [@ EXCEPT !.pc = "idle", !.verdict = "none"] ELSE NoCall]
  /\ UNCHANGED ledger

\* The calls of a role failed for good.
LedgerSkip(r, k, s) ==
  /\ call[r][k].pc = "answered"
  /\ call[r][k].verdict = "failed"
  /\ SkipStep(r, k, s)
  /\ call' = [call EXCEPT ![r][k].pc = "idle", ![r][k].verdict = "none"]
  /\ UNCHANGED ledger

\* Errors of the thread: a call that failed for good where the step is not a
\* role, or AGENT_BUDGET_EXCEEDED.
LedgerRaise(r, k, outcome) ==
  /\ \/ call[r][k].pc = "answered" /\ call[r][k].verdict = "failed"
     \/ /\ call[r][k].pc = "idle"
        /\ call[r][k].prior + call[r][k].made >= MaxCalls
  /\ Raise(r, k, outcome)
  /\ DropEndedCalls
  /\ UNCHANGED ledger

\* An error that the Challenger's and the Chair's loop does not catch: no final
\* record is written.
LedgerEscape(r, k) ==
  /\ call[r][k].pc = "calling"
  /\ Raise(r, k, "error")
  /\ DropEndedCalls
  /\ ledger' = [ledger EXCEPT ![r][k][call[r][k].made] =
                  IF @ = "running" THEN "left" ELSE @]

LedgerReturn(r, k) ==
  /\ call[r][k].pc = "idle"
  /\ Return(r, k)
  /\ DropEndedCalls
  /\ UNCHANGED ledger

\* The steps that write no attempt row.
OtherStep ==
  /\ \/ \E r \in Run :
          \/ ApiStep(r)
          \/ LeaseExpires(r)
          \/ RetryComesDue(r)
          \/ \E k \in Attempt :
               \/ Heartbeat(r, k)
               \/ Complete(r, k)
               \/ \E retryable \in BOOLEAN : Fail(r, k, retryable)
               \/ Dismiss(r, k)
     \/ \E w \in Worker : Crash(w) \/ Restart(w)
  /\ DropEndedCalls
  /\ UNCHANGED ledger

CallStep(r, k) ==
  \/ OpenRead(r, k)
  \/ OpenWrite(r, k)
  \/ \E verdict \in {"accepted", "failed"} : CloseRead(r, k, verdict)
  \/ CloseWrite(r, k)
  \/ TryAgain(r, k)

LedgerNext ==
  \/ OtherStep
  \/ \E r \in Run :
       \/ \E w \in Worker : LedgerClaim(w, r)
       \/ \E k \in Attempt :
            \/ LedgerLaunch(r, k)
            \/ CallStep(r, k)
            \/ \E s \in Checkpointed : LedgerSave(r, k, s) \/ LedgerSkip(r, k, s)
            \/ \E outcome \in {"error", "transient"} : LedgerRaise(r, k, outcome)
            \/ LedgerEscape(r, k)
            \/ LedgerReturn(r, k)

LedgerSpec == LedgerInit /\ [][LedgerNext]_allVars

-----------------------------------------------------------------------------
\* Properties

\* Every accepted output has an attempt of the claim that produced it audited
\* as accepted: a call whose row was discarded or closed by a reclaim never
\* gets its output accepted.
AcceptedOutputsAreAudited ==
  \A r \in Run, s \in Checkpointed :
    accepted[r][s] # 0 =>
      \E n \in Number : ledger[r][accepted[r][s]][n] = "accepted"

\* An attempt row is open only while the call it audits is, unless a process
\* crashed or the row was left by an error that the loop of the Challenger or
\* the Chair does not catch (LedgerEscape).
OpenRowsHaveACall ==
  crashes = 0 =>
    \A r \in Run, k \in Attempt, n \in Number :
      ledger[r][k][n] = "running" =>
        call[r][k].pc \in {"calling", "closing"} /\ call[r][k].made = n
=============================================================================
