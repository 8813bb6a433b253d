-------------------------- MODULE ReviewRunsProofs --------------------------
(***************************************************************************)
(* What holds of ReviewRuns for every set of runs, workers and steps:      *)
(*   1. types;                                                             *)
(*   2. fencing of late threads, and what a cancellation holds back;       *)
(*   3. integrity of accepted outputs and results;                         *)
(*   4. the event log tells the status;                                    *)
(*   5. the queue implements RunLifecycle;                                 *)
(* and of AttemptLedger, whose steps are steps of the queue or leave it    *)
(* alone, for every budget besides:                                        *)
(*   6. the accepted outputs and the open calls have their rows.           *)
(*                                                                         *)
(* Fencing, and what rests on it, is proved for the attempt limit of the   *)
(* code (max_attempts = 2 in enqueue_role_review and                       *)
(* enqueue_dossier_review).  The limit matters: with a third attempt a     *)
(* process whose main loop gave up a thread in the first, and whose        *)
(* successor lost the lease in the second, could claim the run again while *)
(* its old thread is still alive, and the lease, which names the worker    *)
(* only, would accept both.                                                *)
(***************************************************************************)
EXTENDS AttemptLedger, TLAPS, FiniteSetTheorems

(* 1. Types *)

\* Replacing the thread of one claim by a thread keeps the type.
LEMMA ThreadReplaced ==
  ASSUME NEW r \in Run, NEW k \in Attempt, NEW t \in Thread,
         thread \in [Run -> [Attempt -> Thread]]
  PROVE  [thread EXCEPT ![r][k] = t] \in [Run -> [Attempt -> Thread]]
  OBVIOUS

LEMMA NoOutputType == NoOutput \in [Step -> Output]
  BY ConstantsOK DEF NoOutput, Output

LEMMA NoThreadType == NoThread \in Thread
  BY NoOutputType DEF NoThread, Thread, ThreadPc

\* The fields of a thread, and what may be written into them.
LEMMA ThreadFields ==
  ASSUME NEW t \in Thread
  PROVE  /\ t.worker \in Worker \cup {NoWorker}
         /\ t.attached \in BOOLEAN
         /\ t.pc \in ThreadPc
         /\ t.held \in [Step -> Output]
         /\ t.skipped \in SUBSET Step
  BY DEF Thread

LEMMA ThreadUpdates ==
  ASSUME NEW t \in Thread, NEW p \in ThreadPc, NEW h \in [Step -> Output],
         NEW S \in SUBSET Step
  PROVE  /\ [t EXCEPT !.pc = p] \in Thread
         /\ [t EXCEPT !.attached = FALSE] \in Thread
         /\ [t EXCEPT !.held = h] \in Thread
         /\ [t EXCEPT !.pc = p, !.held = h] \in Thread
         /\ [t EXCEPT !.skipped = S] \in Thread
  BY DEF Thread

\* Accepting one output keeps the type of the accepted outputs.
LEMMA OutputReplaced ==
  ASSUME NEW f \in [Run -> [Step -> Output]], NEW r \in Run, NEW s \in Step,
         NEW o \in Output
  PROVE  [f EXCEPT ![r][s] = o] \in [Run -> [Step -> Output]]
  OBVIOUS

LEMMA LogType ==
  ASSUME events \in [Run -> Seq(Event)], NEW r \in Run, NEW e \in Event, Log(r, e)
  PROVE  events' \in [Run -> Seq(Event)]
  BY DEF Log

LEMMA EndThreadType ==
  ASSUME thread \in [Run -> [Attempt -> Thread]],
         NEW r \in Run, NEW k \in Attempt, NEW p \in ThreadPc, EndThread(r, k, p)
  PROVE  thread' \in [Run -> [Attempt -> Thread]]
<1> DEFINE t == IF thread[r][k].attached THEN [thread[r][k] EXCEPT !.pc = p]
                                         ELSE NoThread
<1>1. t \in Thread
  <2>1. thread[r][k] \in Thread
    OBVIOUS
  <2>. QED  BY <2>1, NoThreadType, NoOutputType, ThreadUpdates
<1>2. thread' = [thread EXCEPT ![r][k] = t]
  BY DEF EndThread
<1>. QED  BY <1>1, <1>2, ThreadReplaced

LEMMA AbandonType ==
  ASSUME thread \in [Run -> [Attempt -> Thread]],
         NEW r \in Run, NEW k \in Attempt, Abandon(r, k)
  PROVE  thread' \in [Run -> [Attempt -> Thread]]
<1> DEFINE t == IF thread[r][k].pc = "running"
                THEN [thread[r][k] EXCEPT !.attached = FALSE] ELSE NoThread
<1>1. t \in Thread
  <2>1. thread[r][k] \in Thread
    OBVIOUS
  <2>2. "none" \in ThreadPc
    BY DEF ThreadPc
  <2>. QED  BY <2>1, <2>2, NoThreadType, NoOutputType, ThreadUpdates
<1>2. thread' = [thread EXCEPT ![r][k] = t]
  BY DEF Abandon
<1>. QED  BY <1>1, <1>2, ThreadReplaced
-----------------------------------------------------------------------------
\* Type correctness

\* One step of every operation of the queue, the workers and their threads
\* keeps the type of all variables.
LEMMA TypeStep == TypeOK /\ [Next]_vars => TypeOK'
<1> SUFFICES ASSUME TypeOK, [Next]_vars PROVE TypeOK'
  OBVIOUS
<1> USE ConstantsOK DEF TypeOK
<1>1. ASSUME NEW r \in Run, Enqueue(r) PROVE TypeOK'
  <2>1. events' \in [Run -> Seq(Event)]
    BY <1>1, LogType DEF Enqueue, Event
  <2>. QED  BY <1>1, <2>1 DEF Enqueue, processVars, Status
<1>2. ASSUME NEW r \in Run, Cancel(r) PROVE TypeOK'
  <2>1. events' \in [Run -> Seq(Event)]
    BY <1>2, LogType DEF Cancel, Event
  <2>. QED  BY <1>2, <2>1 DEF Cancel, ReleaseLease, processVars, Status, Terminal
<1>3. ASSUME NEW r \in Run, LeaseExpires(r) PROVE TypeOK'
  BY <1>3 DEF LeaseExpires, processVars
<1>4. ASSUME NEW r \in Run, RetryComesDue(r) PROVE TypeOK'
  BY <1>4 DEF RetryComesDue, processVars
<1>5. ASSUME NEW r \in Run, NEW w \in Worker, Claim(w, r) PROVE TypeOK'
  <2> DEFINE k == attemptNo[r] + 1
             t == [NoThread EXCEPT !.worker = w, !.attached = TRUE, !.pc = "claimed"]
  <2>1. k \in Attempt /\ k \in Output
    BY <1>5 DEF Claim, Claimable, Attempt, Output
  <2>2. t \in Thread
    BY NoThreadType DEF Thread, ThreadPc
  <2>3. thread' = [thread EXCEPT ![r][k] = t]
    BY <1>5 DEF Claim
  <2>4. thread' \in [Run -> [Attempt -> Thread]]
    BY <2>1, <2>2, <2>3, ThreadReplaced
  <2>5. events' \in [Run -> Seq(Event)]
    BY <1>5, LogType DEF Claim, Event
  <2>. QED  BY <1>5, <2>1, <2>4, <2>5 DEF Claim, Status
<1>6. ASSUME NEW r \in Run, NEW k \in Attempt, Launch(r, k) PROVE TypeOK'
  <2> DEFINE t == [thread[r][k] EXCEPT !.pc = "running", !.held = accepted[r]]
  <2>1. /\ thread[r][k] \in Thread
        /\ "running" \in ThreadPc
        /\ accepted[r] \in [Step -> Output]
    BY DEF ThreadPc
  <2>2. t \in Thread
    BY ONLY <2>1, ThreadUpdates
  <2>3. thread' = [thread EXCEPT ![r][k] = t]
    BY <1>6 DEF Launch
  <2>4. thread' \in [Run -> [Attempt -> Thread]]
    BY <2>2, <2>3, ThreadReplaced
  <2>. QED  BY <1>6, <2>4 DEF Launch, rowVars
<1>7. ASSUME NEW r \in Run, NEW k \in Attempt, Heartbeat(r, k) PROVE TypeOK'
  <2>1. events' \in [Run -> Seq(Event)]
    BY <1>7, LogType DEF Heartbeat, RenewLease, Event
  <2>2. thread' \in [Run -> [Attempt -> Thread]]
    BY <1>7, AbandonType DEF Heartbeat
  <2>3. leaseLive' \in [Run -> BOOLEAN]
    BY <1>7 DEF Heartbeat, RenewLease
  <2>4. mode' \in [Worker -> {"polling", "busy", "exited"}]
    BY <1>7 DEF Heartbeat, BackTo
  <2>. QED  BY <1>7, <2>1, <2>2, <2>3, <2>4 DEF Heartbeat
<1>8. ASSUME NEW r \in Run, NEW k \in Attempt, Complete(r, k) PROVE TypeOK'
  <2>1. events' \in [Run -> Seq(Event)]
    BY <1>8, LogType DEF Complete, Event
  <2>2. thread' \in [Run -> [Attempt -> Thread]]
    BY <1>8, AbandonType DEF Complete
  <2>3. mode' \in [Worker -> {"polling", "busy", "exited"}]
    BY <1>8 DEF Complete, BackTo
  <2>4. thread[r][k] \in Thread
    OBVIOUS
  <2> DEFINE h == thread[r][k].held
             a == [s \in Step |-> IF h[s] # 0 THEN h[s] ELSE accepted[r][s]]
  <2>5. h \in [Step -> Output] /\ accepted[r] \in [Step -> Output]
    BY <2>4, ThreadFields
  <2>6. a \in [Step -> Output]
    BY ONLY <2>5
  <2>7. result' \in [Run -> [Step -> Output]]
    BY <1>8, <2>5 DEF Complete
  <2>8. accepted' \in [Run -> [Step -> Output]]
    <3>1. accepted' = accepted \/ accepted' = [accepted EXCEPT ![r] = a]
      BY <1>8 DEF Complete
    <3>. QED  BY <2>6, <3>1
  <2>9. status' \in [Run -> Status]
    BY <1>8 DEF Complete, Status, Terminal
  <2>10. /\ leaseOwner' \in [Run -> Worker \cup {NoWorker}]
         /\ leaseLive' \in [Run -> BOOLEAN]
    BY <1>8 DEF Complete, ReleaseLease
  <2>. QED  BY <1>8, <2>1, <2>2, <2>3, <2>7, <2>8, <2>9, <2>10 DEF Complete
<1>9. ASSUME NEW r \in Run, NEW k \in Attempt, NEW retryable \in BOOLEAN,
             Fail(r, k, retryable)
      PROVE  TypeOK'
  <2>1. events' \in [Run -> Seq(Event)]
    BY <1>9, LogType DEF Fail, Event
  <2>2. thread' \in [Run -> [Attempt -> Thread]]
    BY <1>9, AbandonType DEF Fail
  <2>3. mode' \in [Worker -> {"polling", "busy", "exited"}]
    BY <1>9 DEF Fail, BackTo
  <2>. QED  BY <1>9, <2>1, <2>2, <2>3 DEF Fail, ReleaseLease, Status, Terminal
<1>10. ASSUME NEW r \in Run, NEW k \in Attempt, Dismiss(r, k) PROVE TypeOK'
  <2>1. thread' \in [Run -> [Attempt -> Thread]]
    BY <1>10, AbandonType DEF Dismiss
  <2>. QED  BY <1>10, <2>1 DEF Dismiss, BackTo, rowVars
<1>11. ASSUME NEW r \in Run, NEW k \in Attempt, NEW s \in Checkpointed,
              SaveCheckpoint(r, k, s)
       PROVE  TypeOK'
  <2>1. k \in Output /\ s \in Step
    BY DEF Attempt, Output
  <2>2. accepted' \in [Run -> [Step -> Output]]
    <3>1. accepted' = accepted \/ accepted' = [accepted EXCEPT ![r][s] = k]
      BY <1>11 DEF SaveCheckpoint
    <3>2. [accepted EXCEPT ![r][s] = k] \in [Run -> [Step -> Output]]
      BY <2>1, OutputReplaced
    <3>. QED  BY <3>1, <3>2
  <2>3. thread' \in [Run -> [Attempt -> Thread]]
    <3>1. CASE thread' = [thread EXCEPT ![r][k].held[s] = k]
      <4> DEFINE h == [thread[r][k].held EXCEPT ![s] = k]
                 t == [thread[r][k] EXCEPT !.held = h]
      <4>1. thread[r][k] \in Thread
        OBVIOUS
      <4>2. h \in [Step -> Output]
        BY <2>1, <4>1, ThreadFields
      <4>3. t \in Thread
        BY ONLY <4>1, <4>2, ThreadUpdates DEF ThreadPc
      <4>4. thread' = [thread EXCEPT ![r][k] = t]
        BY <3>1
      <4>. QED  BY <4>3, <4>4, ThreadReplaced
    <3>2. CASE EndThread(r, k, "fenced")
      BY <3>2, EndThreadType DEF ThreadPc
    <3>. QED  BY <1>11, <3>1, <3>2 DEF SaveCheckpoint
  <2>. QED  BY <1>11, <2>2, <2>3 DEF SaveCheckpoint
<1>12. ASSUME NEW r \in Run, NEW k \in Attempt, NEW s \in Checkpointed,
              SkipStep(r, k, s)
       PROVE  TypeOK'
  <2> DEFINE t == [thread[r][k] EXCEPT !.skipped = @ \cup {s}]
  <2>1. thread[r][k] \in Thread /\ s \in Step
    OBVIOUS
  <2>2. thread[r][k].skipped \cup {s} \in SUBSET Step
    BY <2>1, ThreadFields
  <2>3. t \in Thread
    BY ONLY <2>1, <2>2, NoOutputType, ThreadUpdates DEF ThreadPc
  <2>4. thread' = [thread EXCEPT ![r][k] = t]
    BY <1>12 DEF SkipStep
  <2>5. thread' \in [Run -> [Attempt -> Thread]]
    BY <2>3, <2>4, ThreadReplaced
  <2>. QED  BY <1>12, <2>5 DEF SkipStep, rowVars
<1>13. ASSUME NEW r \in Run, NEW k \in Attempt, Return(r, k) PROVE TypeOK'
  <2>1. thread' \in [Run -> [Attempt -> Thread]]
    <3>1. CASE EndThread(r, k, "error")
      BY <3>1, EndThreadType DEF ThreadPc
    <3>2. CASE ~EndThread(r, k, "error")
      <4> DEFINE h == [s \in Step |-> IF s \in Checkpointed
                                     THEN thread[r][k].held[s] ELSE k]
                 t == IF thread[r][k].attached
                      THEN [thread[r][k] EXCEPT !.pc = "returned", !.held = h]
                      ELSE NoThread
      <4>1. thread[r][k] \in Thread
        OBVIOUS
      <4>2. k \in Output
        BY DEF Attempt, Output
      <4>3. h \in [Step -> Output]
        BY <4>1, <4>2, ThreadFields
      <4>4. t \in Thread
        <5>1. "returned" \in ThreadPc
          BY DEF ThreadPc
        <5>. QED  BY ONLY <4>1, <4>3, <5>1, NoThreadType, ThreadUpdates
      <4>5. thread' = [thread EXCEPT ![r][k] = t]
        BY <1>13, <3>2 DEF Return
      <4>. QED  BY <4>4, <4>5, ThreadReplaced
    <3>. QED  BY <3>1, <3>2
  <2>. QED  BY <1>13, <2>1 DEF Return, rowVars
<1>14. ASSUME NEW r \in Run, NEW k \in Attempt, NEW outcome \in {"error", "transient"},
              Raise(r, k, outcome)
       PROVE  TypeOK'
  <2>1. thread' \in [Run -> [Attempt -> Thread]]
    BY <1>14, EndThreadType DEF Raise, ThreadPc
  <2>. QED  BY <1>14, <2>1 DEF Raise, rowVars
<1>15. ASSUME NEW w \in Worker, Crash(w) PROVE TypeOK'
  <2>1. thread' \in [Run -> [Attempt -> Thread]]
    BY <1>15, NoThreadType DEF Crash
  <2>. QED  BY <1>15, <2>1 DEF Crash, rowVars
<1>16. ASSUME NEW w \in Worker, Restart(w) PROVE TypeOK'
  BY <1>16 DEF Restart, rowVars
<1>17. CASE UNCHANGED vars
  BY <1>17 DEF vars, rowVars, processVars
<1>. QED
  BY <1>1, <1>2, <1>3, <1>4, <1>5, <1>6, <1>7, <1>8, <1>9, <1>10, <1>11, <1>12,
     <1>13, <1>14, <1>15, <1>16, <1>17
  DEF Next, ApiStep, WorkerStep, ThreadStep

\* Every row, lease, thread and event log of the queue keeps its type.
THEOREM TypeCorrect == Spec => []TypeOK
<1>1. Init => TypeOK
  BY ConstantsOK, NoOutputType, NoThreadType DEF Init, TypeOK, Status, Output
<1>2. TypeOK /\ [Next]_vars => TypeOK'
  BY TypeStep
<1>. QED  BY <1>1, <1>2, PTL DEF Spec

-----------------------------------------------------------------------------
(* 2. Fencing *)

\* A claim that has a thread was made, by a worker; the other threads are empty.
ThreadsKnown ==
  \A r \in Run, k \in Attempt :
    IF thread[r][k].pc = "none"
    THEN thread[r][k] = NoThread
    ELSE k <= attemptNo[r] /\ thread[r][k].worker \in Worker

\* A main loop that waits is busy, and waits on one thread.
LoopsWait ==
  \A r \in Run, k \in Attempt : thread[r][k].attached =>
    /\ mode[thread[r][k].worker] = "busy"
    /\ \A q \in Run, j \in Attempt :
         thread[q][j].attached /\ thread[q][j].worker = thread[r][k].worker
         => q = r /\ j = k

\* A living thread is the one the owner of the lease waits on, or the run has
\* ended, or the run was claimed again by another worker.
Fenced ==
  \A r \in Run, k \in Attempt : thread[r][k].pc # "none" =>
    \/ /\ k = attemptNo[r]
       /\ thread[r][k].attached
       /\ Owned(r, thread[r][k].worker)
    \/ status[r] \in Terminal
    \/ k < attemptNo[r] /\ leaseOwner[r] # thread[r][k].worker

Control == ThreadsKnown /\ LoopsWait /\ Fenced

\* A cancelled run keeps its status.
CancelledStays ==
  \A r \in Run : cancelRequested[r] => status[r] = "CANCELLED"

-----------------------------------------------------------------------------
\* What the helpers do to one thread

LEMMA AbandonEffect ==
  ASSUME thread \in [Run -> [Attempt -> Thread]], NEW r \in Run, NEW k \in Attempt,
         Abandon(r, k)
  PROVE  /\ \A q \in Run, j \in Attempt :
              q # r \/ j # k => thread'[q][j] = thread[q][j]
         /\ \/ thread'[r][k] = NoThread
            \/ /\ thread[r][k].pc = "running"
               /\ thread'[r][k] = [thread[r][k] EXCEPT !.attached = FALSE]
<1> DEFINE t == IF thread[r][k].pc = "running"
                THEN [thread[r][k] EXCEPT !.attached = FALSE] ELSE NoThread
<1>1. thread' = [thread EXCEPT ![r][k] = t]
  BY DEF Abandon
<1>2. /\ thread'[r][k] = t
      /\ \A q \in Run, j \in Attempt :
           q # r \/ j # k => thread'[q][j] = thread[q][j]
  BY <1>1
<1>. QED  BY <1>2

LEMMA EndThreadEffect ==
  ASSUME thread \in [Run -> [Attempt -> Thread]], NEW r \in Run, NEW k \in Attempt,
         NEW p, EndThread(r, k, p)
  PROVE  /\ \A q \in Run, j \in Attempt :
              q # r \/ j # k => thread'[q][j] = thread[q][j]
         /\ \/ thread'[r][k] = NoThread
            \/ thread'[r][k] = [thread[r][k] EXCEPT !.pc = p]
<1> DEFINE t == IF thread[r][k].attached THEN [thread[r][k] EXCEPT !.pc = p]
                                         ELSE NoThread
<1>1. thread' = [thread EXCEPT ![r][k] = t]
  BY DEF EndThread
<1>2. /\ thread'[r][k] = t
      /\ \A q \in Run, j \in Attempt :
           q # r \/ j # k => thread'[q][j] = thread[q][j]
  BY <1>1
<1>. QED  BY <1>2

-----------------------------------------------------------------------------
\* Control: which thread may do what

\* A step of one thread that leaves the rows and the main loops alone.
LEMMA ControlOfThreadStep ==
  ASSUME TypeOK, Control, NEW r \in Run, NEW k \in Attempt,
         UNCHANGED <<status, attemptNo, leaseOwner, mode>>,
         \A q \in Run, j \in Attempt :
           q # r \/ j # k => thread'[q][j] = thread[q][j],
         thread[r][k].pc # "none",
         \/ thread'[r][k] = NoThread
         \/ /\ thread'[r][k].pc # "none"
            /\ thread'[r][k].worker = thread[r][k].worker
            /\ thread'[r][k].attached = thread[r][k].attached
  PROVE  Control'
<1> USE DEF Control
<1>0. NoThread.pc = "none" /\ ~NoThread.attached
  BY DEF NoThread
<1>1. ThreadsKnown'
  BY <1>0 DEF ThreadsKnown
<1>2. LoopsWait'
  BY <1>0 DEF LoopsWait
<1>3. Fenced'
  BY <1>0 DEF Fenced, Owned
<1>. QED  BY <1>1, <1>2, <1>3

\* A thread ends, watched or not.
LEMMA ControlOfEnd ==
  ASSUME TypeOK, Control, NEW r \in Run, NEW k \in Attempt,
         NEW p \in {"error", "transient", "fenced"},
         UNCHANGED <<status, attemptNo, leaseOwner, mode>>,
         thread[r][k].pc = "running",
         EndThread(r, k, p)
  PROVE  Control'
<1>1. /\ \A q \in Run, j \in Attempt :
           q # r \/ j # k => thread'[q][j] = thread[q][j]
      /\ \/ thread'[r][k] = NoThread
         \/ thread'[r][k] = [thread[r][k] EXCEPT !.pc = p]
  BY EndThreadEffect DEF TypeOK
<1>2. thread[r][k] \in Thread
  BY DEF TypeOK
<1>3. \/ thread'[r][k] = NoThread
      \/ /\ thread'[r][k].pc # "none"
         /\ thread'[r][k].worker = thread[r][k].worker
         /\ thread'[r][k].attached = thread[r][k].attached
  BY <1>1, <1>2 DEF Thread
<1>. QED  BY <1>1, <1>3, ControlOfThreadStep

\* A main loop gives up its thread, and the run is settled, goes back to the
\* queue or is not its own any more.
LEMMA ControlOfAbandon ==
  ASSUME TypeOK, Control, ConstantsOK, NEW r \in Run, NEW k \in Attempt,
         NEW m \in {"polling", "exited"},
         thread[r][k].attached,
         thread[r][k].pc # "none",
         Abandon(r, k),
         BackTo(r, k, m),
         UNCHANGED attemptNo,
         \A q \in Run : q # r => status'[q] = status[q] /\ leaseOwner'[q] = leaseOwner[q],
         \/ UNCHANGED <<status, leaseOwner>>
         \/ /\ leaseOwner'[r] = NoWorker
            /\ Owned(r, thread[r][k].worker),
         thread[r][k].pc = "running" =>
           status'[r] \in Terminal \/ ~Owned(r, thread[r][k].worker)
  PROVE  Control'
<1> DEFINE w == thread[r][k].worker
<1>1. /\ \A q \in Run, j \in Attempt :
           q # r \/ j # k => thread'[q][j] = thread[q][j]
      /\ \/ thread'[r][k] = NoThread
         \/ /\ thread[r][k].pc = "running"
            /\ thread'[r][k] = [thread[r][k] EXCEPT !.attached = FALSE]
  BY AbandonEffect DEF TypeOK
<1>2. thread[r][k] \in Thread
  BY DEF TypeOK
<1>3. /\ ~thread'[r][k].attached
      /\ thread'[r][k].pc = "none" => thread'[r][k] = NoThread
      /\ thread'[r][k].pc # "none" =>
           /\ thread[r][k].pc = "running"
           /\ thread'[r][k].worker = w
  BY <1>1, <1>2 DEF NoThread, Thread
<1>4. w \in Worker /\ k <= attemptNo[r]
  BY DEF Control, ThreadsKnown
<1>5. /\ mode'[w] = m
      /\ \A v \in Worker : v # w => mode'[v] = mode[v]
  BY <1>4 DEF BackTo, TypeOK
<1>6. ThreadsKnown'
  BY <1>1, <1>3, <1>4 DEF Control, ThreadsKnown
<1>7. LoopsWait'
  <2> SUFFICES ASSUME NEW q \in Run, NEW j \in Attempt, thread'[q][j].attached
               PROVE  /\ mode'[thread'[q][j].worker] = "busy"
                      /\ \A p \in Run, i \in Attempt :
                           thread'[p][i].attached /\ thread'[p][i].worker = thread'[q][j].worker
                           => p = q /\ i = j
    BY DEF LoopsWait
  <2>1. thread'[q][j] = thread[q][j] /\ (q # r \/ j # k)
    BY <1>1, <1>3
  <2>2. thread[q][j].worker # w
    BY <2>1 DEF Control, LoopsWait
  <2>3. thread[q][j].pc # "none" => thread[q][j].worker \in Worker
    BY DEF Control, ThreadsKnown
  <2>4. thread[q][j].pc # "none"
    BY <2>1 DEF Control, ThreadsKnown, NoThread
  <2>5. mode'[thread'[q][j].worker] = "busy"
    BY <1>5, <2>1, <2>2, <2>3, <2>4 DEF Control, LoopsWait
  <2>6. \A p \in Run, i \in Attempt :
           thread'[p][i].attached /\ thread'[p][i].worker = thread'[q][j].worker
           => p = q /\ i = j
    BY <1>1, <1>3, <2>1 DEF Control, LoopsWait
  <2>. QED  BY <2>5, <2>6
<1>8. Fenced'
  <2> SUFFICES ASSUME NEW q \in Run, NEW j \in Attempt, thread'[q][j].pc # "none"
               PROVE  \/ /\ j = attemptNo[q]
                         /\ thread'[q][j].attached
                         /\ status'[q] = "RUNNING"
                         /\ leaseOwner'[q] = thread'[q][j].worker
                      \/ status'[q] \in Terminal
                      \/ j < attemptNo[q] /\ leaseOwner'[q] # thread'[q][j].worker
    BY DEF Fenced, Owned
  <2>1. CASE q = r /\ j = k
    BY <1>1, <1>3, <1>4, <2>1 DEF Control, Fenced, Owned
  <2>2. CASE q # r
    BY <1>1, <2>2 DEF Control, Fenced, Owned
  <2>3. CASE q = r /\ j # k
    <3>1. thread'[r][j] = thread[r][j]
      BY <1>1, <2>3
    <3>2. CASE UNCHANGED <<status, leaseOwner>>
      BY <2>3, <3>1, <3>2 DEF Control, Fenced, Owned
    <3>3. CASE leaseOwner'[r] = NoWorker /\ Owned(r, w)
      <4>1. status[r] \notin Terminal /\ k = attemptNo[r]
        BY <1>4, <3>3 DEF Control, Fenced, Owned, Terminal
      <4>2. j < attemptNo[r] /\ thread[r][j].worker \in Worker
        BY <2>3, <3>1, <4>1 DEF Control, Fenced, ThreadsKnown
      <4>. QED  BY <2>3, <3>1, <3>3, <4>2 DEF ConstantsOK
    <3>. QED  BY <3>2, <3>3
  <2>. QED  BY <2>1, <2>2, <2>3
<1>. QED  BY <1>6, <1>7, <1>8 DEF Control

\* A claim: the worker is free, and every other thread of the run belongs to
\* another worker or to a run that ended.
LEMMA ControlOfClaim ==
  ASSUME TypeOK, Control, ConstantsOK, MaxAttempts <= 2, NEW r \in Run, NEW w \in Worker,
         Claim(w, r)
  PROVE  Control'
<1> DEFINE k == attemptNo[r] + 1
           t == [NoThread EXCEPT !.worker = w, !.attached = TRUE, !.pc = "claimed"]
<1>1. k \in Attempt /\ attemptNo[r] \in Nat
  BY DEF Claim, Claimable, Attempt, Output, TypeOK, ConstantsOK
<1>2. thread' = [thread EXCEPT ![r][k] = t]
  BY DEF Claim
<1>3. /\ thread'[r][k] = t
      /\ \A q \in Run, j \in Attempt :
           q # r \/ j # k => thread'[q][j] = thread[q][j]
  BY <1>1, <1>2 DEF TypeOK
<1>4. t.worker = w /\ t.attached /\ t.pc = "claimed"
  BY DEF NoThread
<1>5. /\ mode[w] = "polling"
      /\ mode'[w] = "busy"
      /\ \A v \in Worker : v # w => mode'[v] = mode[v]
  BY DEF Claim, TypeOK
<1>6. /\ status'[r] = "RUNNING" /\ leaseOwner'[r] = w /\ attemptNo'[r] = k
      /\ \A q \in Run : q # r => /\ status'[q] = status[q]
                                /\ leaseOwner'[q] = leaseOwner[q]
                                /\ attemptNo'[q] = attemptNo[q]
  BY DEF Claim, TypeOK
<1>7. \A q \in Run, j \in Attempt :
        thread[q][j].attached => thread[q][j].worker \in Worker \ {w}
  <2>1. NoThread.pc = "none" /\ ~NoThread.attached
    BY DEF NoThread
  <2>. QED  BY <1>5, <2>1 DEF Control, LoopsWait, ThreadsKnown
<1>8. ThreadsKnown'
  <2> SUFFICES ASSUME NEW q \in Run, NEW j \in Attempt
               PROVE  IF thread'[q][j].pc = "none"
                      THEN thread'[q][j] = NoThread
                      ELSE j <= attemptNo'[q] /\ thread'[q][j].worker \in Worker
    BY DEF ThreadsKnown
  <2>1. CASE q = r /\ j = k
    <3>1. k <= k
      BY <1>1 DEF Attempt
    <3>. QED  BY <1>3, <1>4, <1>6, <2>1, <3>1
  <2>2. CASE q # r
    BY <1>3, <1>6, <2>2 DEF Control, ThreadsKnown
  <2>3. CASE q = r /\ j # k
    <3>1. j <= attemptNo[r] => j <= k
      BY <1>1 DEF Attempt
    <3>. QED  BY <1>3, <1>6, <2>3, <3>1 DEF Control, ThreadsKnown
  <2>. QED  BY <2>1, <2>2, <2>3
<1>9. LoopsWait'
  <2> SUFFICES ASSUME NEW q \in Run, NEW j \in Attempt, thread'[q][j].attached
               PROVE  /\ mode'[thread'[q][j].worker] = "busy"
                      /\ \A p \in Run, i \in Attempt :
                           thread'[p][i].attached /\ thread'[p][i].worker = thread'[q][j].worker
                           => p = q /\ i = j
    BY DEF LoopsWait
  <2>1. CASE q = r /\ j = k
    <3>1. thread'[q][j].worker = w
      BY <1>3, <1>4, <2>1
    <3>. QED  BY <1>3, <1>5, <1>7, <2>1, <3>1
  <2>2. CASE q # r \/ j # k
    <3>1. thread'[q][j] = thread[q][j] /\ thread[q][j].worker \in Worker \ {w}
      BY <1>3, <1>7, <2>2
    <3>2. mode'[thread'[q][j].worker] = "busy"
      BY <1>5, <3>1 DEF Control, LoopsWait
    <3>3. ASSUME NEW p \in Run, NEW i \in Attempt, thread'[p][i].attached,
                 thread'[p][i].worker = thread'[q][j].worker
          PROVE  p = q /\ i = j
      <4>1. p # r \/ i # k
        <5>1. ASSUME p = r, i = k PROVE thread'[p][i].worker = w
          BY <1>3, <1>4, <5>1
        <5>. QED  BY <3>1, <3>3, <5>1
      <4>2. thread'[p][i] = thread[p][i]
        BY <1>3, <4>1
      <4>. QED  BY <3>1, <3>3, <4>2 DEF Control, LoopsWait
    <3>. QED  BY <3>2, <3>3
  <2>. QED  BY <2>1, <2>2
<1>10. Fenced'
  <2> SUFFICES ASSUME NEW q \in Run, NEW j \in Attempt, thread'[q][j].pc # "none"
               PROVE  \/ /\ j = attemptNo'[q]
                         /\ thread'[q][j].attached
                         /\ status'[q] = "RUNNING"
                         /\ leaseOwner'[q] = thread'[q][j].worker
                      \/ status'[q] \in Terminal
                      \/ j < attemptNo'[q] /\ leaseOwner'[q] # thread'[q][j].worker
    BY DEF Fenced, Owned
  <2>1. CASE q = r /\ j = k
    BY <1>3, <1>4, <1>6, <2>1
  <2>2. CASE q # r
    BY <1>3, <1>6, <2>2 DEF Control, Fenced, Owned
  <2>3. CASE q = r /\ j # k
    <3>1. thread'[r][j] = thread[r][j] /\ thread[r][j].pc # "none"
      BY <1>3, <2>3
    <3>2. status[r] \notin Terminal
      BY DEF Claim, Claimable, Terminal
    <3>3. j = 1 /\ k = 2
      BY <1>1, <2>3, <3>1 DEF Control, ThreadsKnown, Attempt, ConstantsOK
    <3>4. thread[r][j].attached
      BY <1>1, <3>1, <3>2, <3>3 DEF Control, Fenced
    <3>5. thread[r][j].worker # w
      BY <1>7, <3>4
    <3>. QED  BY <1>6, <2>3, <3>1, <3>3, <3>5
  <2>. QED  BY <2>1, <2>2, <2>3
<1>. QED  BY <1>8, <1>9, <1>10 DEF Control

\* A crash takes the threads of the worker with it.
LEMMA ControlOfCrash ==
  ASSUME TypeOK, Control, NEW w \in Worker, Crash(w)
  PROVE  Control'
<1>1. /\ UNCHANGED <<status, attemptNo, leaseOwner>>
      /\ \A v \in Worker : v # w => mode'[v] = mode[v]
  BY DEF Crash, rowVars, TypeOK
<1>2. \A q \in Run, j \in Attempt :
        IF thread[q][j].worker = w THEN thread'[q][j] = NoThread
                                   ELSE thread'[q][j] = thread[q][j]
  BY DEF Crash
<1>3. NoThread.pc = "none" /\ ~NoThread.attached
  BY DEF NoThread
<1>4. ThreadsKnown'
  BY <1>1, <1>2, <1>3 DEF Control, ThreadsKnown
<1>5. LoopsWait'
  <2>1. \A q \in Run, j \in Attempt : thread'[q][j].attached =>
          /\ thread'[q][j] = thread[q][j]
          /\ thread[q][j].worker \in Worker \ {w}
    BY <1>2, <1>3 DEF Control, ThreadsKnown
  <2>. QED  BY <1>1, <2>1 DEF Control, LoopsWait
<1>6. Fenced'
  BY <1>1, <1>2, <1>3 DEF Control, Fenced, Owned
<1>. QED  BY <1>4, <1>5, <1>6 DEF Control

\* A process is started again when none of its threads is left.
LEMMA ControlOfRestart ==
  ASSUME TypeOK, Control, NEW w \in Worker, Restart(w)
  PROVE  Control'
<1>1. /\ UNCHANGED <<status, attemptNo, leaseOwner, thread>>
      /\ \A v \in Worker : v # w => mode'[v] = mode[v]
      /\ \A q \in Run, j \in Attempt : thread[q][j].worker # w
  BY DEF Restart, rowVars, TypeOK
<1>2. \A q \in Run, j \in Attempt :
        thread[q][j].attached => thread[q][j].worker \in Worker \ {w}
  <2>1. ~NoThread.attached
    BY DEF NoThread
  <2>. QED  BY <1>1, <2>1 DEF Control, ThreadsKnown
<1>3. LoopsWait'
  BY <1>1, <1>2 DEF Control, LoopsWait
<1>. QED  BY <1>1, <1>3 DEF Control, ThreadsKnown, Fenced, Owned

\* Steps of the API and of time touch no thread.
LEMMA ControlOfRows ==
  ASSUME TypeOK, Control, ConstantsOK, NEW r \in Run, UNCHANGED <<attemptNo, mode, thread>>,
         \A q \in Run : q # r => status'[q] = status[q] /\ leaseOwner'[q] = leaseOwner[q],
         \/ status'[r] \in Terminal
         \/ status[r] # "RUNNING" /\ status[r] \notin Terminal /\ leaseOwner'[r] = leaseOwner[r]
         \/ status'[r] = status[r] /\ leaseOwner'[r] = leaseOwner[r]
  PROVE  Control'
<1>1. Fenced'
  BY DEF Control, Fenced, Owned
<1>. QED  BY <1>1 DEF Control, ThreadsKnown, LoopsWait

\* What the next step may be, one case for each operation.
LEMMA ControlStep ==
  ASSUME MaxAttempts <= 2
  PROVE  TypeOK /\ Control /\ CancelledStays /\ [Next]_vars => Control'
<1> SUFFICES ASSUME TypeOK, Control, CancelledStays, [Next]_vars PROVE Control'
  OBVIOUS
<1> USE ConstantsOK
<1>1. ASSUME NEW r \in Run, Enqueue(r) PROVE Control'
  BY <1>1, ControlOfRows DEF Enqueue, TypeOK, processVars, Terminal
<1>2. ASSUME NEW r \in Run, Cancel(r) PROVE Control'
  BY <1>2, ControlOfRows DEF Cancel, ReleaseLease, TypeOK, processVars, Terminal
<1>3. ASSUME NEW r \in Run, LeaseExpires(r) PROVE Control'
  BY <1>3, ControlOfRows DEF LeaseExpires, processVars
<1>4. ASSUME NEW r \in Run, RetryComesDue(r) PROVE Control'
  BY <1>4, ControlOfRows DEF RetryComesDue, processVars
<1>5. ASSUME NEW r \in Run, NEW w \in Worker, Claim(w, r) PROVE Control'
  BY <1>5, ControlOfClaim
<1>6. ASSUME NEW r \in Run, NEW k \in Attempt, Launch(r, k) PROVE Control'
  <2> DEFINE t == [thread[r][k] EXCEPT !.pc = "running", !.held = accepted[r]]
  <2>1. thread' = [thread EXCEPT ![r][k] = t]
    BY <1>6 DEF Launch
  <2>2. thread'[r][k] = t
    BY <2>1 DEF TypeOK
  <2>3. \A q \in Run, j \in Attempt :
          q # r \/ j # k => thread'[q][j] = thread[q][j]
    BY <2>1 DEF TypeOK
  <2>4. thread[r][k] \in Thread
    BY DEF TypeOK
  <2>5. thread'[r][k].pc # "none"
    BY ONLY <2>2, <2>4 DEF Thread
  <2>6. thread'[r][k].worker = thread[r][k].worker
    BY ONLY <2>2, <2>4 DEF Thread
  <2>7. thread'[r][k].attached = thread[r][k].attached
    BY ONLY <2>2, <2>4 DEF Thread
  <2>. QED  BY <1>6, <2>3, <2>5, <2>6, <2>7, ControlOfThreadStep DEF Launch, rowVars
<1>7. ASSUME NEW r \in Run, NEW k \in Attempt, Heartbeat(r, k) PROVE Control'
  <2>1. CASE RenewLease(r, thread[r][k].worker) /\ UNCHANGED <<mode, thread>>
    BY <1>7, <2>1, ControlOfRows DEF Heartbeat
  <2>2. CASE /\ cancelRequested[r] \/ ~Owned(r, thread[r][k].worker)
             /\ Abandon(r, k)
             /\ BackTo(r, k, "polling")
    <3>1. status[r] \in Terminal \/ ~Owned(r, thread[r][k].worker)
      BY <2>2 DEF CancelledStays, Terminal
    <3>. QED  BY <1>7, <2>2, <3>1, ControlOfAbandon DEF Heartbeat
  <2>. QED  BY <1>7, <2>1, <2>2 DEF Heartbeat
<1>8. ASSUME NEW r \in Run, NEW k \in Attempt, Complete(r, k) PROVE Control'
  <2>1. /\ thread[r][k].attached
        /\ thread[r][k].pc = "returned"
        /\ Abandon(r, k)
        /\ BackTo(r, k, "polling")
        /\ UNCHANGED attemptNo
    BY <1>8 DEF Complete
  <2>2. /\ \A q \in Run : q # r => status'[q] = status[q] /\ leaseOwner'[q] = leaseOwner[q]
        /\ \/ UNCHANGED <<status, leaseOwner>>
           \/ leaseOwner'[r] = NoWorker /\ Owned(r, thread[r][k].worker)
    BY <1>8 DEF Complete, ReleaseLease, TypeOK
  <2>. QED  BY <2>1, <2>2, ControlOfAbandon
<1>9. ASSUME NEW r \in Run, NEW k \in Attempt, NEW retryable \in BOOLEAN,
             Fail(r, k, retryable)
      PROVE  Control'
  <2>1. /\ thread[r][k].attached
        /\ thread[r][k].pc # "none"
        /\ Abandon(r, k)
        /\ UNCHANGED attemptNo
    BY <1>9 DEF Fail, Failure
  <2>2. /\ \A q \in Run : q # r => status'[q] = status[q] /\ leaseOwner'[q] = leaseOwner[q]
        /\ \/ UNCHANGED <<status, leaseOwner>>
           \/ leaseOwner'[r] = NoWorker /\ Owned(r, thread[r][k].worker)
    BY <1>9 DEF Fail, ReleaseLease, TypeOK
  <2>3. BackTo(r, k, "polling") \/ BackTo(r, k, "exited")
    BY <1>9 DEF Fail
  <2>4. thread[r][k].pc = "running" =>
          status'[r] \in Terminal \/ ~Owned(r, thread[r][k].worker)
    BY <1>9 DEF Fail, Failure, Terminal, TypeOK
  <2>. QED  BY <2>1, <2>2, <2>3, <2>4, ControlOfAbandon
<1>10. ASSUME NEW r \in Run, NEW k \in Attempt, Dismiss(r, k) PROVE Control'
  BY <1>10, ControlOfAbandon DEF Dismiss, rowVars
<1>11. ASSUME NEW r \in Run, NEW k \in Attempt, NEW s \in Checkpointed,
              SaveCheckpoint(r, k, s)
       PROVE  Control'
  <2> DEFINE t == [thread[r][k] EXCEPT !.held[s] = k]
  <2>1. /\ thread[r][k].pc = "running"
        /\ UNCHANGED <<status, attemptNo, leaseOwner, mode>>
        /\ thread[r][k] \in Thread
    BY <1>11 DEF SaveCheckpoint, TypeOK
  <2>2. CASE thread' = [thread EXCEPT ![r][k].held[s] = k]
    <3>1. /\ thread'[r][k] = t
          /\ \A q \in Run, j \in Attempt :
               q # r \/ j # k => thread'[q][j] = thread[q][j]
      BY <2>2 DEF TypeOK
    <3>2. /\ thread'[r][k].pc = thread[r][k].pc
          /\ thread'[r][k].worker = thread[r][k].worker
          /\ thread'[r][k].attached = thread[r][k].attached
      BY <2>1, <3>1 DEF Thread
    <3>. QED  BY <2>1, <3>1, <3>2, ControlOfThreadStep
  <2>3. CASE EndThread(r, k, "fenced")
    BY <2>1, <2>3, ControlOfEnd
  <2>. QED  BY <1>11, <2>2, <2>3 DEF SaveCheckpoint
<1>12. ASSUME NEW r \in Run, NEW k \in Attempt, NEW s \in Checkpointed,
              SkipStep(r, k, s)
       PROVE  Control'
  <2> DEFINE t == [thread[r][k] EXCEPT !.skipped = @ \cup {s}]
  <2>1. thread' = [thread EXCEPT ![r][k] = t] /\ thread[r][k] \in Thread
    BY <1>12 DEF SkipStep, TypeOK
  <2>2. /\ thread'[r][k] = t
        /\ \A q \in Run, j \in Attempt :
             q # r \/ j # k => thread'[q][j] = thread[q][j]
    BY <2>1 DEF TypeOK
  <2>3. /\ thread'[r][k].pc = thread[r][k].pc
        /\ thread'[r][k].worker = thread[r][k].worker
        /\ thread'[r][k].attached = thread[r][k].attached
    BY <2>1, <2>2 DEF Thread
  <2>. QED  BY <1>12, <2>2, <2>3, ControlOfThreadStep DEF SkipStep, rowVars
<1>13. ASSUME NEW r \in Run, NEW k \in Attempt, Return(r, k) PROVE Control'
  <2>1. thread[r][k].pc = "running" /\ UNCHANGED <<status, attemptNo, leaseOwner, mode>>
    BY <1>13 DEF Return, rowVars
  <2>2. CASE EndThread(r, k, "error")
    BY <2>1, <2>2, ControlOfEnd
  <2>3. CASE ~EndThread(r, k, "error")
    <3> DEFINE h == [s \in Step |-> IF s \in Checkpointed
                                   THEN thread[r][k].held[s] ELSE k]
               t == IF thread[r][k].attached
                    THEN [thread[r][k] EXCEPT !.pc = "returned", !.held = h]
                    ELSE NoThread
    <3>1. thread' = [thread EXCEPT ![r][k] = t]
      BY <1>13, <2>3 DEF Return
    <3>2. thread'[r][k] = t
      BY <3>1 DEF TypeOK
    <3>3. \A q \in Run, j \in Attempt :
            q # r \/ j # k => thread'[q][j] = thread[q][j]
      BY <3>1 DEF TypeOK
    <3>4. thread[r][k] \in Thread
      BY DEF TypeOK
    <3>5. thread'[r][k] = NoThread \/ thread'[r][k].pc # "none"
      BY ONLY <3>2, <3>4 DEF Thread
    <3>6. \/ thread'[r][k] = NoThread
          \/ thread'[r][k].worker = thread[r][k].worker
      BY ONLY <3>2, <3>4 DEF Thread
    <3>7. \/ thread'[r][k] = NoThread
          \/ thread'[r][k].attached = thread[r][k].attached
      BY ONLY <3>2, <3>4 DEF Thread
    <3>. QED  BY <2>1, <3>3, <3>5, <3>6, <3>7, ControlOfThreadStep
  <2>. QED  BY <2>2, <2>3
<1>14. ASSUME NEW r \in Run, NEW k \in Attempt, NEW outcome \in {"error", "transient"},
              Raise(r, k, outcome)
       PROVE  Control'
  BY <1>14, ControlOfEnd DEF Raise, rowVars
<1>15. ASSUME NEW w \in Worker, Crash(w) PROVE Control'
  BY <1>15, ControlOfCrash
<1>16. ASSUME NEW w \in Worker, Restart(w) PROVE Control'
  BY <1>16, ControlOfRestart
<1>17. CASE UNCHANGED vars
  BY <1>17 DEF vars, rowVars, processVars, Control, ThreadsKnown, LoopsWait, Fenced, Owned
<1>. QED
  BY <1>1, <1>2, <1>3, <1>4, <1>5, <1>6, <1>7, <1>8, <1>9, <1>10, <1>11, <1>12,
     <1>13, <1>14, <1>15, <1>16, <1>17
  DEF Next, ApiStep, WorkerStep, ThreadStep

\* A cancelled run is neither claimed nor owned, so its status stays.
LEMMA CancelledStep == TypeOK /\ CancelledStays /\ [Next]_vars => CancelledStays'
<1> SUFFICES ASSUME TypeOK, CancelledStays, [Next]_vars PROVE CancelledStays'
  OBVIOUS
<1> USE DEF CancelledStays, TypeOK
<1>1. ASSUME NEW r \in Run, Enqueue(r) PROVE CancelledStays'
  BY <1>1 DEF Enqueue
<1>2. ASSUME NEW r \in Run, Cancel(r) PROVE CancelledStays'
  BY <1>2 DEF Cancel
<1>3. ASSUME NEW r \in Run, LeaseExpires(r) \/ RetryComesDue(r) PROVE CancelledStays'
  BY <1>3 DEF LeaseExpires, RetryComesDue
<1>4. ASSUME NEW r \in Run, NEW w \in Worker, Claim(w, r) PROVE CancelledStays'
  BY <1>4 DEF Claim, Claimable
<1>5. ASSUME NEW r \in Run, NEW k \in Attempt,
             \/ Launch(r, k) \/ Dismiss(r, k) \/ Return(r, k)
             \/ \E s \in Checkpointed : SkipStep(r, k, s)
             \/ \E outcome \in {"error", "transient"} : Raise(r, k, outcome)
      PROVE  CancelledStays'
  BY <1>5 DEF Launch, Dismiss, Return, SkipStep, Raise, rowVars
<1>6. ASSUME NEW r \in Run, NEW k \in Attempt, Heartbeat(r, k) PROVE CancelledStays'
  BY <1>6 DEF Heartbeat
<1>7. ASSUME NEW r \in Run, NEW k \in Attempt, Complete(r, k) PROVE CancelledStays'
  BY <1>7 DEF Complete, Owned
<1>8. ASSUME NEW r \in Run, NEW k \in Attempt, NEW retryable \in BOOLEAN,
             Fail(r, k, retryable)
      PROVE  CancelledStays'
  BY <1>8 DEF Fail, Owned
<1>9. ASSUME NEW r \in Run, NEW k \in Attempt, NEW s \in Checkpointed,
             SaveCheckpoint(r, k, s)
      PROVE  CancelledStays'
  BY <1>9 DEF SaveCheckpoint
<1>10. ASSUME NEW w \in Worker, Crash(w) \/ Restart(w) PROVE CancelledStays'
  BY <1>10 DEF Crash, Restart, rowVars
<1>11. CASE UNCHANGED vars
  BY <1>11 DEF vars, rowVars
<1>. QED
  BY <1>1, <1>2, <1>3, <1>4, <1>5, <1>6, <1>7, <1>8, <1>9, <1>10, <1>11
  DEF Next, ApiStep, WorkerStep, ThreadStep

-----------------------------------------------------------------------------
\* The control invariant of every behaviour.
THEOREM ControlHolds ==
  ASSUME MaxAttempts <= 2
  PROVE  Spec => [](TypeOK /\ Control /\ CancelledStays)
<1>1. Init => TypeOK /\ Control /\ CancelledStays
  <2> SUFFICES ASSUME Init PROVE TypeOK /\ Control /\ CancelledStays
    OBVIOUS
  <2>1. TypeOK
    BY ConstantsOK, NoOutputType, NoThreadType DEF Init, TypeOK, Status, Output
  <2>2. \A r \in Run, k \in Attempt : thread[r][k] = NoThread
    BY DEF Init
  <2>3. NoThread.pc = "none" /\ ~NoThread.attached
    BY DEF NoThread
  <2>4. Control
    BY <2>2, <2>3 DEF Control, ThreadsKnown, LoopsWait, Fenced
  <2>5. CancelledStays
    BY DEF Init, CancelledStays
  <2>. QED  BY <2>1, <2>4, <2>5
<1>2. TypeOK /\ Control /\ CancelledStays /\ [Next]_vars
      => (TypeOK /\ Control /\ CancelledStays)'
  BY TypeStep, ControlStep, CancelledStep
<1>. QED  BY <1>1, <1>2, PTL DEF Spec

\* With the attempt limit of the code no thread but the one its main loop waits
\* on passes the lease check of heartbeat, complete, fail or a checkpoint.
THEOREM LateThreadsAreFenced ==
  ASSUME MaxAttempts <= 2
  PROVE  Spec => []StaleThreadsAreFenced
<1>1. Control => StaleThreadsAreFenced
  BY DEF Control, Fenced, StaleThreadsAreFenced, Owned, Terminal
<1>. QED  BY <1>1, ControlHolds, PTL

\* After a cancellation nothing is accepted for the run, and its status and
\* result stay.
THEOREM CancellationHolds ==
  Spec => CancellationWins
<1>1. Init => TypeOK /\ CancelledStays
  BY ConstantsOK, NoOutputType, NoThreadType
  DEF Init, TypeOK, Status, Output, CancelledStays
<1>2. TypeOK /\ CancelledStays /\ [Next]_vars => (TypeOK /\ CancelledStays)'
  BY TypeStep, CancelledStep
<1>3. CancelledStays /\ TypeOK /\ [Next]_vars =>
        [\A r \in Run : cancelRequested[r] =>
           /\ status'[r] = "CANCELLED"
           /\ result'[r] = result[r]
           /\ accepted'[r] = accepted[r]]_vars
  <2> SUFFICES ASSUME CancelledStays, TypeOK, Next, NEW q \in Run, cancelRequested[q]
               PROVE  /\ status'[q] = "CANCELLED"
                      /\ result'[q] = result[q]
                      /\ accepted'[q] = accepted[q]
    OBVIOUS
  <2>1. status[q] = "CANCELLED"
    BY DEF CancelledStays
  <2>2. ASSUME NEW r \in Run, ApiStep(r)
        PROVE  status'[q] = "CANCELLED" /\ UNCHANGED <<result, accepted>>
    BY <2>1, <2>2 DEF ApiStep, Enqueue, Cancel, TypeOK
  <2>3. ASSUME NEW r \in Run, NEW w \in Worker, Claim(w, r)
        PROVE  status'[q] = "CANCELLED" /\ UNCHANGED <<result, accepted>>
    BY <2>1, <2>3 DEF Claim, Claimable, TypeOK
  <2>4. ASSUME NEW r \in Run, NEW k \in Attempt, WorkerStep(r, k)
        PROVE  /\ status'[q] = "CANCELLED"
               /\ result'[q] = result[q]
               /\ accepted'[q] = accepted[q]
    <3>1. CASE Launch(r, k) \/ Heartbeat(r, k) \/ Dismiss(r, k)
      BY <2>1, <3>1 DEF Launch, Heartbeat, Dismiss, rowVars
    <3>2. CASE Complete(r, k)
      BY <2>1, <3>2 DEF Complete, Owned, TypeOK
    <3>3. CASE \E retryable \in BOOLEAN : Fail(r, k, retryable)
      BY <2>1, <3>3 DEF Fail, Owned, TypeOK
    <3>. QED  BY <2>4, <3>1, <3>2, <3>3 DEF WorkerStep
  <2>5. ASSUME NEW r \in Run, NEW k \in Attempt, ThreadStep(r, k)
        PROVE  /\ status'[q] = "CANCELLED"
               /\ result'[q] = result[q]
               /\ accepted'[q] = accepted[q]
    <3>1. CASE \/ Return(r, k)
               \/ \E s \in Checkpointed : SkipStep(r, k, s)
               \/ \E outcome \in {"error", "transient"} : Raise(r, k, outcome)
      BY <2>1, <3>1 DEF Return, SkipStep, Raise, rowVars
    <3>2. ASSUME NEW s \in Checkpointed, SaveCheckpoint(r, k, s)
          PROVE  /\ status'[q] = "CANCELLED"
                 /\ result'[q] = result[q]
                 /\ accepted'[q] = accepted[q]
      BY <2>1, <3>2 DEF SaveCheckpoint, Owned, TypeOK
    <3>. QED  BY <2>5, <3>1, <3>2 DEF ThreadStep
  <2>. QED  BY <2>1, <2>2, <2>3, <2>4, <2>5
       DEF Next, LeaseExpires, RetryComesDue, Crash, Restart, rowVars
<1>. QED  BY <1>1, <1>2, <1>3, PTL DEF Spec, CancellationWins

-----------------------------------------------------------------------------
\* Main loops: for every attempt limit

\* The main loop of w waits on the thread of claim k of r.
Watches(w, r, k) == thread[r][k].attached /\ thread[r][k].worker = w

\* A thread somebody waits on belongs to a claim that was made.
WatchedKnown ==
  \A r \in Run, k \in Attempt : thread[r][k].attached =>
    k <= attemptNo[r] /\ thread[r][k].worker \in Worker

\* OneThreadPerMainLoop, said of the claims one by one.
Once(w) ==
  IF mode[w] = "busy"
  THEN \E q \in Run, j \in Attempt :
         \A r \in Run, k \in Attempt : Watches(w, r, k) <=> r = q /\ k = j
  ELSE \A r \in Run, k \in Attempt : ~Watches(w, r, k)

OneWatched == \A w \in Worker : Once(w)

Watching == WatchedKnown /\ OneWatched

LEMMA WatchingIsWaiting == OneWatched => OneThreadPerMainLoop
<1> SUFFICES ASSUME OneWatched, NEW w \in Worker
             PROVE  LET waiting == {c \in Run \X Attempt :
                                      /\ thread[c[1]][c[2]].attached
                                      /\ thread[c[1]][c[2]].worker = w}
                    IN IF mode[w] = "busy" THEN \E c \in waiting : waiting = {c}
                                           ELSE waiting = {}
  BY DEF OneThreadPerMainLoop
<1> DEFINE waiting == {c \in Run \X Attempt : /\ thread[c[1]][c[2]].attached
                                              /\ thread[c[1]][c[2]].worker = w}
<1>1. \A c \in Run \X Attempt : c \in waiting <=> Watches(w, c[1], c[2])
  BY DEF Watches
<1>2. CASE mode[w] = "busy"
  <2>1. PICK q \in Run, j \in Attempt :
          \A r \in Run, k \in Attempt : Watches(w, r, k) <=> r = q /\ k = j
    BY <1>2 DEF OneWatched, Once
  <2>2. <<q, j>> \in Run \X Attempt /\ \A c \in Run \X Attempt : c = <<c[1], c[2]>>
    OBVIOUS
  <2>3. \A c \in Run \X Attempt : c \in waiting <=> c = <<q, j>>
    BY <1>1, <2>1, <2>2
  <2>4. waiting = {<<q, j>>}
    BY <2>2, <2>3
  <2>. QED  BY <1>2, <2>4
<1>3. CASE mode[w] # "busy"
  <2>1. \A r \in Run, k \in Attempt : ~Watches(w, r, k)
    BY <1>3 DEF OneWatched, Once
  <2>2. waiting = {}
    BY <1>1, <2>1
  <2>. QED  BY <1>3, <2>2
<1>. QED  BY <1>2, <1>3

LEMMA OnceKept ==
  ASSUME NEW w \in Worker, Once(w), mode'[w] = mode[w],
         \A r \in Run, k \in Attempt : Watches(w, r, k)' <=> Watches(w, r, k)
  PROVE  Once(w)'
<1>1. CASE mode[w] = "busy"
  <2>1. PICK q \in Run, j \in Attempt :
          \A r \in Run, k \in Attempt : Watches(w, r, k) <=> r = q /\ k = j
    BY <1>1 DEF Once
  <2>2. \A r \in Run, k \in Attempt : Watches(w, r, k)' <=> r = q /\ k = j
    BY <2>1
  <2>. QED  BY <1>1, <2>2 DEF Once
<1>2. CASE mode[w] # "busy"
  <2>1. \A r \in Run, k \in Attempt : ~Watches(w, r, k)
    BY <1>2 DEF Once
  <2>2. \A r \in Run, k \in Attempt : ~Watches(w, r, k)'
    BY <2>1
  <2>. QED  BY <1>2, <2>2 DEF Once
<1>. QED  BY <1>1, <1>2

\* A step after which every main loop waits as before.
LEMMA WatchingKept ==
  ASSUME TypeOK, Watching, UNCHANGED <<attemptNo, mode>>,
         \A r \in Run, k \in Attempt :
           /\ thread'[r][k].attached <=> thread[r][k].attached
           /\ thread[r][k].attached => thread'[r][k].worker = thread[r][k].worker
  PROVE  Watching'
<1>1. WatchedKnown'
  BY DEF Watching, WatchedKnown
<1>2. \A w \in Worker, r \in Run, k \in Attempt : Watches(w, r, k)' <=> Watches(w, r, k)
  BY DEF Watches
<1>3. OneWatched'
  BY <1>2, OnceKept DEF Watching, OneWatched
<1>. QED  BY <1>1, <1>3 DEF Watching

\* A step of one thread that does not change who waits on it.
LEMMA WatchingOfThread ==
  ASSUME TypeOK, Watching, UNCHANGED <<attemptNo, mode>>, NEW r \in Run, NEW k \in Attempt,
         NEW t, thread' = [thread EXCEPT ![r][k] = t],
         t.attached <=> thread[r][k].attached,
         thread[r][k].attached => t.worker = thread[r][k].worker
  PROVE  Watching'
<1>1. /\ thread'[r][k] = t
      /\ \A q \in Run, j \in Attempt :
           q # r \/ j # k => thread'[q][j] = thread[q][j]
  BY DEF TypeOK
<1>. QED  BY <1>1, WatchingKept

LEMMA WatchingOfEnd ==
  ASSUME TypeOK, Watching, UNCHANGED <<attemptNo, mode>>, NEW r \in Run, NEW k \in Attempt,
         NEW p, EndThread(r, k, p)
  PROVE  Watching'
<1> DEFINE t == IF thread[r][k].attached THEN [thread[r][k] EXCEPT !.pc = p] ELSE NoThread
<1>1. thread' = [thread EXCEPT ![r][k] = t]
  BY DEF EndThread
<1>2. thread[r][k] \in Thread
  BY DEF TypeOK
<1>3. t.attached <=> thread[r][k].attached
  BY <1>2 DEF Thread, NoThread
<1>4. thread[r][k].attached => t.worker = thread[r][k].worker
  BY <1>2 DEF Thread
<1>. QED  BY <1>1, <1>3, <1>4, WatchingOfThread

\* A main loop lets go of the one thread it waited on and is busy no more.
LEMMA WatchingOfAbandon ==
  ASSUME TypeOK, Watching, UNCHANGED attemptNo, NEW r \in Run, NEW k \in Attempt,
         NEW m \in {"polling", "exited"}, thread[r][k].attached,
         Abandon(r, k), BackTo(r, k, m)
  PROVE  Watching'
<1>1. /\ \A q \in Run, j \in Attempt :
           q # r \/ j # k => thread'[q][j] = thread[q][j]
      /\ \/ thread'[r][k] = NoThread
         \/ thread'[r][k] = [thread[r][k] EXCEPT !.attached = FALSE]
  BY AbandonEffect DEF TypeOK
<1>2. thread[r][k] \in Thread
  BY DEF TypeOK
<1>3. ~thread'[r][k].attached
  BY <1>1, <1>2 DEF NoThread, Thread
<1>4. PICK w \in Worker : thread[r][k].worker = w
  BY DEF Watching, WatchedKnown
<1>5. /\ mode'[w] = m
      /\ \A v \in Worker : v # w => mode'[v] = mode[v]
  BY <1>4 DEF BackTo, TypeOK
<1>6. WatchedKnown'
  BY <1>1, <1>3 DEF Watching, WatchedKnown
<1>7. \A q \in Run, j \in Attempt : Watches(w, q, j) <=> q = r /\ j = k
  BY <1>4 DEF Watching, OneWatched, Once, Watches
<1>8. ASSUME NEW q \in Run, NEW j \in Attempt PROVE ~Watches(w, q, j)'
  <2>1. CASE q = r /\ j = k
    BY <1>3, <2>1 DEF Watches
  <2>2. CASE q # r \/ j # k
    <3>1. ~Watches(w, q, j) /\ thread'[q][j] = thread[q][j]
      BY <1>1, <1>7, <2>2
    <3>. QED  BY <3>1 DEF Watches
  <2>. QED  BY <2>1, <2>2
<1>9. \A v \in Worker : v # w =>
        \A q \in Run, j \in Attempt : Watches(v, q, j)' <=> Watches(v, q, j)
  BY <1>1, <1>3, <1>4 DEF Watches
<1>10. Once(w)'
  BY <1>5, <1>8 DEF Once
<1>11. \A v \in Worker : v # w => Once(v)'
  BY <1>5, <1>9, OnceKept DEF Watching, OneWatched
<1>. QED  BY <1>6, <1>10, <1>11 DEF Watching, OneWatched

LEMMA WatchingOfClaim ==
  ASSUME TypeOK, Watching, NEW r \in Run, NEW w \in Worker, Claim(w, r)
  PROVE  Watching'
<1> USE ConstantsOK
<1> DEFINE k == attemptNo[r] + 1
           t == [NoThread EXCEPT !.worker = w, !.attached = TRUE, !.pc = "claimed"]
<1>1. k \in Attempt /\ attemptNo[r] \in Nat /\ attemptNo'[r] = k
  BY DEF Claim, Claimable, Attempt, Output, TypeOK
<1>2. /\ thread'[r][k] = t
      /\ \A q \in Run, j \in Attempt :
           q # r \/ j # k => thread'[q][j] = thread[q][j]
  BY <1>1 DEF Claim, TypeOK
<1>3. t.worker = w /\ t.attached
  BY DEF NoThread
<1>4. /\ mode[w] = "polling" /\ mode'[w] = "busy"
      /\ \A v \in Worker : v # w => mode'[v] = mode[v]
      /\ \A q \in Run : q # r => attemptNo'[q] = attemptNo[q]
  BY DEF Claim, TypeOK
<1>5. ~thread[r][k].attached
  BY <1>1 DEF Watching, WatchedKnown
<1>6. WatchedKnown'
  <2> SUFFICES ASSUME NEW q \in Run, NEW j \in Attempt, thread'[q][j].attached
               PROVE  j <= attemptNo'[q] /\ thread'[q][j].worker \in Worker
    BY DEF WatchedKnown
  <2>1. CASE q = r /\ j = k
    <3>1. k <= k
      BY <1>1
    <3>. QED  BY <1>1, <1>2, <1>3, <2>1, <3>1
  <2>2. CASE q = r /\ j # k
    BY <1>1, <1>2, <2>2 DEF Watching, WatchedKnown, Attempt
  <2>3. CASE q # r
    BY <1>2, <1>4, <2>3 DEF Watching, WatchedKnown
  <2>. QED  BY <2>1, <2>2, <2>3
<1>7. \A q \in Run, j \in Attempt : ~Watches(w, q, j)
  BY <1>4 DEF Watching, OneWatched, Once
<1>8. ASSUME NEW q \in Run, NEW j \in Attempt
      PROVE  Watches(w, q, j)' <=> q = r /\ j = k
  <2>1. CASE q = r /\ j = k
    BY <1>2, <1>3, <2>1 DEF Watches
  <2>2. CASE q # r \/ j # k
    <3>1. ~Watches(w, q, j) /\ thread'[q][j] = thread[q][j]
      BY <1>2, <1>7, <2>2
    <3>. QED  BY <2>2, <3>1 DEF Watches
  <2>. QED  BY <2>1, <2>2
<1>9. \A v \in Worker : v # w =>
        \A q \in Run, j \in Attempt : Watches(v, q, j)' <=> Watches(v, q, j)
  BY <1>2, <1>3, <1>5 DEF Watches
<1>10. Once(w)'
  BY <1>1, <1>4, <1>8 DEF Once
<1>11. \A v \in Worker : v # w => Once(v)'
  BY <1>4, <1>9, OnceKept DEF Watching, OneWatched
<1>. QED  BY <1>6, <1>10, <1>11 DEF Watching, OneWatched

\* A process that stops takes its threads along.
LEMMA WatchingOfCrash ==
  ASSUME TypeOK, Watching, NEW w \in Worker, Crash(w)
  PROVE  Watching'
<1>1. /\ attemptNo' = attemptNo
      /\ mode'[w] = "exited"
      /\ \A v \in Worker : v # w => mode'[v] = mode[v]
  BY DEF Crash, rowVars, TypeOK
<1>2. \A q \in Run, j \in Attempt :
        IF thread[q][j].worker = w THEN thread'[q][j] = NoThread
                                   ELSE thread'[q][j] = thread[q][j]
  BY DEF Crash
<1>3. ~NoThread.attached
  BY DEF NoThread
<1>4. WatchedKnown'
  BY <1>1, <1>2, <1>3 DEF Watching, WatchedKnown
<1>5. \A q \in Run, j \in Attempt : ~Watches(w, q, j)'
  BY <1>2, <1>3 DEF Watches
<1>6. \A v \in Worker : v # w =>
        \A q \in Run, j \in Attempt : Watches(v, q, j)' <=> Watches(v, q, j)
  BY <1>2, <1>3 DEF Watches
<1>7. Once(w)'
  BY <1>1, <1>5 DEF Once
<1>8. \A v \in Worker : v # w => Once(v)'
  BY <1>1, <1>6, OnceKept DEF Watching, OneWatched
<1>. QED  BY <1>4, <1>7, <1>8 DEF Watching, OneWatched

LEMMA WatchingOfRestart ==
  ASSUME TypeOK, Watching, NEW w \in Worker, Restart(w)
  PROVE  Watching'
<1>1. /\ UNCHANGED <<attemptNo, thread>>
      /\ mode[w] = "exited" /\ mode'[w] = "polling"
      /\ \A v \in Worker : v # w => mode'[v] = mode[v]
  BY DEF Restart, rowVars, TypeOK
<1>2. WatchedKnown'
  BY <1>1 DEF Watching, WatchedKnown
<1>3. \A v \in Worker, q \in Run, j \in Attempt : Watches(v, q, j)' <=> Watches(v, q, j)
  BY <1>1 DEF Watches
<1>4. Once(w)'
  BY <1>1, <1>3 DEF Watching, OneWatched, Once
<1>5. \A v \in Worker : v # w => Once(v)'
  BY <1>1, <1>3, OnceKept DEF Watching, OneWatched
<1>. QED  BY <1>2, <1>4, <1>5 DEF Watching, OneWatched

LEMMA WatchingStep == TypeOK /\ Watching /\ [Next]_vars => Watching'
<1> SUFFICES ASSUME TypeOK, Watching, [Next]_vars PROVE Watching'
  OBVIOUS
<1>1. ASSUME NEW r \in Run, ApiStep(r) \/ LeaseExpires(r) \/ RetryComesDue(r)
      PROVE  Watching'
  BY <1>1, WatchingKept DEF ApiStep, Enqueue, Cancel, LeaseExpires, RetryComesDue, processVars
<1>2. ASSUME NEW r \in Run, NEW w \in Worker, Claim(w, r) PROVE Watching'
  BY <1>2, WatchingOfClaim
<1>3. ASSUME NEW r \in Run, NEW k \in Attempt, Launch(r, k) PROVE Watching'
  <2> DEFINE t == [thread[r][k] EXCEPT !.pc = "running", !.held = accepted[r]]
  <2>1. thread' = [thread EXCEPT ![r][k] = t] /\ thread[r][k] \in Thread
    BY <1>3 DEF Launch, TypeOK
  <2>2. t.attached <=> thread[r][k].attached
    BY ONLY <2>1 DEF Thread
  <2>3. t.worker = thread[r][k].worker
    BY ONLY <2>1 DEF Thread
  <2>4. UNCHANGED <<attemptNo, mode>>
    BY <1>3 DEF Launch, rowVars
  <2>. QED  BY <2>1, <2>2, <2>3, <2>4, WatchingOfThread
<1>4. ASSUME NEW r \in Run, NEW k \in Attempt, Heartbeat(r, k) PROVE Watching'
  <2>1. CASE UNCHANGED <<mode, thread>>
    BY <1>4, <2>1, WatchingKept DEF Heartbeat
  <2>2. CASE Abandon(r, k) /\ BackTo(r, k, "polling")
    BY <1>4, <2>2, WatchingOfAbandon DEF Heartbeat
  <2>. QED  BY <1>4, <2>1, <2>2 DEF Heartbeat
<1>5. ASSUME NEW r \in Run, NEW k \in Attempt, Complete(r, k) PROVE Watching'
  BY <1>5, WatchingOfAbandon DEF Complete
<1>6. ASSUME NEW r \in Run, NEW k \in Attempt, NEW retryable \in BOOLEAN,
             Fail(r, k, retryable)
      PROVE  Watching'
  <2>1. BackTo(r, k, "polling") \/ BackTo(r, k, "exited")
    BY <1>6 DEF Fail
  <2>. QED  BY <1>6, <2>1, WatchingOfAbandon DEF Fail
<1>7. ASSUME NEW r \in Run, NEW k \in Attempt, Dismiss(r, k) PROVE Watching'
  BY <1>7, WatchingOfAbandon DEF Dismiss, rowVars
<1>8. ASSUME NEW r \in Run, NEW k \in Attempt, NEW s \in Checkpointed,
             SaveCheckpoint(r, k, s)
      PROVE  Watching'
  <2> DEFINE t == [thread[r][k] EXCEPT !.held[s] = k]
  <2>1. UNCHANGED <<attemptNo, mode>> /\ thread[r][k] \in Thread
    BY <1>8 DEF SaveCheckpoint, TypeOK
  <2>2. CASE thread' = [thread EXCEPT ![r][k].held[s] = k]
    <3>1. thread' = [thread EXCEPT ![r][k] = t]
      BY <2>2
    <3>2. (t.attached <=> thread[r][k].attached) /\ t.worker = thread[r][k].worker
      BY <2>1 DEF Thread
    <3>. QED  BY <2>1, <3>1, <3>2, WatchingOfThread
  <2>3. CASE EndThread(r, k, "fenced")
    BY <2>1, <2>3, WatchingOfEnd
  <2>. QED  BY <1>8, <2>2, <2>3 DEF SaveCheckpoint
<1>9. ASSUME NEW r \in Run, NEW k \in Attempt, NEW s \in Checkpointed,
             SkipStep(r, k, s)
      PROVE  Watching'
  <2> DEFINE t == [thread[r][k] EXCEPT !.skipped = @ \cup {s}]
  <2>1. thread' = [thread EXCEPT ![r][k] = t] /\ thread[r][k] \in Thread
    BY <1>9 DEF SkipStep, TypeOK
  <2>2. (t.attached <=> thread[r][k].attached) /\ t.worker = thread[r][k].worker
    BY <2>1 DEF Thread
  <2>. QED  BY <1>9, <2>1, <2>2, WatchingOfThread DEF SkipStep, rowVars
<1>10. ASSUME NEW r \in Run, NEW k \in Attempt, Return(r, k) PROVE Watching'
  <2>1. UNCHANGED <<attemptNo, mode>> /\ thread[r][k] \in Thread
    BY <1>10 DEF Return, rowVars, TypeOK
  <2>2. CASE EndThread(r, k, "error")
    BY <2>1, <2>2, WatchingOfEnd
  <2>3. CASE ~EndThread(r, k, "error")
    <3> DEFINE h == [s \in Step |-> IF s \in Checkpointed
                                   THEN thread[r][k].held[s] ELSE k]
               t == IF thread[r][k].attached
                    THEN [thread[r][k] EXCEPT !.pc = "returned", !.held = h]
                    ELSE NoThread
    <3>1. thread' = [thread EXCEPT ![r][k] = t]
      BY <1>10, <2>3 DEF Return
    <3>2. t.attached <=> thread[r][k].attached
      BY <2>1 DEF Thread, NoThread
    <3>3. thread[r][k].attached => t.worker = thread[r][k].worker
      BY <2>1 DEF Thread
    <3>. QED  BY <2>1, <3>1, <3>2, <3>3, WatchingOfThread
  <2>. QED  BY <2>2, <2>3
<1>11. ASSUME NEW r \in Run, NEW k \in Attempt, NEW outcome \in {"error", "transient"},
              Raise(r, k, outcome)
       PROVE  Watching'
  BY <1>11, WatchingOfEnd DEF Raise, rowVars
<1>12. ASSUME NEW w \in Worker, Crash(w) \/ Restart(w) PROVE Watching'
  BY <1>12, WatchingOfCrash, WatchingOfRestart
<1>13. CASE UNCHANGED vars
  BY <1>13, WatchingKept DEF vars, rowVars, processVars
<1>. QED
  BY <1>1, <1>2, <1>3, <1>4, <1>5, <1>6, <1>7, <1>8, <1>9, <1>10, <1>11, <1>12, <1>13
  DEF Next, WorkerStep, ThreadStep

\* A busy main loop waits on exactly one thread and another on none, whatever
\* the attempt limit: no operation leaves a claim behind or takes two.
THEOREM MainLoopsWaitOnce == Spec => []OneThreadPerMainLoop
<1>1. Init => Watching
  <2>1. ~NoThread.attached
    BY DEF NoThread
  <2>. QED  BY <2>1 DEF Init, Watching, WatchedKnown, OneWatched, Once, Watches
<1>2. TypeOK /\ Watching /\ [Next]_vars => Watching'
  BY WatchingStep
<1>3. Watching => OneThreadPerMainLoop
  BY WatchingIsWaiting DEF Watching
<1>. QED  BY <1>1, <1>2, <1>3, TypeCorrect, PTL DEF Spec

-----------------------------------------------------------------------------
(* 3. Integrity of accepted outputs and results *)

\* The owner's thread holds every output accepted so far.
HoldsAccepted ==
  \A r \in Run, k \in Attempt :
    /\ thread[r][k].pc \in {"running", "returned"}
    /\ Owned(r, thread[r][k].worker)
    => \A s \in Step : accepted[r][s] # 0 => thread[r][k].held[s] = accepted[r][s]

\* Other steps than the checkpointed ones are accepted with the result.
AcceptedAtTheEnd ==
  \A r \in Run, s \in Step \ Checkpointed :
    status[r] \notin Terminal => accepted[r][s] = 0

\* A stored result is final and made of the accepted outputs.
ResultStands ==
  \A r \in Run : result[r] # NoOutput =>
    status[r] \in Terminal /\ result[r] = accepted[r]

\* The owner of a run has one thread at work: the one of the latest claim.
OneOwningThread ==
  \A r \in Run, k \in Attempt :
    /\ thread[r][k].pc # "none"
    /\ Owned(r, thread[r][k].worker)
    => k = attemptNo[r]

LEMMA ControlOwnsOnce == Control => OneOwningThread
  BY DEF Control, Fenced, OneOwningThread, Owned, Terminal

-----------------------------------------------------------------------------
\* HoldsAccepted, step by step

\* Steps of one thread that accept nothing: it ends, or it keeps what it holds.
LEMMA HoldsOfThreadStep ==
  ASSUME HoldsAccepted, NEW r \in Run, NEW k \in Attempt,
         UNCHANGED accepted,
         \A q \in Run : status'[q] # "RUNNING" \/ /\ status'[q] = status[q]
                                                  /\ leaseOwner'[q] = leaseOwner[q],
         \A q \in Run, j \in Attempt :
           q # r \/ j # k => thread'[q][j] = thread[q][j],
         \/ thread'[r][k].pc \notin {"running", "returned"}
         \/ /\ thread'[r][k].pc = thread[r][k].pc
            /\ thread'[r][k].worker = thread[r][k].worker
            /\ thread'[r][k].held = thread[r][k].held
  PROVE  HoldsAccepted'
  BY DEF HoldsAccepted, Owned

LEMMA HoldsOfAbandon ==
  ASSUME TypeOK, HoldsAccepted, NEW r \in Run, NEW k \in Attempt,
         UNCHANGED accepted,
         \A q \in Run : status'[q] # "RUNNING" \/ /\ status'[q] = status[q]
                                                  /\ leaseOwner'[q] = leaseOwner[q],
         Abandon(r, k)
  PROVE  HoldsAccepted'
<1>1. /\ \A q \in Run, j \in Attempt :
           q # r \/ j # k => thread'[q][j] = thread[q][j]
      /\ \/ thread'[r][k] = NoThread
         \/ thread'[r][k] = [thread[r][k] EXCEPT !.attached = FALSE]
  BY AbandonEffect DEF TypeOK
<1>2. thread[r][k] \in Thread
  BY DEF TypeOK
<1>3. \/ thread'[r][k].pc \notin {"running", "returned"}
      \/ /\ thread'[r][k].pc = thread[r][k].pc
         /\ thread'[r][k].worker = thread[r][k].worker
         /\ thread'[r][k].held = thread[r][k].held
  BY <1>1, <1>2 DEF Thread, NoThread
<1>. QED  BY <1>1, <1>3, HoldsOfThreadStep

LEMMA HoldsOfEnd ==
  ASSUME TypeOK, HoldsAccepted, NEW r \in Run, NEW k \in Attempt,
         NEW p \in {"error", "transient", "fenced"},
         UNCHANGED <<accepted, status, leaseOwner>>,
         EndThread(r, k, p)
  PROVE  HoldsAccepted'
<1>1. /\ \A q \in Run, j \in Attempt :
           q # r \/ j # k => thread'[q][j] = thread[q][j]
      /\ \/ thread'[r][k] = NoThread
         \/ thread'[r][k] = [thread[r][k] EXCEPT !.pc = p]
  BY EndThreadEffect DEF TypeOK
<1>2. thread[r][k] \in Thread
  BY DEF TypeOK
<1>3. thread'[r][k].pc \notin {"running", "returned"}
  BY <1>1, <1>2 DEF Thread, NoThread
<1>. QED  BY <1>1, <1>3, HoldsOfThreadStep

\* The checkpoints are read by the thread's own main loop before it starts.
LEMMA HoldsOfLaunch ==
  ASSUME TypeOK, HoldsAccepted, NEW r \in Run, NEW k \in Attempt, Launch(r, k)
  PROVE  HoldsAccepted'
<1> DEFINE t == [thread[r][k] EXCEPT !.pc = "running", !.held = accepted[r]]
<1>1. thread' = [thread EXCEPT ![r][k] = t]
  BY DEF Launch
<1>2. /\ thread'[r][k] = t
      /\ \A q \in Run, j \in Attempt :
           q # r \/ j # k => thread'[q][j] = thread[q][j]
  BY <1>1 DEF TypeOK
<1>3. thread[r][k] \in Thread
  BY DEF TypeOK
<1>4. thread'[r][k].held = accepted[r]
  BY ONLY <1>2, <1>3 DEF Thread
<1>5. UNCHANGED <<accepted, status, leaseOwner>>
  BY DEF Launch, rowVars
<1> HIDE DEF t
<1> SUFFICES ASSUME NEW q \in Run, NEW j \in Attempt,
                    thread'[q][j].pc \in {"running", "returned"},
                    Owned(q, thread'[q][j].worker),
                    NEW p \in Step, accepted[q][p] # 0
             PROVE  thread'[q][j].held[p] = accepted[q][p]
  BY <1>5 DEF HoldsAccepted, Owned
<1>6. CASE q = r /\ j = k
  BY <1>4, <1>6
<1>7. CASE q # r \/ j # k
  BY <1>2, <1>7 DEF HoldsAccepted
<1>. QED  BY <1>6, <1>7

\* A claim leaves one thread that passes the lease check, and it has not begun.
LEMMA HoldsOfClaim ==
  ASSUME TypeOK, HoldsAccepted, OneOwningThread', NEW r \in Run, NEW w \in Worker,
         Claim(w, r), ConstantsOK
  PROVE  HoldsAccepted'
<1> DEFINE k == attemptNo[r] + 1
           t == [NoThread EXCEPT !.worker = w, !.attached = TRUE, !.pc = "claimed"]
<1>1. k \in Attempt
  BY DEF Claim, Claimable, Attempt, Output, TypeOK, ConstantsOK
<1>2. thread' = [thread EXCEPT ![r][k] = t]
  BY DEF Claim
<1>3. /\ thread'[r][k] = t
      /\ \A q \in Run, j \in Attempt :
           q # r \/ j # k => thread'[q][j] = thread[q][j]
  BY <1>1, <1>2 DEF TypeOK
<1>4. thread'[r][k].pc = "claimed"
  BY <1>3 DEF NoThread
<1>5. /\ attemptNo'[r] = k
      /\ UNCHANGED accepted
      /\ \A q \in Run : q # r => status'[q] = status[q] /\ leaseOwner'[q] = leaseOwner[q]
  BY DEF Claim, TypeOK
<1> SUFFICES ASSUME NEW q \in Run, NEW j \in Attempt,
                    thread'[q][j].pc \in {"running", "returned"},
                    status'[q] = "RUNNING",
                    leaseOwner'[q] = thread'[q][j].worker,
                    NEW s \in Step, accepted'[q][s] # 0
             PROVE  thread'[q][j].held[s] = accepted'[q][s]
  BY DEF HoldsAccepted, Owned
<1>6. j = attemptNo'[q]
  BY DEF OneOwningThread, Owned
<1>7. q # r
  BY ONLY <1>4, <1>5, <1>6, thread'[q][j].pc \in {"running", "returned"}
<1>. QED  BY <1>3, <1>5, <1>7 DEF HoldsAccepted, Owned

\* Two threads of a run never both accept a step: the one that is not the
\* owner's is refused.
LEMMA HoldsOfSave ==
  ASSUME TypeOK, HoldsAccepted, OneOwningThread, NEW r \in Run, NEW k \in Attempt,
         NEW s \in Checkpointed, SaveCheckpoint(r, k, s), ConstantsOK
  PROVE  HoldsAccepted'
<1>1. thread[r][k].pc = "running" /\ UNCHANGED <<status, leaseOwner>>
  BY DEF SaveCheckpoint
<1>2. CASE /\ Owned(r, thread[r][k].worker)
           /\ accepted' = [accepted EXCEPT ![r][s] = k]
           /\ thread' = [thread EXCEPT ![r][k].held[s] = k]
  <2> DEFINE h == [thread[r][k].held EXCEPT ![s] = k]
             t == [thread[r][k] EXCEPT !.held = h]
  <2>1. s \in Step /\ thread[r][k] \in Thread
    BY DEF TypeOK, ConstantsOK
  <2>2. /\ thread'[r][k] = t
        /\ \A q \in Run, j \in Attempt :
             q # r \/ j # k => thread'[q][j] = thread[q][j]
    BY <1>2 DEF TypeOK
  <2>3. thread'[r][k].held = h
    BY ONLY <2>1, <2>2 DEF Thread
  <2>4. thread'[r][k].worker = thread[r][k].worker
    BY ONLY <2>1, <2>2 DEF Thread
  <2>5. thread[r][k].held \in [Step -> Output]
    BY <2>1 DEF Thread
  <2>6. /\ accepted'[r][s] = k
        /\ \A p \in Step : p # s => accepted'[r][p] = accepted[r][p]
        /\ \A q \in Run : q # r => accepted'[q] = accepted[q]
    BY <1>2, <2>1 DEF TypeOK
  <2> SUFFICES ASSUME NEW q \in Run, NEW j \in Attempt,
                      thread'[q][j].pc \in {"running", "returned"},
                      status[q] = "RUNNING",
                      leaseOwner[q] = thread'[q][j].worker,
                      NEW p \in Step, accepted'[q][p] # 0
               PROVE  thread'[q][j].held[p] = accepted'[q][p]
    BY <1>1 DEF HoldsAccepted, Owned
  <2>7. CASE q = r /\ j = k
    <3>1. CASE p = s
      BY <2>3, <2>5, <2>6, <2>7, <3>1
    <3>2. CASE p # s
      BY <1>1, <2>3, <2>4, <2>5, <2>6, <2>7, <3>2 DEF HoldsAccepted, Owned
    <3>. QED  BY <3>1, <3>2
  <2>8. CASE q = r /\ j # k
    <3>1. thread'[q][j] = thread[q][j]
      BY <2>2, <2>8
    <3>2. k = attemptNo[r]
      BY <1>1, <1>2 DEF OneOwningThread
    <3>3. j = attemptNo[r]
      BY <2>8, <3>1 DEF OneOwningThread, Owned
    <3>. QED  BY <2>8, <3>2, <3>3
  <2>9. CASE q # r
    BY <2>2, <2>6, <2>9 DEF HoldsAccepted, Owned
  <2>. QED  BY <2>7, <2>8, <2>9
<1>3. CASE EndThread(r, k, "fenced") /\ UNCHANGED accepted
  BY <1>1, <1>3, HoldsOfEnd
<1>. QED  BY <1>2, <1>3 DEF SaveCheckpoint

\* What the result adds to the checkpoints was not accepted before.
LEMMA HoldsOfReturn ==
  ASSUME TypeOK, HoldsAccepted, AcceptedAtTheEnd, NEW r \in Run, NEW k \in Attempt,
         Return(r, k), ConstantsOK
  PROVE  HoldsAccepted'
<1>1. thread[r][k].pc = "running" /\ UNCHANGED <<status, leaseOwner, accepted>>
  BY DEF Return, rowVars
<1>2. CASE EndThread(r, k, "error")
  BY <1>1, <1>2, HoldsOfEnd
<1>3. CASE ~EndThread(r, k, "error")
  <2> DEFINE h == [s \in Step |-> IF s \in Checkpointed THEN thread[r][k].held[s] ELSE k]
             t == IF thread[r][k].attached
                  THEN [thread[r][k] EXCEPT !.pc = "returned", !.held = h]
                  ELSE NoThread
  <2>1. thread' = [thread EXCEPT ![r][k] = t]
    BY <1>3 DEF Return
  <2>2. /\ thread'[r][k] = t
        /\ \A q \in Run, j \in Attempt :
             q # r \/ j # k => thread'[q][j] = thread[q][j]
    BY <2>1 DEF TypeOK
  <2>3. thread[r][k] \in Thread
    BY DEF TypeOK
  <2>4. \/ thread'[r][k] = NoThread
        \/ thread'[r][k].held = h
    BY ONLY <2>2, <2>3 DEF Thread
  <2>5. \/ thread'[r][k] = NoThread
        \/ thread'[r][k].worker = thread[r][k].worker
    BY ONLY <2>2, <2>3 DEF Thread
  <2>6. NoThread.pc = "none"
    BY DEF NoThread
  <2> SUFFICES ASSUME NEW q \in Run, NEW j \in Attempt,
                      thread'[q][j].pc \in {"running", "returned"},
                      status[q] = "RUNNING",
                      leaseOwner[q] = thread'[q][j].worker,
                      NEW p \in Step, accepted[q][p] # 0
               PROVE  thread'[q][j].held[p] = accepted[q][p]
    BY <1>1 DEF HoldsAccepted, Owned
  <2>7. CASE q = r /\ j = k
    <3>1. p \in Checkpointed
      BY <2>7 DEF AcceptedAtTheEnd, Terminal
    <3>2. thread'[r][k].held[p] = thread[r][k].held[p]
      BY <2>4, <2>6, <2>7, <3>1
    <3>. QED  BY <1>1, <2>5, <2>6, <2>7, <3>2 DEF HoldsAccepted, Owned
  <2>8. CASE q # r \/ j # k
    BY <2>2, <2>8 DEF HoldsAccepted, Owned
  <2>. QED  BY <2>7, <2>8
<1>. QED  BY <1>2, <1>3

LEMMA HoldsStep ==
  ASSUME TypeOK, OneOwningThread, OneOwningThread', HoldsAccepted, AcceptedAtTheEnd,
         ResultStands, [Next]_vars
  PROVE  HoldsAccepted'
<1> USE ConstantsOK
<1>1. ASSUME NEW r \in Run, \/ Enqueue(r) \/ Cancel(r)
                            \/ LeaseExpires(r) \/ RetryComesDue(r)
      PROVE  HoldsAccepted'
  <2>1. /\ UNCHANGED <<accepted, thread>>
        /\ \A q \in Run : status'[q] # "RUNNING" \/ /\ status'[q] = status[q]
                                                    /\ leaseOwner'[q] = leaseOwner[q]
    BY <1>1 DEF Enqueue, Cancel, ReleaseLease, LeaseExpires, RetryComesDue,
                processVars, TypeOK
  <2>. QED  BY <2>1 DEF HoldsAccepted, Owned
<1>2. ASSUME NEW r \in Run, NEW w \in Worker, Claim(w, r) PROVE HoldsAccepted'
  BY <1>2, HoldsOfClaim
<1>3. ASSUME NEW r \in Run, NEW k \in Attempt, Launch(r, k) PROVE HoldsAccepted'
  BY <1>3, HoldsOfLaunch
<1>4. ASSUME NEW r \in Run, NEW k \in Attempt, Heartbeat(r, k) PROVE HoldsAccepted'
  <2>1. UNCHANGED <<status, leaseOwner, accepted>>
    BY <1>4 DEF Heartbeat
  <2>2. CASE UNCHANGED thread
    BY <2>1, <2>2 DEF HoldsAccepted, Owned
  <2>3. CASE Abandon(r, k)
    BY <2>1, <2>3, HoldsOfAbandon
  <2>. QED  BY <1>4, <2>2, <2>3 DEF Heartbeat
<1>5. ASSUME NEW r \in Run, NEW k \in Attempt, Complete(r, k) PROVE HoldsAccepted'
  <2>1. CASE UNCHANGED <<status, leaseOwner, accepted>>
    BY <1>5, <2>1, HoldsOfAbandon DEF Complete
  <2>2. CASE status' = [status EXCEPT ![r] = IF thread[r][k].skipped # {}
                                             THEN "PARTIALLY_COMPLETED"
                                             ELSE "COMPLETED"]
    <3>1. /\ \A q \in Run : q # r => /\ status'[q] = status[q]
                                    /\ leaseOwner'[q] = leaseOwner[q]
                                    /\ accepted'[q] = accepted[q]
          /\ status'[r] # "RUNNING"
      BY <1>5, <2>2 DEF Complete, ReleaseLease, TypeOK
    <3>2. \A q \in Run, j \in Attempt : q # r => thread'[q][j] = thread[q][j]
      <4>1. Abandon(r, k) /\ thread \in [Run -> [Attempt -> Thread]]
        BY <1>5 DEF Complete, TypeOK
      <4>2. \A q \in Run, j \in Attempt :
              q # r \/ j # k => thread'[q][j] = thread[q][j]
        BY ONLY <4>1, AbandonEffect, r \in Run, k \in Attempt
      <4>. QED  BY ONLY <4>2
    <3>. QED  BY <3>1, <3>2 DEF HoldsAccepted, Owned
  <2>. QED  BY <1>5, <2>1, <2>2 DEF Complete
<1>6. ASSUME NEW r \in Run, NEW k \in Attempt, NEW retryable \in BOOLEAN,
             Fail(r, k, retryable)
      PROVE  HoldsAccepted'
  <2>1. /\ UNCHANGED accepted
        /\ \A q \in Run : status'[q] # "RUNNING" \/ /\ status'[q] = status[q]
                                                    /\ leaseOwner'[q] = leaseOwner[q]
        /\ Abandon(r, k)
    BY <1>6 DEF Fail, ReleaseLease, TypeOK
  <2>. QED  BY <2>1, HoldsOfAbandon
<1>7. ASSUME NEW r \in Run, NEW k \in Attempt, Dismiss(r, k) PROVE HoldsAccepted'
  BY <1>7, HoldsOfAbandon DEF Dismiss, rowVars
<1>8. ASSUME NEW r \in Run, NEW k \in Attempt, NEW s \in Checkpointed,
             SaveCheckpoint(r, k, s)
      PROVE  HoldsAccepted'
  BY <1>8, HoldsOfSave
<1>9. ASSUME NEW r \in Run, NEW k \in Attempt, NEW s \in Checkpointed,
             SkipStep(r, k, s)
      PROVE  HoldsAccepted'
  <2> DEFINE t == [thread[r][k] EXCEPT !.skipped = @ \cup {s}]
  <2>1. thread' = [thread EXCEPT ![r][k] = t] /\ thread[r][k] \in Thread
    BY <1>9 DEF SkipStep, TypeOK
  <2>2. /\ thread'[r][k] = t
        /\ \A q \in Run, j \in Attempt :
             q # r \/ j # k => thread'[q][j] = thread[q][j]
    BY <2>1 DEF TypeOK
  <2>3. /\ thread'[r][k].pc = thread[r][k].pc
        /\ thread'[r][k].worker = thread[r][k].worker
        /\ thread'[r][k].held = thread[r][k].held
    BY <2>1, <2>2 DEF Thread
  <2>. QED  BY <1>9, <2>2, <2>3, HoldsOfThreadStep DEF SkipStep, rowVars
<1>10. ASSUME NEW r \in Run, NEW k \in Attempt, Return(r, k) PROVE HoldsAccepted'
  BY <1>10, HoldsOfReturn
<1>11. ASSUME NEW r \in Run, NEW k \in Attempt, NEW outcome \in {"error", "transient"},
              Raise(r, k, outcome)
       PROVE  HoldsAccepted'
  BY <1>11, HoldsOfEnd DEF Raise, rowVars
<1>12. ASSUME NEW w \in Worker, Crash(w) PROVE HoldsAccepted'
  <2>1. UNCHANGED <<accepted, status, leaseOwner>>
    BY <1>12 DEF Crash, rowVars
  <2>2. \A q \in Run, j \in Attempt :
          thread'[q][j] = NoThread \/ thread'[q][j] = thread[q][j]
    BY <1>12 DEF Crash
  <2>3. NoThread.pc = "none"
    BY DEF NoThread
  <2>. QED  BY <2>1, <2>2, <2>3 DEF HoldsAccepted, Owned
<1>13. ASSUME NEW w \in Worker, Restart(w) PROVE HoldsAccepted'
  BY <1>13 DEF Restart, rowVars, HoldsAccepted, Owned
<1>14. CASE UNCHANGED vars
  BY <1>14 DEF vars, rowVars, processVars, HoldsAccepted, Owned
<1>. QED
  BY <1>1, <1>2, <1>3, <1>4, <1>5, <1>6, <1>7, <1>8, <1>9, <1>10, <1>11, <1>12,
     <1>13, <1>14
  DEF Next, ApiStep, WorkerStep, ThreadStep

-----------------------------------------------------------------------------
\* AcceptedAtTheEnd and ResultStands: what writes status, result and accepted

\* The steps that write none of the three, or move the status of a run that
\* has no result to a status that is not final, or make it final.
LEMMA ResultOfRows ==
  ASSUME AcceptedAtTheEnd, ResultStands, UNCHANGED <<result, accepted>>,
         \A q \in Run : status[q] \in Terminal => status'[q] \in Terminal
  PROVE  AcceptedAtTheEnd' /\ ResultStands'
  BY DEF AcceptedAtTheEnd, ResultStands

LEMMA ResultOfSave ==
  ASSUME TypeOK, AcceptedAtTheEnd, ResultStands, NEW r \in Run, NEW k \in Attempt,
         NEW s \in Checkpointed, SaveCheckpoint(r, k, s), ConstantsOK
  PROVE  AcceptedAtTheEnd' /\ ResultStands'
<1>1. UNCHANGED <<status, result>>
  BY DEF SaveCheckpoint
<1>2. CASE UNCHANGED accepted
  BY <1>1, <1>2, ResultOfRows
<1>3. CASE Owned(r, thread[r][k].worker) /\ accepted' = [accepted EXCEPT ![r][s] = k]
  <2>1. /\ \A q \in Run : q # r => accepted'[q] = accepted[q]
        /\ \A p \in Step : p # s => accepted'[r][p] = accepted[r][p]
    BY <1>3 DEF TypeOK, ConstantsOK
  <2>2. AcceptedAtTheEnd'
    BY <1>1, <2>1 DEF AcceptedAtTheEnd
  <2>3. result[r] = NoOutput
    BY <1>3 DEF ResultStands, Owned, Terminal
  <2>4. ResultStands'
    BY <1>1, <2>1, <2>3 DEF ResultStands
  <2>. QED  BY <2>2, <2>4
<1>. QED  BY <1>2, <1>3 DEF SaveCheckpoint

\* complete writes the result and the steps that make it up together.
LEMMA ResultOfComplete ==
  ASSUME TypeOK, AcceptedAtTheEnd, ResultStands, HoldsAccepted,
         NEW r \in Run, NEW k \in Attempt, Complete(r, k)
  PROVE  AcceptedAtTheEnd' /\ ResultStands'
<1> DEFINE h == thread[r][k].held
<1>1. CASE UNCHANGED <<status, result, accepted>>
  BY <1>1, ResultOfRows
<1>2. CASE /\ Owned(r, thread[r][k].worker)
           /\ status' = [status EXCEPT ![r] = IF thread[r][k].skipped # {}
                                             THEN "PARTIALLY_COMPLETED"
                                             ELSE "COMPLETED"]
           /\ result' = [result EXCEPT ![r] = h]
           /\ accepted' = [accepted EXCEPT ![r] =
                             [s \in Step |-> IF h[s] # 0 THEN h[s] ELSE accepted[r][s]]]
  <2>1. h \in [Step -> Output]
    BY DEF TypeOK, Thread
  <2>2. /\ status'[r] \in Terminal
        /\ result'[r] = h
        /\ accepted'[r] = [s \in Step |-> IF h[s] # 0 THEN h[s] ELSE accepted[r][s]]
        /\ \A q \in Run : q # r => /\ status'[q] = status[q]
                                  /\ result'[q] = result[q]
                                  /\ accepted'[q] = accepted[q]
    BY <1>2 DEF TypeOK, Terminal
  <2>3. \A s \in Step : h[s] = 0 => accepted[r][s] = 0
    BY <1>2 DEF HoldsAccepted, Complete
  <2>4. accepted'[r] = h
    BY ONLY <2>1, <2>2, <2>3
  <2>5. AcceptedAtTheEnd'
    BY <2>2 DEF AcceptedAtTheEnd
  <2>6. ResultStands'
    BY <2>2, <2>4 DEF ResultStands
  <2>. QED  BY <2>5, <2>6
<1>. QED  BY <1>1, <1>2 DEF Complete

LEMMA ResultStep ==
  ASSUME TypeOK, HoldsAccepted, AcceptedAtTheEnd, ResultStands, [Next]_vars
  PROVE  AcceptedAtTheEnd' /\ ResultStands'
<1> DEFINE Goal == AcceptedAtTheEnd' /\ ResultStands'
<1> USE ConstantsOK
<1>1. ASSUME NEW r \in Run, \/ Enqueue(r) \/ Cancel(r)
                            \/ LeaseExpires(r) \/ RetryComesDue(r)
                            \/ \E w \in Worker : Claim(w, r)
      PROVE  Goal
  <2>1. /\ UNCHANGED <<result, accepted>>
        /\ \A q \in Run : status[q] \in Terminal => status'[q] \in Terminal
    BY <1>1 DEF Enqueue, Cancel, LeaseExpires, RetryComesDue, Claim, Claimable,
                Terminal, TypeOK
  <2>. QED  BY <2>1, ResultOfRows
<1>2. ASSUME NEW r \in Run, NEW k \in Attempt,
             \/ Launch(r, k) \/ Heartbeat(r, k) \/ Dismiss(r, k) \/ Return(r, k)
             \/ \E s \in Checkpointed : SkipStep(r, k, s)
             \/ \E outcome \in {"error", "transient"} : Raise(r, k, outcome)
      PROVE  Goal
  <2>1. UNCHANGED <<result, accepted, status>>
    BY <1>2 DEF Launch, Heartbeat, Dismiss, Return, SkipStep, Raise, rowVars
  <2>. QED  BY <2>1, ResultOfRows
<1>3. ASSUME NEW r \in Run, NEW k \in Attempt, NEW retryable \in BOOLEAN,
             Fail(r, k, retryable)
      PROVE  Goal
  <2>1. /\ UNCHANGED <<result, accepted>>
        /\ \A q \in Run : status[q] \in Terminal => status'[q] \in Terminal
    BY <1>3 DEF Fail, Owned, Terminal, TypeOK
  <2>. QED  BY <2>1, ResultOfRows
<1>4. ASSUME NEW r \in Run, NEW k \in Attempt, Complete(r, k) PROVE Goal
  BY <1>4, ResultOfComplete
<1>5. ASSUME NEW r \in Run, NEW k \in Attempt, NEW s \in Checkpointed,
             SaveCheckpoint(r, k, s)
      PROVE  Goal
  BY <1>5, ResultOfSave
<1>6. ASSUME NEW w \in Worker, Crash(w) \/ Restart(w) PROVE Goal
  <2>1. UNCHANGED <<result, accepted, status>>
    BY <1>6 DEF Crash, Restart, rowVars
  <2>. QED  BY <2>1, ResultOfRows
<1>7. CASE UNCHANGED vars
  BY <1>7, ResultOfRows DEF vars, rowVars
<1>. QED
  BY <1>1, <1>2, <1>3, <1>4, <1>5, <1>6, <1>7
  DEF Next, ApiStep, WorkerStep, ThreadStep

-----------------------------------------------------------------------------
Integrity == HoldsAccepted /\ AcceptedAtTheEnd /\ ResultStands

\* The integrity invariant of every behaviour.
THEOREM IntegrityHolds ==
  ASSUME MaxAttempts <= 2
  PROVE  Spec => [](TypeOK /\ Integrity)
<1>1. Init => Integrity
  <2> SUFFICES ASSUME Init PROVE Integrity
    OBVIOUS
  <2>1. \A r \in Run, k \in Attempt : thread[r][k].pc = "none"
    BY DEF Init, NoThread
  <2>2. \A r \in Run, s \in Step : accepted[r][s] = 0
    BY DEF Init, NoOutput
  <2>3. \A r \in Run : result[r] = NoOutput
    BY DEF Init
  <2>. QED  BY <2>1, <2>2, <2>3
       DEF Integrity, HoldsAccepted, AcceptedAtTheEnd, ResultStands
<1>2. TypeOK /\ Control /\ Control' /\ Integrity /\ [Next]_vars => Integrity'
  <2>1. Control' => OneOwningThread'
    BY ControlOwnsOnce, PTL
  <2>. QED  BY <2>1, ControlOwnsOnce, HoldsStep, ResultStep DEF Integrity
<1>. QED  BY <1>1, <1>2, ControlHolds, PTL DEF Spec

\* A thread that owns its run never works on a step that has an accepted output.
THEOREM CheckpointsAreReused ==
  ASSUME MaxAttempts <= 2
  PROVE  Spec => []AcceptedStepsAreNotRepeated
<1>1. TypeOK /\ Integrity => AcceptedStepsAreNotRepeated
  BY ConstantsOK
  DEF TypeOK, Integrity, HoldsAccepted, AcceptedStepsAreNotRepeated, Pending
<1>. QED  BY <1>1, IntegrityHolds, PTL

\* A stored result is made of the accepted outputs, all of them and no other.
THEOREM ResultsAreAcceptedSteps ==
  ASSUME MaxAttempts <= 2
  PROVE  Spec => []ResultIsAcceptedSteps
<1>1. Integrity => ResultIsAcceptedSteps
  BY DEF Integrity, ResultStands, ResultIsAcceptedSteps
<1>. QED  BY <1>1, IntegrityHolds, PTL

-----------------------------------------------------------------------------
(* 4. The event log tells the status *)

LifeEvents(log) == {n \in DOMAIN log : log[n] # "run.heartbeat"}
ClaimEvents(log) == {n \in LifeEvents(log) : log[n] = "run.claimed"}

\* EventLogTellsStatus of one run.
Tells(log, attempts, state) ==
  /\ Cardinality(ClaimEvents(log)) = attempts
  /\ LifeEvents(log) = {} => state = "ABSENT"
  /\ \A last \in LifeEvents(log) :
       (\A n \in LifeEvents(log) : n <= last) => state = StatusAfter[log[last]]

LEMMA TellsIsProperty ==
  (\A r \in Run : Tells(events[r], attemptNo[r], status[r])) <=> EventLogTellsStatus
  BY DEF Tells, LifeEvents, ClaimEvents, EventLogTellsStatus

\* Appending an event adds its position, the last, if it is of the life cycle.
LEMMA AppendedPositions ==
  ASSUME NEW log \in Seq(Event), NEW e \in Event
  PROVE  /\ Append(log, e)[Len(log) + 1] = e
         /\ Len(log) + 1 \notin DOMAIN log
         /\ \A n \in LifeEvents(log) :
              n \in Nat /\ n < Len(log) + 1 /\ Append(log, e)[n] = log[n]
         /\ LifeEvents(Append(log, e)) =
              LifeEvents(log) \cup (IF e = "run.heartbeat" THEN {} ELSE {Len(log) + 1})
         /\ ClaimEvents(Append(log, e)) =
              ClaimEvents(log) \cup (IF e = "run.claimed" THEN {Len(log) + 1} ELSE {})
<1> DEFINE more == Append(log, e)
<1>1. /\ Len(log) \in Nat /\ DOMAIN log = 1..Len(log)
      /\ DOMAIN more = 1..(Len(log) + 1)
      /\ more[Len(log) + 1] = e
      /\ \A n \in 1..Len(log) : more[n] = log[n]
  OBVIOUS
<1>2. \A n : n \in DOMAIN more <=> n \in DOMAIN log \/ n = Len(log) + 1
  BY <1>1
<1>3. LifeEvents(more) =
        LifeEvents(log) \cup (IF e = "run.heartbeat" THEN {} ELSE {Len(log) + 1})
  BY <1>1, <1>2 DEF LifeEvents
<1>4. ClaimEvents(more) = ClaimEvents(log) \cup (IF e = "run.claimed" THEN {Len(log) + 1} ELSE {})
  BY <1>1, <1>3 DEF ClaimEvents, LifeEvents
<1>5. \A n \in LifeEvents(log) : n \in Nat /\ n < Len(log) + 1 /\ more[n] = log[n]
  BY <1>1 DEF LifeEvents
<1>6. Len(log) + 1 \notin DOMAIN log
  BY <1>1
<1>. QED  BY <1>1, <1>3, <1>4, <1>5, <1>6

\* One more event of the life cycle, in the same transaction as the status it
\* announces and the attempt it counts.
LEMMA TellsAppended ==
  ASSUME NEW log \in Seq(Event), NEW a \in Nat, NEW b, NEW x, NEW y, NEW e \in Event,
         Tells(log, a, x),
         b = IF e = "run.claimed" THEN a + 1 ELSE a,
         y = IF e = "run.heartbeat" THEN x ELSE StatusAfter[e]
  PROVE  Tells(Append(log, e), b, y)
<1> DEFINE more == Append(log, e)
           new == Len(log) + 1
<1>1. /\ more[new] = e
      /\ new \notin DOMAIN log
      /\ \A n \in LifeEvents(log) : n \in Nat /\ n < new /\ more[n] = log[n]
      /\ LifeEvents(more) = LifeEvents(log) \cup (IF e = "run.heartbeat" THEN {} ELSE {new})
      /\ ClaimEvents(more) = ClaimEvents(log) \cup (IF e = "run.claimed" THEN {new} ELSE {})
  BY AppendedPositions
<1>2. IsFiniteSet(ClaimEvents(log)) /\ new \notin ClaimEvents(log) /\ new \in Nat
  <2>1. IsFiniteSet(DOMAIN log)
    BY FS_Interval
  <2>2. ClaimEvents(log) \subseteq DOMAIN log
    BY DEF ClaimEvents, LifeEvents
  <2>. QED  BY <1>1, <2>1, <2>2, FS_Subset
<1>3. Cardinality(ClaimEvents(more)) = b
  <2>1. Cardinality(ClaimEvents(log)) = a
    BY DEF Tells
  <2>. QED  BY <1>1, <1>2, <2>1, FS_AddElement
<1>4. CASE e = "run.heartbeat"
  <2>1. LifeEvents(more) = LifeEvents(log) /\ y = x
    BY <1>1, <1>4
  <2>. QED  BY <1>1, <1>3, <2>1 DEF Tells
<1>5. CASE e # "run.heartbeat"
  <2>1. new \in LifeEvents(more) /\ y = StatusAfter[e]
    BY <1>1, <1>5
  <2>2. ASSUME NEW last \in LifeEvents(more), \A n \in LifeEvents(more) : n <= last
        PROVE  last = new
    BY <1>1, <1>2, <1>5, <2>1, <2>2
  <2>. QED  BY <1>1, <1>3, <2>1, <2>2 DEF Tells
<1>. QED  BY <1>4, <1>5

\* A transaction that logs: the event announces the status of the row, also
\* when it repeats the last one and is left out.
LEMMA TellsLogged ==
  ASSUME TypeOK, EventLogTellsStatus, NEW r \in Run, NEW e \in Event, Log(r, e),
         \A q \in Run : q # r => status'[q] = status[q] /\ attemptNo'[q] = attemptNo[q],
         attemptNo'[r] = IF e = "run.claimed" THEN attemptNo[r] + 1 ELSE attemptNo[r],
         status'[r] = IF e = "run.heartbeat" THEN status[r] ELSE StatusAfter[e]
  PROVE  EventLogTellsStatus'
<1>1. \A q \in Run : Tells(events[q], attemptNo[q], status[q])
  BY TellsIsProperty
<1>2. events[r] \in Seq(Event) /\ attemptNo[r] \in Nat
  BY DEF TypeOK, Output
<1>3. Tells(events'[r], attemptNo'[r], status'[r])
  <2>1. CASE events' = [events EXCEPT ![r] = Append(@, e)]
    <3>1. events'[r] = Append(events[r], e)
      BY <2>1 DEF TypeOK
    <3>. QED  BY <1>1, <1>2, <3>1, TellsAppended
  <2>2. CASE /\ e = "run.heartbeat"
             /\ events' = events
    BY <1>1, <2>2
  <2>3. CASE /\ e = "run.cancel_requested"
             /\ events[r] # << >>
             /\ events[r][Len(events[r])] = e
             /\ events' = events
    <3>1. /\ Len(events[r]) \in Nat \ {0}
          /\ DOMAIN events[r] = 1..Len(events[r])
      BY <1>2, <2>3
    <3>2. Len(events[r]) \in LifeEvents(events[r])
      BY <2>3, <3>1 DEF LifeEvents
    <3>3. \A last \in LifeEvents(events[r]) :
            (\A n \in LifeEvents(events[r]) : n <= last) => last = Len(events[r])
      BY <3>1, <3>2 DEF LifeEvents
    <3>. QED  BY <1>1, <2>3, <3>2, <3>3 DEF Tells
  <2>. QED  BY <2>1, <2>2, <2>3 DEF Log
<1>4. \A q \in Run : q # r => events'[q] = events[q]
  BY DEF Log, TypeOK
<1>5. \A q \in Run : Tells(events'[q], attemptNo'[q], status'[q])
  BY <1>1, <1>3, <1>4
<1>. QED  BY <1>5 DEF Tells, LifeEvents, ClaimEvents, EventLogTellsStatus

\* A step that changes neither the status nor the attempts, and logs nothing.
LEMMA TellsKept ==
  ASSUME EventLogTellsStatus, UNCHANGED <<status, attemptNo, events>>
  PROVE  EventLogTellsStatus'
  BY DEF EventLogTellsStatus

LEMMA TellsStep ==
  TypeOK /\ EventLogTellsStatus /\ [Next]_vars => EventLogTellsStatus'
<1> SUFFICES ASSUME TypeOK, EventLogTellsStatus, [Next]_vars PROVE EventLogTellsStatus'
  OBVIOUS
<1>0. /\ \A e \in Event \ {"run.heartbeat"} : StatusAfter[e] =
           CASE e = "run.queued" -> "QUEUED"
             [] e = "run.retry_queued" -> "QUEUED"
             [] e = "run.claimed" -> "RUNNING"
             [] e = "run.completed" -> "COMPLETED"
             [] e = "run.partially_completed" -> "PARTIALLY_COMPLETED"
             [] e = "run.failed" -> "FAILED"
             [] e = "run.cancel_requested" -> "CANCELLED"
      /\ Event = {"run.queued", "run.claimed", "run.heartbeat", "run.retry_queued",
                  "run.partially_completed", "run.completed", "run.failed",
                  "run.cancel_requested"}
  BY DEF StatusAfter, Event
<1>1. ASSUME NEW r \in Run, Enqueue(r) PROVE EventLogTellsStatus'
  BY <1>0, <1>1, TellsLogged DEF Enqueue, TypeOK
<1>2. ASSUME NEW r \in Run, Cancel(r) PROVE EventLogTellsStatus'
  BY <1>0, <1>2, TellsLogged DEF Cancel, TypeOK
<1>3. ASSUME NEW r \in Run, LeaseExpires(r) \/ RetryComesDue(r) PROVE EventLogTellsStatus'
  BY <1>3, TellsKept DEF LeaseExpires, RetryComesDue
<1>4. ASSUME NEW r \in Run, NEW w \in Worker, Claim(w, r) PROVE EventLogTellsStatus'
  BY <1>0, <1>4, TellsLogged DEF Claim, TypeOK
<1>5. ASSUME NEW r \in Run, NEW k \in Attempt,
             \/ Launch(r, k) \/ Dismiss(r, k) \/ Return(r, k)
             \/ \E s \in Checkpointed : SkipStep(r, k, s) \/ SaveCheckpoint(r, k, s)
             \/ \E outcome \in {"error", "transient"} : Raise(r, k, outcome)
      PROVE  EventLogTellsStatus'
  BY <1>5, TellsKept DEF Launch, Dismiss, Return, SkipStep, SaveCheckpoint, Raise, rowVars
<1>6. ASSUME NEW r \in Run, NEW k \in Attempt, Heartbeat(r, k) PROVE EventLogTellsStatus'
  <2>1. CASE Log(r, "run.heartbeat")
    BY <1>0, <1>6, <2>1, TellsLogged DEF Heartbeat
  <2>2. CASE UNCHANGED events
    BY <1>6, <2>2, TellsKept DEF Heartbeat
  <2>. QED  BY <1>6, <2>1, <2>2 DEF Heartbeat, RenewLease
<1>7. ASSUME NEW r \in Run, NEW k \in Attempt, Complete(r, k) PROVE EventLogTellsStatus'
  <2> DEFINE final == IF thread[r][k].skipped # {} THEN "PARTIALLY_COMPLETED" ELSE "COMPLETED"
             e == IF final = "COMPLETED" THEN "run.completed" ELSE "run.partially_completed"
  <2>1. CASE UNCHANGED <<status, events>>
    BY <1>7, <2>1, TellsKept DEF Complete
  <2>2. CASE status' = [status EXCEPT ![r] = final] /\ Log(r, e)
    <3>1. /\ e \in Event \ {"run.heartbeat", "run.claimed"}
          /\ StatusAfter[e] = final
          /\ status'[r] = final
          /\ \A q \in Run : q # r => status'[q] = status[q]
      BY <1>0, <2>2 DEF TypeOK
    <3>2. attemptNo' = attemptNo
      BY <1>7 DEF Complete
    <3>. QED  BY <2>2, <3>1, <3>2, TellsLogged
  <2>. QED  BY <1>7, <2>1, <2>2 DEF Complete
<1>8. ASSUME NEW r \in Run, NEW k \in Attempt, NEW retryable \in BOOLEAN,
             Fail(r, k, retryable)
      PROVE  EventLogTellsStatus'
  <2> DEFINE requeue == retryable /\ attemptNo[r] < MaxAttempts
             e == IF requeue THEN "run.retry_queued" ELSE "run.failed"
             s == IF requeue THEN "QUEUED" ELSE "FAILED"
  <2>1. CASE UNCHANGED <<status, events>>
    BY <1>8, <2>1, TellsKept DEF Fail
  <2>2. CASE status' = [status EXCEPT ![r] = s] /\ Log(r, e)
    <3>1. /\ e \in Event \ {"run.heartbeat", "run.claimed"}
          /\ StatusAfter[e] = s
          /\ status'[r] = s
          /\ \A q \in Run : q # r => status'[q] = status[q]
      BY <1>0, <2>2 DEF TypeOK
    <3>2. attemptNo' = attemptNo
      BY <1>8 DEF Fail
    <3>. QED  BY <2>2, <3>1, <3>2, TellsLogged
  <2>. QED  BY <1>8, <2>1, <2>2 DEF Fail
<1>9. ASSUME NEW w \in Worker, Crash(w) \/ Restart(w) PROVE EventLogTellsStatus'
  BY <1>9, TellsKept DEF Crash, Restart, rowVars
<1>10. CASE UNCHANGED vars
  BY <1>10, TellsKept DEF vars, rowVars
<1>. QED
  BY <1>1, <1>2, <1>3, <1>4, <1>5, <1>6, <1>7, <1>8, <1>9, <1>10
  DEF Next, ApiStep, WorkerStep, ThreadStep

\* Whoever replays the event log of a run arrives at the status of its row and
\* counts its attempts, at every moment and for every attempt limit.
THEOREM EventLogHolds == Spec => []EventLogTellsStatus
<1>1. Init => EventLogTellsStatus
  <2>1. DOMAIN << >> = {} /\ Cardinality({}) = 0
    BY FS_EmptySet
  <2>2. LifeEvents(<< >>) = {} /\ ClaimEvents(<< >>) = {}
    BY <2>1 DEF LifeEvents, ClaimEvents
  <2>3. Tells(<< >>, 0, "ABSENT")
    BY <2>1, <2>2 DEF Tells
  <2>4. Init => \A r \in Run : Tells(events[r], attemptNo[r], status[r])
    BY <2>3 DEF Init
  <2>. QED  BY <2>4, TellsIsProperty
<1>2. TypeOK /\ EventLogTellsStatus /\ [Next]_vars => EventLogTellsStatus'
  BY TellsStep
<1>. QED  BY <1>1, <1>2, TypeCorrect, PTL DEF Spec

-----------------------------------------------------------------------------
(* 5. Refinement: each operation that changes what the API shows of a run  *)
(* is one step of its life, all others are stutters.  That a run delivers  *)
(* at most once needs the integrity invariant: a run that is worked on has *)
(* no result yet.                                                          *)

LEMMA LifecycleStart == Init => Lifecycle!LifecycleInit
  BY DEF Init, Lifecycle!LifecycleInit

\* A step that leaves status, attempts and result alone is a stutter.
LEMMA Stutter ==
  ASSUME UNCHANGED <<status, attemptNo, result>>
  PROVE  [Lifecycle!LifecycleNext]_<<status, attemptNo, result>>
  OBVIOUS

\* complete delivers the result of a run that has none.
LEMMA CompleteDelivers ==
  ASSUME TypeOK, ResultStands, NEW r \in Run, NEW k \in Attempt, Complete(r, k)
  PROVE  [Lifecycle!LifecycleNext]_<<status, attemptNo, result>>
<1> DEFINE h == thread[r][k].held
           end == IF thread[r][k].skipped # {} THEN "PARTIALLY_COMPLETED"
                                               ELSE "COMPLETED"
<1>1. CASE UNCHANGED <<status, result>>
  BY <1>1 DEF Complete
<1>2. CASE /\ Owned(r, thread[r][k].worker)
           /\ status' = [status EXCEPT ![r] = end]
           /\ result' = [result EXCEPT ![r] = h]
  <2>1. h \in [Step -> Output]
    BY DEF TypeOK, Thread
  <2>2. status[r] = "RUNNING" /\ result[r] = NoOutput
    BY <1>2 DEF Owned, ResultStands, Terminal
  <2>3. end \in {"PARTIALLY_COMPLETED", "COMPLETED"}
    OBVIOUS
  <2>4. UNCHANGED attemptNo
    BY DEF Complete
  <2> HIDE DEF end, h
  <2>5. Lifecycle!Deliver(r, h)
    BY <1>2, <2>2, <2>3, <2>4 DEF Lifecycle!Deliver
  <2>. QED  BY <2>1, <2>5 DEF Lifecycle!LifecycleNext
<1>. QED  BY <1>1, <1>2 DEF Complete

LEMMA LifecycleStep ==
  ASSUME TypeOK, ResultStands, [Next]_vars
  PROVE  [Lifecycle!LifecycleNext]_<<status, attemptNo, result>>
<1> DEFINE Goal == [Lifecycle!LifecycleNext]_<<status, attemptNo, result>>
<1>1. ASSUME NEW r \in Run, Enqueue(r) PROVE Goal
  <2>1. Lifecycle!Submit(r)
    BY <1>1 DEF Enqueue, Lifecycle!Submit
  <2>. QED  BY <2>1 DEF Lifecycle!LifecycleNext
<1>2. ASSUME NEW r \in Run, Cancel(r) PROVE Goal
  <2>1. Lifecycle!Withdraw(r)
    BY <1>2 DEF Cancel, Lifecycle!Withdraw
  <2>. QED  BY <2>1 DEF Lifecycle!LifecycleNext
<1>3. ASSUME NEW r \in Run, NEW w \in Worker, Claim(w, r) PROVE Goal
  <2>1. Lifecycle!TakeUp(r)
    BY <1>3 DEF Claim, Claimable, Lifecycle!TakeUp
  <2>. QED  BY <2>1 DEF Lifecycle!LifecycleNext
<1>4. ASSUME NEW r \in Run, NEW k \in Attempt, Complete(r, k) PROVE Goal
  BY <1>4, CompleteDelivers
<1>5. ASSUME NEW r \in Run, NEW k \in Attempt, NEW retryable \in BOOLEAN,
             Fail(r, k, retryable)
      PROVE  Goal
  <2>1. UNCHANGED <<attemptNo, result>>
    BY <1>5 DEF Fail
  <2>2. CASE Owned(r, thread[r][k].worker)
    <3>1. Lifecycle!GiveUp(r)
      BY <1>5, <2>1, <2>2 DEF Fail, Owned, Lifecycle!GiveUp
    <3>. QED  BY <3>1 DEF Lifecycle!LifecycleNext
  <2>3. CASE ~Owned(r, thread[r][k].worker)
    BY <1>5, <2>1, <2>3 DEF Fail
  <2>. QED  BY <2>2, <2>3
<1>6. ASSUME NEW r \in Run, NEW k \in Attempt,
             \/ Launch(r, k) \/ Heartbeat(r, k) \/ Dismiss(r, k) \/ ThreadStep(r, k)
      PROVE  Goal
  <2>1. UNCHANGED <<status, attemptNo, result>>
    BY <1>6 DEF Launch, Heartbeat, Dismiss, ThreadStep, SaveCheckpoint, SkipStep,
                Return, Raise, rowVars
  <2>. QED  BY <2>1
<1>7. ASSUME NEW r \in Run, LeaseExpires(r) \/ RetryComesDue(r) PROVE Goal
  <2>1. UNCHANGED <<status, attemptNo, result>>
    BY <1>7 DEF LeaseExpires, RetryComesDue
  <2>. QED  BY <2>1
<1>8. ASSUME NEW w \in Worker, Crash(w) \/ Restart(w) PROVE Goal
  <2>1. UNCHANGED <<status, attemptNo, result>>
    BY <1>8 DEF Crash, Restart, rowVars
  <2>. QED  BY <2>1
<1>9. CASE UNCHANGED vars
  BY <1>9 DEF vars, rowVars
<1>. QED
  BY <1>1, <1>2, <1>3, <1>4, <1>5, <1>6, <1>7, <1>8, <1>9
  DEF Next, ApiStep, WorkerStep

\* The queue keeps its promise to the users of a run: it is worked on a limited
\* number of times, delivers at most once, and never comes back once it ended.
THEOREM QueueImplementsLifecycle ==
  ASSUME MaxAttempts <= 2
  PROVE  Spec => ImplementsLifecycle
<1>1. TypeOK /\ Integrity /\ [Next]_vars
      => [Lifecycle!LifecycleNext]_<<status, attemptNo, result>>
  BY LifecycleStep DEF Integrity
<1>. QED
  BY <1>1, LifecycleStart, IntegrityHolds, PTL
  DEF Spec, ImplementsLifecycle, Lifecycle!LifecycleSpec, Lifecycle!lifecycleVars

\* The first accepted output of a step stays: neither a late thread nor a
\* second execution of the step, nor the result, ever replaces it.
THEOREM FirstAcceptedOutputStays ==
  Spec => AcceptedOutputIsFinal
<1>1. Init => TypeOK
  BY ConstantsOK, NoOutputType, NoThreadType DEF Init, TypeOK, Status, Output
<1>2. TypeOK /\ [Next]_vars =>
        [\A r \in Run, s \in Step :
           accepted[r][s] # 0 => accepted'[r][s] = accepted[r][s]]_vars
  <2> SUFFICES ASSUME TypeOK, Next, NEW q \in Run, NEW p \in Step, accepted[q][p] # 0
               PROVE  accepted'[q][p] = accepted[q][p]
    OBVIOUS
  <2>1. ASSUME NEW r \in Run, NEW k \in Attempt, Complete(r, k)
        PROVE  accepted'[q][p] = accepted[q][p]
    <3> DEFINE h == thread[r][k].held
               new == [s \in Step |-> IF h[s] # 0 THEN h[s] ELSE accepted[r][s]]
    <3>1. CASE UNCHANGED accepted
      BY <3>1
    <3>2. CASE /\ \A s \in Step : h[s] # 0 => accepted[r][s] \in {0, h[s]}
               /\ accepted' = [accepted EXCEPT ![r] = new]
      <4>1. accepted'[r] = new /\ (q # r => accepted'[q] = accepted[q])
        BY <3>2 DEF TypeOK
      <4>2. q = r => new[p] = accepted[q][p]
        BY <3>2
      <4>. QED  BY <4>1, <4>2
    <3>. QED  BY <2>1, <3>1, <3>2 DEF Complete
  <2>2. ASSUME NEW r \in Run, NEW k \in Attempt, NEW s \in Checkpointed,
               SaveCheckpoint(r, k, s)
        PROVE  accepted'[q][p] = accepted[q][p]
    <3>1. CASE UNCHANGED accepted
      BY <3>1
    <3>2. CASE accepted[r][s] \in {0, k} /\ accepted' = [accepted EXCEPT ![r][s] = k]
      <4>1. s \in Step
        BY ConstantsOK
      <4>2. /\ accepted'[r][s] = k
            /\ q # r \/ p # s => accepted'[q][p] = accepted[q][p]
        BY <3>2, <4>1 DEF TypeOK
      <4>. QED  BY <3>2, <4>2
    <3>. QED  BY <2>2, <3>1, <3>2 DEF SaveCheckpoint
  <2>3. ASSUME NEW r \in Run, NEW k \in Attempt,
               \/ Launch(r, k) \/ Heartbeat(r, k) \/ Dismiss(r, k) \/ Return(r, k)
               \/ \E retryable \in BOOLEAN : Fail(r, k, retryable)
               \/ \E s \in Checkpointed : SkipStep(r, k, s)
               \/ \E outcome \in {"error", "transient"} : Raise(r, k, outcome)
        PROVE  UNCHANGED accepted
    BY <2>3 DEF Launch, Heartbeat, Dismiss, Return, Fail, SkipStep, Raise, rowVars
  <2>4. ASSUME NEW r \in Run, \/ ApiStep(r) \/ LeaseExpires(r) \/ RetryComesDue(r)
                              \/ \E w \in Worker : Claim(w, r)
        PROVE  UNCHANGED accepted
    BY <2>4 DEF ApiStep, Enqueue, Cancel, LeaseExpires, RetryComesDue, Claim
  <2>5. ASSUME NEW w \in Worker, Crash(w) \/ Restart(w)
        PROVE  UNCHANGED accepted
    BY <2>5 DEF Crash, Restart, rowVars
  <2>. QED  BY <2>1, <2>2, <2>3, <2>4, <2>5 DEF Next, WorkerStep, ThreadStep
<1>. QED  BY <1>1, <1>2, TypeStep, PTL DEF Spec, AcceptedOutputIsFinal

-----------------------------------------------------------------------------
(* 6. The attempt ledger.  The rows are written without a lock; what makes  *)
(* them agree with the accepted outputs is that a run that a thread no      *)
(* longer owns when its answer is recorded is never owned by that thread    *)
(* again.                                                                   *)

\* Some call of claim k was recorded as accepted.
Audited(r, k) == \E n \in Number : ledger[r][k][n] = "accepted"

\* A call belongs to a thread at work and has the number of its row.
CallShape(r, k) ==
  LET c == call[r][k] IN
  /\ c.pc # "idle" => thread[r][k].pc = "running"
  /\ c.pc = "opening" => c.made < MaxCalls /\ c.stamp \in {"running", "discarded"}
  /\ c.pc \in {"calling", "closing"} => c.made # 0
  /\ c.pc = "closing" => c.stamp \in {"accepted", "failed", "discarded"}

\* The rows of a claim are written one after the other; only the final record
\* of a call accepts.
RowsInOrder(r, k) ==
  /\ call[r][k].pc \in {"calling", "closing"} =>
       \A n \in Number : n = call[r][k].made => ledger[r][k][n] # "accepted"
  /\ thread[r][k].pc = "running" =>
       \A n \in Number : n > call[r][k].made => ledger[r][k][n] = "none"
  /\ thread[r][k].pc = "claimed" \/ k > attemptNo[r] =>
       \A n \in Number : ledger[r][k][n] = "none"

\* An accepted answer has an accepted row, or comes too late to be saved.
AnswerAudited(r, k) ==
  LET c == call[r][k] IN
  /\ c.pc \in {"closing", "answered"}
  /\ c.verdict = "accepted"
  /\ Owned(r, thread[r][k].worker)
  => IF c.pc = "closing" THEN c.stamp = "accepted" ELSE Audited(r, k)

\* What a thread holds was accepted from an audited call.
HeldAudited(r, k) ==
  \A s \in Checkpointed : thread[r][k].held[s] # 0 =>
    Audited(r, thread[r][k].held[s])

OpenRowsAreCalled(r, k) ==
  crashes = 0 =>
    \A n \in Number : ledger[r][k][n] = "running" =>
      call[r][k].pc \in {"calling", "closing"} /\ call[r][k].made = n

CallOK(r, k) ==
  /\ CallShape(r, k)
  /\ RowsInOrder(r, k)
  /\ AnswerAudited(r, k)
  /\ HeldAudited(r, k)
  /\ OpenRowsAreCalled(r, k)

LedgerInv ==
  /\ LedgerTypeOK
  /\ \A r \in Run, k \in Attempt : CallOK(r, k)
  /\ AcceptedOutputsAreAudited
-----------------------------------------------------------------------------
\* Every step is a step of the queue or leaves it alone

LEMMA LedgerStepIsQueueStep == [LedgerNext]_allVars => [Next]_vars
<1> SUFFICES ASSUME [LedgerNext]_allVars PROVE [Next]_vars
  OBVIOUS
<1>1. CASE OtherStep
  BY <1>1 DEF OtherStep, Next, WorkerStep
<1>2. ASSUME NEW r \in Run, NEW w \in Worker, LedgerClaim(w, r) PROVE Next
  BY <1>2 DEF LedgerClaim, Next
<1>3. ASSUME NEW r \in Run, NEW k \in Attempt, LedgerLaunch(r, k) PROVE Next
  BY <1>3 DEF LedgerLaunch, Next, WorkerStep
<1>4. ASSUME NEW r \in Run, NEW k \in Attempt, CallStep(r, k) PROVE UNCHANGED vars
  BY <1>4 DEF CallStep, OpenRead, OpenWrite, CloseRead, CloseWrite, TryAgain, CallMoves
<1>5. ASSUME NEW r \in Run, NEW k \in Attempt, NEW s \in Checkpointed,
             LedgerSave(r, k, s) \/ LedgerSkip(r, k, s)
      PROVE  Next
  BY <1>5 DEF LedgerSave, LedgerSkip, Next, ThreadStep
<1>6. ASSUME NEW r \in Run, NEW k \in Attempt, NEW outcome \in {"error", "transient"},
             LedgerRaise(r, k, outcome)
      PROVE  Next
  BY <1>6 DEF LedgerRaise, Next, ThreadStep
<1>7. ASSUME NEW r \in Run, NEW k \in Attempt, LedgerEscape(r, k) \/ LedgerReturn(r, k)
      PROVE  Next
  BY <1>7 DEF LedgerEscape, LedgerReturn, Next, ThreadStep
<1>. QED  BY <1>1, <1>2, <1>3, <1>4, <1>5, <1>6, <1>7 DEF LedgerNext, allVars

\* The queue of AttemptLedger is the queue of ReviewRuns: what is proved of it,
\* fencing, cancellation and the integrity of results, holds with the calls of
\* the providers and their rows.
THEOREM LedgerImplementsQueue == LedgerSpec => Spec
<1>1. LedgerInit => Init
  BY DEF LedgerInit
<1>. QED  BY <1>1, LedgerStepIsQueueStep, PTL DEF LedgerSpec, Spec

-----------------------------------------------------------------------------
\* A run once lost is never owned again by the thread

LEMMA LostStaysLost ==
  ASSUME TypeOK, TypeOK', Control', [Next]_vars, ConstantsOK,
         NEW r \in Run, NEW k \in Attempt,
         thread'[r][k].pc = "running",
         thread'[r][k].worker = thread[r][k].worker,
         ~Owned(r, thread[r][k].worker)
  PROVE  ~Owned(r, thread[r][k].worker)'
<1>1. CASE status'[r] = status[r] /\ leaseOwner'[r] = leaseOwner[r]
  BY <1>1 DEF Owned
<1>2. CASE status'[r] # "RUNNING"
  BY <1>2 DEF Owned
<1>3. ASSUME NEW w \in Worker, Claim(w, r) PROVE ~Owned(r, thread[r][k].worker)'
  <2> DEFINE j == attemptNo[r] + 1
  <2>1. j \in Attempt /\ attemptNo'[r] = j
    BY <1>3 DEF Claim, Claimable, Attempt, Output, TypeOK, ConstantsOK
  <2>2. thread'[r][j].pc = "claimed"
    BY <1>3, <2>1 DEF Claim, TypeOK, NoThread
  <2>3. k # j
    BY <2>2
  <2>4. status'[r] = "RUNNING"
    BY <1>3 DEF Claim, TypeOK
  <2>. QED  BY <2>1, <2>3, <2>4 DEF Control, Fenced, Owned, Terminal
<1>4. \/ status'[r] = status[r] /\ leaseOwner'[r] = leaseOwner[r]
      \/ status'[r] # "RUNNING"
      \/ \E w \in Worker : Claim(w, r)
  <2>1. CASE UNCHANGED vars
    BY <2>1 DEF vars, rowVars
  <2>2. ASSUME NEW q \in Run, ApiStep(q) \/ LeaseExpires(q) \/ RetryComesDue(q)
        PROVE  <1>4!1 \/ <1>4!2
    BY <2>2 DEF ApiStep, Enqueue, Cancel, LeaseExpires, RetryComesDue, ReleaseLease, TypeOK
  <2>3. ASSUME NEW q \in Run, NEW w \in Worker, Claim(w, q)
        PROVE  <1>4!1 \/ Claim(w, r)
    BY <2>3 DEF Claim, TypeOK
  <2>4. ASSUME NEW q \in Run, NEW j \in Attempt, WorkerStep(q, j)
        PROVE  <1>4!1 \/ <1>4!2
    <3>1. CASE Launch(q, j) \/ Heartbeat(q, j) \/ Dismiss(q, j)
      BY <3>1 DEF Launch, Heartbeat, Dismiss, rowVars
    <3>2. CASE Complete(q, j)
      BY <3>2 DEF Complete, ReleaseLease, TypeOK
    <3>3. CASE \E retryable \in BOOLEAN : Fail(q, j, retryable)
      BY <3>3 DEF Fail, ReleaseLease, TypeOK
    <3>. QED  BY <2>4, <3>1, <3>2, <3>3 DEF WorkerStep
  <2>5. ASSUME NEW q \in Run, NEW j \in Attempt, ThreadStep(q, j)
        PROVE  <1>4!1
    BY <2>5 DEF ThreadStep, SaveCheckpoint, SkipStep, Return, Raise, rowVars
  <2>6. CASE \E w \in Worker : Crash(w) \/ Restart(w)
    BY <2>6 DEF Crash, Restart, rowVars
  <2>. QED  BY <2>1, <2>2, <2>3, <2>4, <2>5, <2>6 DEF Next
<1>. QED  BY <1>1, <1>2, <1>3, <1>4

-----------------------------------------------------------------------------
\* What a step leaves as it was

\* No accepted row is changed.
AuditKept(r) ==
  \A k \in Attempt, n \in Number :
    ledger[r][k][n] = "accepted" => ledger'[r][k][n] = "accepted"

\* The rows of a claim stay, or the open ones are closed.
RowsKept(r, k) ==
  \A n \in Number :
    \/ ledger'[r][k][n] = ledger[r][k][n]
    \/ /\ ledger[r][k][n] \in {"running", "left"}
       /\ ledger'[r][k][n] \in {"left", "expired"}

LEMMA NumberIsNat == Number \subseteq Nat /\ Attempt \subseteq Nat
  BY MaxCallsOK, ConstantsOK DEF Number, Attempt

LEMMA AuditedStays ==
  ASSUME NEW r \in Run, NEW k \in Attempt, AuditKept(r), Audited(r, k)
  PROVE  Audited(r, k)'
  BY DEF AuditKept, Audited

LEMMA CallFields ==
  ASSUME NEW c \in Call
  PROVE  /\ c.pc \in {"idle", "opening", "calling", "closing", "answered"}
         /\ c.made \in 0..MaxCalls /\ c.made \in Nat
         /\ c.prior \in Nat
         /\ c.verdict \in {"none", "accepted", "failed"}
         /\ c.stamp \in RowStatus
  BY MaxCallsOK DEF Call

LEMMA NoCallFields ==
  /\ NoCall.pc = "idle" /\ NoCall.made = 0 /\ NoCall.verdict = "none"
  /\ NoCall \in Call
  BY MaxCallsOK DEF NoCall, Call, RowStatus

\* What a thread holds at the next step was held, or comes from an audited call.
LEMMA HeldStays ==
  ASSUME TypeOK, NEW r \in Run, NEW k \in Attempt, HeldAudited(r, k), AuditKept(r),
         \A s \in Checkpointed : thread'[r][k].held[s] \in {0, thread[r][k].held[s]}
  PROVE  HeldAudited(r, k)'
<1> SUFFICES ASSUME NEW s \in Checkpointed, thread'[r][k].held[s] # 0
             PROVE  Audited(r, thread[r][k].held[s])'
  BY DEF HeldAudited
<1>1. thread[r][k] \in Thread /\ s \in Step
  BY ConstantsOK DEF TypeOK
<1>2. thread[r][k].held[s] \in Attempt /\ Audited(r, thread[r][k].held[s])
  BY <1>1, ConstantsOK, ThreadFields DEF HeldAudited, Output, Attempt
<1>. QED  BY <1>2 DEF AuditKept, Audited

\* The thread goes on, or was not at work, and so does its call.
LEMMA CallGoesOn ==
  ASSUME TypeOK, TypeOK', Control', [Next]_vars,
         NEW r \in Run, NEW k \in Attempt, CallOK(r, k),
         AuditKept(r), RowsKept(r, k),
         attemptNo'[r] >= attemptNo[r],
         crashes' = 0 => crashes = 0,
         thread'[r][k].pc = thread[r][k].pc,
         thread'[r][k].worker = thread[r][k].worker,
         thread'[r][k].held = thread[r][k].held,
         \/ call'[r][k] = call[r][k]
         \/ thread[r][k].pc # "running" /\ call'[r][k] = NoCall
  PROVE  CallOK(r, k)'
<1>1. CallShape(r, k)'
  BY NoCallFields DEF CallOK, CallShape
<1>2. RowsInOrder(r, k)'
  <2>1. \A n \in Number : ledger[r][k][n] = "none" => ledger'[r][k][n] = "none"
    BY DEF RowsKept
  <2>2. k > attemptNo'[r] => k > attemptNo[r]
    BY NumberIsNat DEF TypeOK, Output
  <2>3. \A n \in Number : ledger[r][k][n] # "accepted" => ledger'[r][k][n] # "accepted"
    BY DEF RowsKept
  <2>. QED  BY <2>1, <2>2, <2>3, NoCallFields DEF CallOK, RowsInOrder
<1>3. AnswerAudited(r, k)'
  <2> SUFFICES ASSUME call'[r][k].pc \in {"closing", "answered"},
                      call'[r][k].verdict = "accepted",
                      Owned(r, thread[r][k].worker)'
               PROVE  IF call'[r][k].pc = "closing" THEN call'[r][k].stamp = "accepted"
                                                    ELSE Audited(r, k)'
    BY DEF AnswerAudited
  <2>1. call'[r][k] = call[r][k] /\ thread[r][k].pc = "running"
    BY NoCallFields DEF CallOK, CallShape
  <2>2. Owned(r, thread[r][k].worker)
    BY <2>1, LostStaysLost, ConstantsOK DEF Owned
  <2>. QED  BY <2>1, <2>2, AuditedStays DEF CallOK, AnswerAudited
<1>4. HeldAudited(r, k)'
  BY HeldStays DEF CallOK
<1>5. OpenRowsAreCalled(r, k)'
  BY DEF CallOK, CallShape, OpenRowsAreCalled, RowsKept
<1>. QED  BY <1>1, <1>2, <1>3, <1>4, <1>5 DEF CallOK

\* The thread has ended and its call with it.
LEMMA CallIsOver ==
  ASSUME TypeOK, NEW r \in Run, NEW k \in Attempt, CallOK(r, k),
         AuditKept(r), RowsKept(r, k),
         attemptNo'[r] >= attemptNo[r], attemptNo'[r] \in Nat,
         thread'[r][k].pc \notin {"running", "claimed"},
         \A s \in Checkpointed : thread'[r][k].held[s] \in {0, thread[r][k].held[s]},
         call'[r][k] = NoCall,
         crashes' = 0 => \A n \in Number : ledger'[r][k][n] # "running"
  PROVE  CallOK(r, k)'
<1>1. CallShape(r, k)' /\ AnswerAudited(r, k)'
  BY NoCallFields DEF CallShape, AnswerAudited
<1>2. RowsInOrder(r, k)'
  <2>1. k > attemptNo'[r] => k > attemptNo[r]
    BY NumberIsNat DEF TypeOK, Output
  <2>. QED  BY <2>1, NoCallFields DEF CallOK, RowsInOrder, RowsKept
<1>3. HeldAudited(r, k)'
  BY HeldStays DEF CallOK
<1>4. OpenRowsAreCalled(r, k)'
  BY DEF OpenRowsAreCalled
<1>. QED  BY <1>1, <1>2, <1>3, <1>4 DEF CallOK

LEMMA AcceptedStay ==
  ASSUME TypeOK, AcceptedOutputsAreAudited,
         \A r \in Run : AuditKept(r),
         \A r \in Run, s \in Checkpointed :
           \/ accepted'[r][s] \in {0, accepted[r][s]}
           \/ accepted'[r][s] \in Attempt /\ Audited(r, accepted'[r][s])
  PROVE  AcceptedOutputsAreAudited'
<1> SUFFICES ASSUME NEW r \in Run, NEW s \in Checkpointed, accepted'[r][s] # 0
             PROVE  \E n \in Number : ledger'[r][accepted'[r][s]][n] = "accepted"
  BY DEF AcceptedOutputsAreAudited
<1>1. accepted[r][s] # 0 => accepted[r][s] \in Attempt
  BY ConstantsOK DEF TypeOK, Output, Attempt
<1>2. accepted'[r][s] \in Attempt /\ Audited(r, accepted'[r][s])
  BY <1>1 DEF AcceptedOutputsAreAudited, Audited
<1>. QED  BY <1>2 DEF AuditKept, Audited

-----------------------------------------------------------------------------
\* Steps of one claim

\* A step of the queue, or one that leaves it alone, from a good state.
Stepping ==
  /\ TypeOK /\ Control /\ CancelledStays /\ LedgerInv
  /\ TypeOK' /\ Control' /\ [Next]_vars

LEMMA CallReplaced ==
  ASSUME NEW r \in Run, NEW k \in Attempt, NEW c \in Call,
         call \in [Run -> [Attempt -> Call]],
         call' = [call EXCEPT ![r][k] = c]
  PROVE  /\ call' \in [Run -> [Attempt -> Call]]
         /\ call'[r][k] = c
         /\ \A q \in Run, j \in Attempt : q # r \/ j # k => call'[q][j] = call[q][j]
  OBVIOUS

LEMMA RowReplaced ==
  ASSUME NEW r \in Run, NEW k \in Attempt, NEW n \in Number, NEW x \in RowStatus,
         ledger \in [Run -> [Attempt -> [Number -> RowStatus]]],
         ledger' = [ledger EXCEPT ![r][k][n] = x]
  PROVE  /\ ledger' \in [Run -> [Attempt -> [Number -> RowStatus]]]
         /\ ledger'[r][k][n] = x
         /\ \A m \in Number : m # n => ledger'[r][k][m] = ledger[r][k][m]
         /\ \A q \in Run, j \in Attempt : q # r \/ j # k => ledger'[q][j] = ledger[q][j]
  OBVIOUS

LEMMA CallsDropped ==
  ASSUME call \in [Run -> [Attempt -> Call]], DropEndedCalls
  PROVE  /\ call' \in [Run -> [Attempt -> Call]]
         /\ \A r \in Run, k \in Attempt :
              call'[r][k] = IF thread'[r][k].pc = "running" THEN call[r][k] ELSE NoCall
  BY NoCallFields DEF DropEndedCalls

\* What is left to show of a step that touches one claim.
LEMMA OneClaimSteps ==
  ASSUME Stepping, NEW r \in Run, NEW k \in Attempt,
         LedgerTypeOK', CallOK(r, k)', AcceptedOutputsAreAudited',
         crashes' = crashes,
         \A q \in Run : AuditKept(q) /\ attemptNo'[q] >= attemptNo[q],
         \A q \in Run, j \in Attempt : q # r \/ j # k =>
           /\ thread'[q][j] = thread[q][j]
           /\ RowsKept(q, j)
           /\ \/ call'[q][j] = call[q][j]
              \/ thread[q][j].pc # "running" /\ call'[q][j] = NoCall
  PROVE  LedgerInv'
<1>1. ASSUME NEW q \in Run, NEW j \in Attempt, q # r \/ j # k PROVE CallOK(q, j)'
  BY <1>1, CallGoesOn DEF Stepping, LedgerInv
<1>2. \A q \in Run, j \in Attempt : CallOK(q, j)'
  BY <1>1
<1>. QED  BY <1>2 DEF LedgerInv

\* What is left to show of a step of one call.
LEMMA OneCallMoves ==
  ASSUME Stepping, NEW r \in Run, NEW k \in Attempt, NEW c \in Call,
         CallMoves(r, k, c), CallOK(r, k)',
         ledger' \in [Run -> [Attempt -> [Number -> RowStatus]]],
         \A q \in Run : AuditKept(q),
         \A q \in Run, j \in Attempt : q # r \/ j # k => ledger'[q][j] = ledger[q][j]
  PROVE  LedgerInv'
<1>1. UNCHANGED <<thread, attemptNo, crashes, accepted>>
  BY DEF CallMoves, vars, rowVars, processVars
<1>2. /\ call' \in [Run -> [Attempt -> Call]]
      /\ \A q \in Run, j \in Attempt : q # r \/ j # k => call'[q][j] = call[q][j]
  BY CallReplaced DEF CallMoves, Stepping, LedgerInv, LedgerTypeOK
<1>3. AcceptedOutputsAreAudited'
  BY <1>1, AcceptedStay DEF Stepping, LedgerInv
<1>4. \A q \in Run : attemptNo'[q] >= attemptNo[q]
  BY <1>1, ConstantsOK DEF Stepping, TypeOK, Output
<1>5. LedgerTypeOK'
  BY <1>2 DEF LedgerTypeOK
<1>6. \A q \in Run, j \in Attempt : q # r \/ j # k =>
        /\ thread'[q][j] = thread[q][j]
        /\ RowsKept(q, j)
        /\ call'[q][j] = call[q][j]
  BY <1>1, <1>2 DEF RowsKept
<1>. QED  BY <1>1, <1>3, <1>4, <1>5, <1>6, OneClaimSteps

LEMMA UnchangedLedger ==
  ASSUME UNCHANGED ledger, NEW r \in Run
  PROVE  AuditKept(r) /\ \A k \in Attempt : RowsKept(r, k)
  BY DEF AuditKept, RowsKept

LEMMA StampType ==
  ASSUME NEW r \in Run, NEW x \in RowStatus
  PROVE  /\ Stamp(r, x) \in RowStatus
         /\ Stamp(r, x) \in {x, "discarded"}
         /\ CancelledStays /\ (\E w : Owned(r, w)) => Stamp(r, x) = x
  BY DEF Stamp, RowStatus, CancelledStays, Owned

LEMMA CallMoved ==
  ASSUME Stepping, NEW r \in Run, NEW k \in Attempt, NEW c \in Call, CallMoves(r, k, c)
  PROVE  call'[r][k] = c
  BY CallReplaced DEF CallMoves, Stepping, LedgerInv, LedgerTypeOK

\* A claim whose thread is at work is not a new one.
LEMMA RowsOfNewClaims ==
  ASSUME Stepping, NEW r \in Run, NEW k \in Attempt, thread[r][k].pc = "running"
  PROVE  ~(thread[r][k].pc = "claimed" \/ k > attemptNo[r])
<1>1. k \in Attempt /\ attemptNo[r] \in Nat /\ thread[r][k].pc # "none"
  BY ConstantsOK DEF Stepping, TypeOK, Output
<1>2. k <= attemptNo[r]
  BY <1>1 DEF Stepping, Control, ThreadsKnown
<1>. QED  BY <1>1, <1>2, NumberIsNat

LEMMA OpenReadKeeps ==
  ASSUME Stepping, NEW r \in Run, NEW k \in Attempt, OpenRead(r, k)
  PROVE  LedgerInv'
<1> DEFINE c == call[r][k]
           d == [c EXCEPT !.pc = "opening", !.stamp = Stamp(r, "running")]
<1>1. c \in Call /\ CallOK(r, k)
  BY DEF Stepping, LedgerInv, LedgerTypeOK
<1>2. /\ d \in Call /\ d.pc = "opening" /\ d.made = c.made
      /\ d.stamp \in {"running", "discarded"}
      /\ c.pc = "idle" /\ c.made < MaxCalls
  <2>1. /\ c.pc = "idle" /\ c.prior + c.made < MaxCalls
        /\ Stamp(r, "running") \in RowStatus
        /\ Stamp(r, "running") \in {"running", "discarded"}
    BY StampType DEF OpenRead, RowStatus
  <2>2. c.made < MaxCalls
    BY <1>1, <2>1, CallFields, MaxCallsOK
  <2> DEFINE x == Stamp(r, "running")
  <2> HIDE DEF x
  <2>3. [c EXCEPT !.pc = "opening", !.stamp = x] \in Call
    BY <1>1, <2>1 DEF Call, x
  <2>4. /\ [c EXCEPT !.pc = "opening", !.stamp = x].pc = "opening"
        /\ [c EXCEPT !.pc = "opening", !.stamp = x].made = c.made
        /\ [c EXCEPT !.pc = "opening", !.stamp = x].stamp = x
    BY <1>1 DEF Call
  <2>. QED  BY <2>1, <2>2, <2>3, <2>4 DEF x
<1>3. UNCHANGED <<thread, attemptNo, crashes, ledger, status, leaseOwner>> /\ CallMoves(r, k, d)
  BY DEF OpenRead, CallMoves, vars, rowVars, processVars
<1>4. call'[r][k] = d
  BY <1>2, <1>3, CallMoved
<1>5. thread[r][k].pc = "running"
  BY DEF OpenRead
<1> HIDE DEF d
<1>6. CallShape(r, k)' /\ AnswerAudited(r, k)'
  BY <1>2, <1>3, <1>4, <1>5 DEF CallShape, AnswerAudited
<1>7. RowsInOrder(r, k)'
  BY <1>1, <1>2, <1>3, <1>4 DEF CallOK, RowsInOrder
<1>8. HeldAudited(r, k)'
  BY <1>1, <1>3 DEF CallOK, HeldAudited, Audited
<1>9. OpenRowsAreCalled(r, k)'
  BY <1>1, <1>2, <1>3, <1>4 DEF CallOK, OpenRowsAreCalled
<1>. QED  BY <1>2, <1>3, <1>6, <1>7, <1>8, <1>9, OneCallMoves, UnchangedLedger
     DEF CallOK, Stepping, LedgerInv, LedgerTypeOK

LEMMA OpenWriteKeeps ==
  ASSUME Stepping, NEW r \in Run, NEW k \in Attempt, OpenWrite(r, k)
  PROVE  LedgerInv'
<1> DEFINE c == call[r][k]
           d == [c EXCEPT !.pc = "calling", !.made = @ + 1, !.stamp = "none"]
           n == c.made + 1
<1>1. /\ c \in Call /\ CallOK(r, k) /\ c.pc = "opening" /\ thread[r][k].pc = "running"
      /\ c.made < MaxCalls /\ c.stamp \in {"running", "discarded"}
  BY DEF Stepping, LedgerInv, LedgerTypeOK, OpenWrite, CallOK, CallShape
<1>2. /\ d \in Call /\ d.pc = "calling" /\ d.made = n /\ n \in Number /\ n \in Nat
      /\ c.made \in Nat /\ n # 0
  <2>1. n \in 0..MaxCalls /\ n \in Number /\ n \in Nat /\ c.made \in Nat /\ n # 0
    BY <1>1, CallFields, MaxCallsOK DEF Number
  <2>2. "none" \in RowStatus
    BY DEF RowStatus
  <2>. QED  BY <1>1, <2>1, <2>2 DEF Call
<1>3. UNCHANGED <<thread, attemptNo, crashes>> /\ CallMoves(r, k, d)
  BY DEF OpenWrite, CallMoves, vars, rowVars, processVars
<1>4. call'[r][k] = d
  BY <1>2, <1>3, CallMoved
<1>5. /\ ledger' \in [Run -> [Attempt -> [Number -> RowStatus]]]
      /\ ledger'[r][k][n] = c.stamp
      /\ \A m \in Number : m # n => ledger'[r][k][m] = ledger[r][k][m]
      /\ \A q \in Run, j \in Attempt : q # r \/ j # k => ledger'[q][j] = ledger[q][j]
  <2>1. c.stamp \in RowStatus
    BY <1>1, CallFields
  <2>. QED  BY <1>2, <2>1, RowReplaced DEF OpenWrite, Stepping, LedgerInv, LedgerTypeOK
<1>6. ledger[r][k][n] = "none"
  BY <1>1, <1>2 DEF CallOK, RowsInOrder
<1>7. \A q \in Run : AuditKept(q)
  BY <1>5, <1>6 DEF AuditKept
<1> HIDE DEF d
<1>8. CallShape(r, k)' /\ AnswerAudited(r, k)'
  BY <1>1, <1>2, <1>3, <1>4 DEF CallShape, AnswerAudited
<1>9. RowsInOrder(r, k)'
  <2>1. ASSUME NEW m \in Number, m > n PROVE ledger'[r][k][m] = "none"
    <3>1. m > c.made /\ m # n
      BY <2>1, <1>2, NumberIsNat
    <3>. QED  BY <3>1, <1>1, <1>5 DEF CallOK, RowsInOrder
  <2>2. ~(thread'[r][k].pc = "claimed" \/ k > attemptNo'[r])
    BY <1>1, <1>3, RowsOfNewClaims
  <2>. QED  BY <1>1, <1>2, <1>4, <1>5, <2>1, <2>2 DEF RowsInOrder
<1>10. HeldAudited(r, k)'
  BY <1>1, <1>3, <1>7, HeldStays DEF CallOK, Stepping
<1>11. OpenRowsAreCalled(r, k)'
  BY <1>1, <1>2, <1>3, <1>4, <1>5 DEF CallOK, OpenRowsAreCalled
<1>. QED  BY <1>2, <1>3, <1>5, <1>7, <1>8, <1>9, <1>10, <1>11, OneCallMoves DEF CallOK

LEMMA CloseReadKeeps ==
  ASSUME Stepping, NEW r \in Run, NEW k \in Attempt, NEW v \in {"accepted", "failed"},
         CloseRead(r, k, v)
  PROVE  LedgerInv'
<1> DEFINE c == call[r][k]
           x == Stamp(r, v)
           d == [c EXCEPT !.pc = "closing", !.verdict = v, !.stamp = x]
<1>1. /\ c \in Call /\ CallOK(r, k) /\ c.pc = "calling" /\ thread[r][k].pc = "running"
      /\ c.made # 0
  BY DEF Stepping, LedgerInv, LedgerTypeOK, CloseRead, CallOK, CallShape
<1>2. /\ x \in RowStatus /\ x \in {v, "discarded"}
      /\ Owned(r, thread[r][k].worker) => x = v
  BY StampType DEF RowStatus, Stepping
<1>3. UNCHANGED <<thread, attemptNo, crashes, ledger, status, leaseOwner>> /\ CallMoves(r, k, d)
  BY DEF CloseRead, CallMoves, vars, rowVars, processVars
<1> HIDE DEF x
<1>4. /\ d \in Call /\ d.pc = "closing" /\ d.made = c.made /\ d.verdict = v /\ d.stamp = x
  BY <1>1, <1>2 DEF Call
<1>5. call'[r][k] = d
  BY <1>3, <1>4, CallMoved
<1> HIDE DEF d
<1>6. CallShape(r, k)'
  BY <1>1, <1>2, <1>3, <1>4, <1>5 DEF CallShape
<1>7. AnswerAudited(r, k)'
  BY <1>2, <1>3, <1>4, <1>5 DEF AnswerAudited, Owned
<1>8. RowsInOrder(r, k)'
  BY <1>1, <1>3, <1>4, <1>5 DEF CallOK, RowsInOrder
<1>9. HeldAudited(r, k)'
  BY <1>1, <1>3 DEF CallOK, HeldAudited, Audited
<1>10. OpenRowsAreCalled(r, k)'
  BY <1>1, <1>3, <1>4, <1>5 DEF CallOK, OpenRowsAreCalled
<1>. QED  BY <1>3, <1>4, <1>6, <1>7, <1>8, <1>9, <1>10, OneCallMoves, UnchangedLedger
     DEF CallOK, Stepping, LedgerInv, LedgerTypeOK

LEMMA CloseWriteKeeps ==
  ASSUME Stepping, NEW r \in Run, NEW k \in Attempt, CloseWrite(r, k)
  PROVE  LedgerInv'
<1> DEFINE c == call[r][k]
           d == [c EXCEPT !.pc = "answered", !.stamp = "none"]
           n == c.made
<1>1. /\ c \in Call /\ CallOK(r, k) /\ c.pc = "closing" /\ thread[r][k].pc = "running"
      /\ n # 0 /\ c.stamp \in {"accepted", "failed", "discarded"}
  BY DEF Stepping, LedgerInv, LedgerTypeOK, CloseWrite, CallOK, CallShape
<1>2. n \in Number
  BY <1>1, CallFields, MaxCallsOK DEF Number
<1>3. /\ d \in Call /\ d.pc = "answered" /\ d.made = n /\ d.verdict = c.verdict
  BY <1>1 DEF Call, RowStatus
<1>4. UNCHANGED <<thread, attemptNo, crashes, status, leaseOwner>> /\ CallMoves(r, k, d)
  BY DEF CloseWrite, CallMoves, vars, rowVars, processVars
<1>5. call'[r][k] = d
  BY <1>3, <1>4, CallMoved
<1>6. /\ ledger' \in [Run -> [Attempt -> [Number -> RowStatus]]]
      /\ ledger'[r][k][n] = c.stamp
      /\ \A m \in Number : m # n => ledger'[r][k][m] = ledger[r][k][m]
      /\ \A q \in Run, j \in Attempt : q # r \/ j # k => ledger'[q][j] = ledger[q][j]
  BY <1>1, <1>2, RowReplaced, CallFields DEF CloseWrite, Stepping, LedgerInv, LedgerTypeOK
<1>7. ledger[r][k][n] # "accepted"
  BY <1>1, <1>2 DEF CallOK, RowsInOrder
<1>8. \A q \in Run : AuditKept(q)
  BY <1>6, <1>7 DEF AuditKept
<1> HIDE DEF d
<1>9. CallShape(r, k)'
  BY <1>1, <1>3, <1>4, <1>5 DEF CallShape
<1>10. AnswerAudited(r, k)'
  <2> SUFFICES ASSUME c.verdict = "accepted", Owned(r, thread[r][k].worker)
               PROVE  Audited(r, k)'
    BY <1>3, <1>4, <1>5 DEF AnswerAudited, Owned
  <2>1. c.stamp = "accepted"
    BY <1>1 DEF CallOK, AnswerAudited
  <2>. QED  BY <1>2, <1>6, <2>1 DEF Audited
<1>11. RowsInOrder(r, k)'
  <2>1. ASSUME NEW m \in Number, m > n PROVE ledger'[r][k][m] = "none"
    <3>1. m # n
      BY <1>2, <2>1, NumberIsNat
    <3>. QED  BY <1>1, <1>6, <2>1, <3>1 DEF CallOK, RowsInOrder
  <2>2. ~(thread'[r][k].pc = "claimed" \/ k > attemptNo'[r])
    BY <1>1, <1>2, <1>4, RowsOfNewClaims
  <2>. QED  BY <1>3, <1>5, <2>1, <2>2 DEF RowsInOrder
<1>12. HeldAudited(r, k)'
  BY <1>1, <1>4, <1>8, HeldStays DEF CallOK, Stepping
<1>13. OpenRowsAreCalled(r, k)'
  BY <1>1, <1>3, <1>4, <1>5, <1>6 DEF CallOK, OpenRowsAreCalled
<1>. QED  BY <1>3, <1>4, <1>6, <1>8, <1>9, <1>10, <1>11, <1>12, <1>13, OneCallMoves DEF CallOK

LEMMA TryAgainKeeps ==
  ASSUME Stepping, NEW r \in Run, NEW k \in Attempt, TryAgain(r, k)
  PROVE  LedgerInv'
<1> DEFINE c == call[r][k]
           d == [c EXCEPT !.pc = "idle", !.verdict = "none"]
<1>1. c \in Call /\ CallOK(r, k) /\ c.pc = "answered"
  BY DEF Stepping, LedgerInv, LedgerTypeOK, TryAgain
<1>2. d \in Call /\ d.pc = "idle" /\ d.made = c.made
  BY <1>1 DEF Call
<1>3. UNCHANGED <<thread, attemptNo, crashes, ledger>> /\ CallMoves(r, k, d)
  BY DEF TryAgain, CallMoves, vars, rowVars, processVars
<1>4. call'[r][k] = d
  BY <1>2, <1>3, CallMoved
<1> HIDE DEF d
<1>5. CallShape(r, k)' /\ AnswerAudited(r, k)'
  BY <1>2, <1>4 DEF CallShape, AnswerAudited
<1>6. RowsInOrder(r, k)' /\ HeldAudited(r, k)' /\ OpenRowsAreCalled(r, k)'
  BY <1>1, <1>2, <1>3, <1>4 DEF CallOK, RowsInOrder, HeldAudited, Audited, OpenRowsAreCalled
<1>. QED  BY <1>2, <1>3, <1>5, <1>6, OneCallMoves, UnchangedLedger
     DEF CallOK, Stepping, LedgerInv, LedgerTypeOK

-----------------------------------------------------------------------------
\* Steps of one thread

LEMMA RowsKeptAudited ==
  ASSUME NEW r \in Run, \A k \in Attempt : RowsKept(r, k)
  PROVE  AuditKept(r)
  BY DEF RowsKept, AuditKept

\* A thread ends between two calls, or in one whose row is closed.
LEMMA ThreadEnds ==
  ASSUME Stepping, NEW r \in Run, NEW k \in Attempt,
         UNCHANGED <<attemptNo, crashes, accepted>>,
         LedgerTypeOK',
         \A q \in Run, j \in Attempt : RowsKept(q, j),
         crashes = 0 => \A n \in Number : ledger'[r][k][n] # "running",
         \A q \in Run, j \in Attempt : q # r \/ j # k =>
           /\ thread'[q][j] = thread[q][j]
           /\ \/ call'[q][j] = call[q][j]
              \/ thread[q][j].pc # "running" /\ call'[q][j] = NoCall,
         thread'[r][k].pc \notin {"running", "claimed"},
         \A s \in Checkpointed : thread'[r][k].held[s] \in {0, thread[r][k].held[s]},
         call'[r][k] = NoCall
  PROVE  LedgerInv'
<1>1. \A q \in Run : AuditKept(q)
  BY RowsKeptAudited
<1>2. /\ \A q \in Run : attemptNo'[q] >= attemptNo[q]
      /\ attemptNo'[r] \in Nat
  BY ConstantsOK DEF Stepping, TypeOK, Output
<1>3. CallOK(r, k)'
  BY <1>1, <1>2, CallIsOver DEF Stepping, LedgerInv
<1>4. AcceptedOutputsAreAudited'
  BY <1>1, AcceptedStay DEF Stepping, LedgerInv
<1>. QED  BY <1>1, <1>2, <1>3, <1>4, OneClaimSteps

\* The same, for an end by EndThread.
LEMMA EndThreadKeeps ==
  ASSUME Stepping, NEW r \in Run, NEW k \in Attempt,
         NEW p \in {"error", "transient", "fenced"},
         EndThread(r, k, p),
         UNCHANGED <<attemptNo, crashes, accepted>>,
         LedgerTypeOK',
         \A q \in Run, j \in Attempt : RowsKept(q, j),
         crashes = 0 => \A n \in Number : ledger'[r][k][n] # "running",
         \A q \in Run, j \in Attempt : q # r \/ j # k =>
           \/ call'[q][j] = call[q][j]
           \/ thread[q][j].pc # "running" /\ call'[q][j] = NoCall,
         call'[r][k] = NoCall
  PROVE  LedgerInv'
<1>1. /\ \A q \in Run, j \in Attempt :
           q # r \/ j # k => thread'[q][j] = thread[q][j]
      /\ \/ thread'[r][k] = NoThread
         \/ thread'[r][k] = [thread[r][k] EXCEPT !.pc = p]
  BY EndThreadEffect DEF Stepping, TypeOK
<1>2. thread[r][k] \in Thread
  BY DEF Stepping, TypeOK
<1>3. /\ thread'[r][k].pc \notin {"running", "claimed"}
      /\ \A s \in Checkpointed : thread'[r][k].held[s] \in {0, thread[r][k].held[s]}
  <2>1. CASE thread'[r][k] = NoThread
    BY <2>1, ConstantsOK DEF NoThread, NoOutput
  <2>2. CASE thread'[r][k] = [thread[r][k] EXCEPT !.pc = p]
    BY <1>2, <2>2 DEF Thread
  <2>. QED  BY <1>1, <2>1, <2>2
<1>. QED  BY <1>1, <1>3, ThreadEnds

\* No row of a claim is open unless its call is under way, or a process crashed.
LEMMA NoOpenRow ==
  ASSUME Stepping, NEW r \in Run, NEW k \in Attempt, crashes = 0,
         call[r][k].pc \notin {"calling", "closing"}
  PROVE  \A n \in Number : ledger[r][k][n] # "running"
  BY DEF Stepping, LedgerInv, CallOK, OpenRowsAreCalled

LEMMA DroppedAtEnd ==
  ASSUME Stepping, NEW r \in Run, NEW k \in Attempt,
         NEW p \in {"error", "transient", "fenced"},
         EndThread(r, k, p), DropEndedCalls,
         UNCHANGED <<attemptNo, crashes, accepted>>,
         ledger' \in [Run -> [Attempt -> [Number -> RowStatus]]] \/ UNCHANGED ledger,
         \A q \in Run, j \in Attempt : RowsKept(q, j),
         crashes = 0 => \A n \in Number : ledger'[r][k][n] # "running"
  PROVE  LedgerInv'
<1>1. LedgerTypeOK' /\ \A q \in Run, j \in Attempt :
        call'[q][j] = IF thread'[q][j].pc = "running" THEN call[q][j] ELSE NoCall
  BY CallsDropped DEF Stepping, LedgerInv, LedgerTypeOK
<1>2. /\ \A q \in Run, j \in Attempt :
           q # r \/ j # k => thread'[q][j] = thread[q][j]
      /\ \/ thread'[r][k] = NoThread
         \/ thread'[r][k] = [thread[r][k] EXCEPT !.pc = p]
  BY EndThreadEffect DEF Stepping, TypeOK
<1>3. thread'[r][k].pc # "running"
  <2>1. thread[r][k] \in Thread
    BY DEF Stepping, TypeOK
  <2>. QED  BY <1>2, <2>1 DEF Thread, NoThread
<1>. QED  BY <1>1, <1>2, <1>3, EndThreadKeeps

LEMMA RaiseKeeps ==
  ASSUME Stepping, NEW r \in Run, NEW k \in Attempt,
         NEW outcome \in {"error", "transient"}, LedgerRaise(r, k, outcome)
  PROVE  LedgerInv'
<1>1. /\ EndThread(r, k, outcome) /\ DropEndedCalls
      /\ UNCHANGED <<attemptNo, crashes, accepted, ledger>>
      /\ call[r][k].pc \in {"answered", "idle"}
  BY DEF LedgerRaise, Raise, rowVars
<1>. QED  BY <1>1, DroppedAtEnd, NoOpenRow, UnchangedLedger

LEMMA EscapeKeeps ==
  ASSUME Stepping, NEW r \in Run, NEW k \in Attempt, LedgerEscape(r, k)
  PROVE  LedgerInv'
<1> DEFINE n == call[r][k].made
           x == IF ledger[r][k][n] = "running" THEN "left" ELSE ledger[r][k][n]
<1>1. /\ EndThread(r, k, "error") /\ DropEndedCalls
      /\ UNCHANGED <<attemptNo, crashes, accepted>>
      /\ ledger' = [ledger EXCEPT ![r][k][n] = x]
      /\ call[r][k].pc = "calling"
  BY DEF LedgerEscape, Raise, rowVars
<1>2. n \in Number
  <2>1. call[r][k] \in Call /\ n # 0
    BY <1>1 DEF Stepping, LedgerInv, LedgerTypeOK, CallOK, CallShape
  <2>. QED  BY <2>1, CallFields, MaxCallsOK DEF Number
<1>3. x \in RowStatus
  BY <1>2 DEF Stepping, LedgerInv, LedgerTypeOK, RowStatus
<1> HIDE DEF x
<1>4. /\ ledger' \in [Run -> [Attempt -> [Number -> RowStatus]]]
      /\ ledger'[r][k][n] = x
      /\ \A m \in Number : m # n => ledger'[r][k][m] = ledger[r][k][m]
      /\ \A q \in Run, j \in Attempt : q # r \/ j # k => ledger'[q][j] = ledger[q][j]
  BY <1>1, <1>2, <1>3, RowReplaced DEF Stepping, LedgerInv, LedgerTypeOK
<1>5. \A q \in Run, j \in Attempt : RowsKept(q, j)
  BY <1>4 DEF RowsKept, x
<1>6. crashes = 0 => \A m \in Number : ledger'[r][k][m] # "running"
  <2>1. crashes = 0 => \A m \in Number : ledger[r][k][m] = "running" => m = n
    BY DEF Stepping, LedgerInv, CallOK, OpenRowsAreCalled
  <2>. QED  BY <1>4, <2>1 DEF x
<1>. QED  BY <1>1, <1>4, <1>5, <1>6, DroppedAtEnd

LEMMA ReturnKeeps ==
  ASSUME Stepping, NEW r \in Run, NEW k \in Attempt, LedgerReturn(r, k)
  PROVE  LedgerInv'
<1>1. /\ DropEndedCalls /\ call[r][k].pc = "idle"
      /\ UNCHANGED <<attemptNo, crashes, accepted, ledger>>
      /\ thread[r][k] \in Thread
  BY DEF LedgerReturn, Return, rowVars, Stepping, TypeOK
<1>2. CASE EndThread(r, k, "error")
  BY <1>1, <1>2, DroppedAtEnd, NoOpenRow, UnchangedLedger
<1>3. ASSUME ~EndThread(r, k, "error") PROVE LedgerInv'
  <2> DEFINE h == [s \in Step |-> IF s \in Checkpointed THEN thread[r][k].held[s] ELSE k]
             t == IF thread[r][k].attached
                  THEN [thread[r][k] EXCEPT !.pc = "returned", !.held = h]
                  ELSE NoThread
  <2>1. thread' = [thread EXCEPT ![r][k] = t]
    BY <1>3 DEF LedgerReturn, Return
  <2>2. /\ thread'[r][k] = t
        /\ \A q \in Run, j \in Attempt :
             q # r \/ j # k => thread'[q][j] = thread[q][j]
    BY <2>1 DEF Stepping, TypeOK
  <2>3. t.pc \notin {"running", "claimed"}
    BY <1>1 DEF Thread, NoThread
  <2>4. \A s \in Checkpointed : t.held[s] \in {0, thread[r][k].held[s]}
    <3>1. CASE thread[r][k].attached
      <4>1. t.held = h
        BY <1>1, <3>1 DEF Thread
      <4>. QED  BY <4>1, ConstantsOK
    <3>2. CASE ~thread[r][k].attached
      BY <3>2, ConstantsOK DEF NoThread, NoOutput
    <3>. QED  BY <3>1, <3>2
  <2> HIDE DEF t
  <2>5. LedgerTypeOK' /\ \A q \in Run, j \in Attempt :
          call'[q][j] = IF thread'[q][j].pc = "running" THEN call[q][j] ELSE NoCall
    BY <1>1, CallsDropped DEF Stepping, LedgerInv, LedgerTypeOK
  <2>. QED  BY <1>1, <2>2, <2>3, <2>4, <2>5, ThreadEnds, NoOpenRow, UnchangedLedger
<1>. QED  BY <1>2, <1>3

LEMMA LaunchKeeps ==
  ASSUME Stepping, NEW r \in Run, NEW k \in Attempt, LedgerLaunch(r, k)
  PROVE  LedgerInv'
<1> DEFINE c == [NoCall EXCEPT !.prior = Cardinality(Rows(r))]
           t == [thread[r][k] EXCEPT !.pc = "running", !.held = accepted[r]]
<1>1. /\ thread[r][k].pc = "claimed"
      /\ thread' = [thread EXCEPT ![r][k] = t]
      /\ call' = [call EXCEPT ![r][k] = c]
      /\ UNCHANGED <<attemptNo, crashes, accepted, ledger>>
      /\ thread[r][k] \in Thread
      /\ CallOK(r, k)
  <2>1. thread' = [thread EXCEPT ![r][k] = t] /\ thread[r][k].pc = "claimed"
    BY DEF LedgerLaunch, Launch
  <2>2. call' = [call EXCEPT ![r][k] = c]
    BY DEF LedgerLaunch
  <2>3. UNCHANGED <<attemptNo, crashes, accepted, ledger>>
    BY DEF LedgerLaunch, Launch, rowVars
  <2>. QED  BY <2>1, <2>2, <2>3 DEF Stepping, TypeOK, LedgerInv
<1>2. c \in Call /\ c.pc = "idle" /\ c.made = 0
  <2>1. Cardinality(Rows(r)) \in Nat
    <3>1. IsFiniteSet(Attempt) /\ IsFiniteSet(Number)
      BY FS_Interval, ConstantsOK, MaxCallsOK DEF Attempt, Number
    <3>2. IsFiniteSet(Attempt \X Number)
      BY <3>1, FS_Product
    <3>3. Rows(r) \subseteq Attempt \X Number
      BY DEF Rows
    <3>. QED  BY <3>2, <3>3, FS_Subset, FS_CardinalityType
  <2> DEFINE x == Cardinality(Rows(r))
  <2> HIDE DEF x
  <2>2. x \in Nat
    BY <2>1 DEF x
  <2>3. /\ [NoCall EXCEPT !.prior = x] \in Call
        /\ [NoCall EXCEPT !.prior = x].pc = "idle"
        /\ [NoCall EXCEPT !.prior = x].made = 0
    BY <2>2, MaxCallsOK DEF NoCall, Call, RowStatus
  <2>. QED  BY <2>3 DEF x
<1> HIDE DEF c
<1>3. /\ call' \in [Run -> [Attempt -> Call]]
      /\ call'[r][k] = c
      /\ \A q \in Run, j \in Attempt : q # r \/ j # k => call'[q][j] = call[q][j]
  BY <1>1, <1>2, CallReplaced DEF Stepping, LedgerInv, LedgerTypeOK
<1>4. /\ thread'[r][k] = t
      /\ \A q \in Run, j \in Attempt : q # r \/ j # k => thread'[q][j] = thread[q][j]
  BY <1>1 DEF Stepping, TypeOK
<1>5. t.held = accepted[r]
  BY <1>1 DEF Thread
<1> HIDE DEF t
<1>6. \A n \in Number : ledger'[r][k][n] = "none"
  BY <1>1 DEF CallOK, RowsInOrder
<1>7. CallShape(r, k)' /\ AnswerAudited(r, k)' /\ RowsInOrder(r, k)' /\ OpenRowsAreCalled(r, k)'
  BY <1>2, <1>3, <1>6 DEF CallShape, AnswerAudited, RowsInOrder, OpenRowsAreCalled
<1>8. HeldAudited(r, k)'
  BY <1>1, <1>4, <1>5 DEF HeldAudited, Audited, Stepping, LedgerInv, AcceptedOutputsAreAudited
<1>9. AcceptedOutputsAreAudited' /\ LedgerTypeOK'
  BY <1>1, <1>3 DEF Stepping, LedgerInv, AcceptedOutputsAreAudited, LedgerTypeOK
<1>10. \A q \in Run : attemptNo'[q] >= attemptNo[q]
  BY <1>1, ConstantsOK DEF Stepping, TypeOK, Output
<1>. QED  BY <1>1, <1>3, <1>4, <1>7, <1>8, <1>9, <1>10, UnchangedLedger, OneClaimSteps DEF CallOK

LEMMA ClaimKeeps ==
  ASSUME Stepping, NEW r \in Run, NEW w \in Worker, LedgerClaim(w, r)
  PROVE  LedgerInv'
<1> PICK k \in Attempt : k = attemptNo[r] + 1
  BY ConstantsOK DEF LedgerClaim, Claim, Claimable, Attempt, Output, Stepping, TypeOK
<1> DEFINE t == [NoThread EXCEPT !.worker = w, !.attached = TRUE, !.pc = "claimed"]
<1>1. /\ k \in Nat /\ attemptNo[r] \in Nat
      /\ k > attemptNo[r]
  BY ConstantsOK DEF LedgerClaim, Claim, Claimable, Attempt, Output, Stepping, TypeOK
<1>2. /\ attemptNo' = [attemptNo EXCEPT ![r] = k]
      /\ thread' = [thread EXCEPT ![r][k] = t]
      /\ UNCHANGED <<accepted, crashes, call>>
  BY DEF LedgerClaim, Claim
<1>3. /\ thread'[r][k] = t
      /\ \A q \in Run, j \in Attempt : q # r \/ j # k => thread'[q][j] = thread[q][j]
  BY <1>1, <1>2 DEF Stepping, TypeOK
<1>4. t.pc = "claimed" /\ t.held = NoOutput
  BY DEF NoThread
<1> HIDE DEF t
<1>5. /\ ledger' \in [Run -> [Attempt -> [Number -> RowStatus]]]
      /\ \A q \in Run, j \in Attempt : RowsKept(q, j)
  <2> DEFINE L == [j \in Attempt |-> [n \in Number |->
                     IF ledger[r][j][n] \in {"running", "left"} THEN "expired"
                     ELSE ledger[r][j][n]]]
  <2>1. ledger \in [Run -> [Attempt -> [Number -> RowStatus]]]
    BY DEF Stepping, LedgerInv, LedgerTypeOK
  <2>2. CASE ledger' = ledger
    BY <2>1, <2>2 DEF RowsKept
  <2>3. CASE ledger' = [ledger EXCEPT ![r] = L]
    <3>1. L \in [Attempt -> [Number -> RowStatus]]
      BY <2>1 DEF RowStatus
    <3>2. ledger' \in [Run -> [Attempt -> [Number -> RowStatus]]]
      BY <2>1, <2>3, <3>1
    <3>3. ledger'[r] = L /\ \A q \in Run : q # r => ledger'[q] = ledger[q]
      BY <2>1, <2>3
    <3>. QED  BY <3>2, <3>3 DEF RowsKept
  <2>. QED  BY <2>2, <2>3 DEF LedgerClaim
<1>6. \A q \in Run : AuditKept(q)
  BY <1>5, RowsKeptAudited
<1>7. CallOK(r, k)
  BY <1>1 DEF Stepping, LedgerInv
<1>8. call[r][k].pc = "idle"
  <2>1. thread[r][k].pc = "none"
    BY <1>1 DEF Stepping, Control, ThreadsKnown
  <2>. QED  BY <1>7, <2>1 DEF CallOK, CallShape
<1>9. \A n \in Number : ledger'[r][k][n] = "none"
  BY <1>1, <1>5, <1>7 DEF CallOK, RowsInOrder, RowsKept
<1>10. CallShape(r, k)' /\ AnswerAudited(r, k)' /\ RowsInOrder(r, k)' /\ OpenRowsAreCalled(r, k)'
  <2>1. call'[r][k].pc = "idle" /\ thread'[r][k].pc = "claimed"
    BY <1>2, <1>3, <1>4, <1>8
  <2>. QED  BY <2>1, <1>9 DEF CallShape, AnswerAudited, RowsInOrder, OpenRowsAreCalled
<1>11. HeldAudited(r, k)'
  <2>1. \A s \in Checkpointed : thread'[r][k].held[s] = 0
    BY <1>3, <1>4, ConstantsOK DEF NoOutput
  <2>. QED  BY <2>1 DEF HeldAudited
<1>12. AcceptedOutputsAreAudited' /\ LedgerTypeOK'
  BY <1>2, <1>5, <1>6, AcceptedStay DEF Stepping, LedgerInv, LedgerTypeOK
<1>13. \A q \in Run : attemptNo'[q] >= attemptNo[q]
  BY <1>1, <1>2, ConstantsOK DEF Stepping, TypeOK, Output
<1>14. CallOK(r, k)'
  BY <1>10, <1>11 DEF CallOK
<1>. QED  BY <1>1, <1>2, <1>3, <1>5, <1>6, <1>12, <1>13, <1>14, OneClaimSteps

LEMMA SkipKeeps ==
  ASSUME Stepping, NEW r \in Run, NEW k \in Attempt, NEW s \in Checkpointed,
         LedgerSkip(r, k, s)
  PROVE  LedgerInv'
<1> DEFINE c == [call[r][k] EXCEPT !.pc = "idle", !.verdict = "none"]
           t == [thread[r][k] EXCEPT !.skipped = @ \cup {s}]
<1>1. /\ thread' = [thread EXCEPT ![r][k] = t]
      /\ UNCHANGED <<attemptNo, crashes, accepted, ledger>>
      /\ thread[r][k] \in Thread /\ thread[r][k].pc = "running"
  BY DEF LedgerSkip, SkipStep, rowVars, Stepping, TypeOK
<1>2. /\ call' = [call EXCEPT ![r][k] = c]
      /\ call[r][k] \in Call /\ CallOK(r, k) /\ call[r][k].pc = "answered"
  BY DEF LedgerSkip, Stepping, LedgerInv, LedgerTypeOK
<1>3. c \in Call /\ c.pc = "idle" /\ c.made = call[r][k].made
  BY <1>2 DEF Call
<1> HIDE DEF c
<1>4. /\ call' \in [Run -> [Attempt -> Call]]
      /\ call'[r][k] = c
      /\ \A q \in Run, j \in Attempt : q # r \/ j # k => call'[q][j] = call[q][j]
  BY <1>2, <1>3, CallReplaced DEF Stepping, LedgerInv, LedgerTypeOK
<1>5. /\ thread'[r][k] = t
      /\ \A q \in Run, j \in Attempt : q # r \/ j # k => thread'[q][j] = thread[q][j]
  BY <1>1 DEF Stepping, TypeOK
<1>6. t.held = thread[r][k].held /\ t.pc = "running"
  BY <1>1 DEF Thread
<1> HIDE DEF t
<1>7. CallShape(r, k)' /\ AnswerAudited(r, k)' /\ RowsInOrder(r, k)' /\ OpenRowsAreCalled(r, k)'
  BY <1>1, <1>2, <1>3, <1>4, <1>5, <1>6
  DEF CallOK, CallShape, AnswerAudited, RowsInOrder, OpenRowsAreCalled
<1>8. HeldAudited(r, k)'
  BY <1>1, <1>2, <1>5, <1>6, HeldStays, UnchangedLedger DEF CallOK, Stepping
<1>9. AcceptedOutputsAreAudited' /\ LedgerTypeOK'
  BY <1>1, <1>4 DEF Stepping, LedgerInv, AcceptedOutputsAreAudited, LedgerTypeOK
<1>10. \A q \in Run : attemptNo'[q] >= attemptNo[q]
  BY <1>1, ConstantsOK DEF Stepping, TypeOK, Output
<1>. QED  BY <1>1, <1>4, <1>5, <1>7, <1>8, <1>9, <1>10, UnchangedLedger, OneClaimSteps DEF CallOK

\* The output of an accepted answer is saved only while the thread owns the run,
\* and then its row says so.
LEMMA SaveKeeps ==
  ASSUME Stepping, NEW r \in Run, NEW k \in Attempt, NEW s \in Checkpointed,
         LedgerSave(r, k, s)
  PROVE  LedgerInv'
<1>1. /\ call[r][k].pc = "answered" /\ call[r][k].verdict = "accepted"
      /\ call[r][k] \in Call /\ CallOK(r, k)
      /\ thread[r][k] \in Thread /\ thread[r][k].pc = "running" /\ s \in Step
      /\ UNCHANGED <<attemptNo, crashes, ledger>>
  BY ConstantsOK DEF LedgerSave, SaveCheckpoint, Stepping, LedgerInv, LedgerTypeOK, TypeOK
<1> DEFINE d == [call[r][k] EXCEPT !.pc = "idle", !.verdict = "none"]
           c == IF thread'[r][k].pc = "running" THEN d ELSE NoCall
<1>2. d \in Call /\ d.pc = "idle" /\ d.made = call[r][k].made
  BY <1>1 DEF Call
<1>3. call' = [call EXCEPT ![r][k] = c]
  BY DEF LedgerSave
<1>4. /\ call' \in [Run -> [Attempt -> Call]]
      /\ call'[r][k] = c
      /\ \A q \in Run, j \in Attempt : q # r \/ j # k => call'[q][j] = call[q][j]
  <2> HIDE DEF d
  <2>1. c \in Call
    BY <1>2, NoCallFields
  <2> HIDE DEF c
  <2>. QED  BY <1>3, <2>1, CallReplaced DEF Stepping, LedgerInv, LedgerTypeOK
<1>5. LedgerTypeOK'
  BY <1>1, <1>4 DEF LedgerTypeOK, Stepping, LedgerInv
<1> HIDE DEF d
<1>6. CASE EndThread(r, k, "fenced") /\ UNCHANGED accepted
  <2>1. thread'[r][k].pc # "running"
    <3>1. \/ thread'[r][k] = NoThread
          \/ thread'[r][k] = [thread[r][k] EXCEPT !.pc = "fenced"]
      BY <1>6, EndThreadEffect DEF Stepping, TypeOK
    <3>. QED  BY <1>1, <3>1 DEF Thread, NoThread
  <2>. QED  BY <1>1, <1>4, <1>5, <1>6, <2>1, EndThreadKeeps, NoOpenRow, UnchangedLedger
<1>7. CASE /\ Owned(r, thread[r][k].worker)
           /\ accepted' = [accepted EXCEPT ![r][s] = k]
           /\ thread' = [thread EXCEPT ![r][k].held[s] = k]
  <2> DEFINE h == [thread[r][k].held EXCEPT ![s] = k]
             t == [thread[r][k] EXCEPT !.held = h]
  <2>1. thread' = [thread EXCEPT ![r][k] = t]
    BY <1>7
  <2>2. /\ thread'[r][k] = t
        /\ \A q \in Run, j \in Attempt : q # r \/ j # k => thread'[q][j] = thread[q][j]
    BY <2>1 DEF Stepping, TypeOK
  <2>3. t.held = h /\ t.pc = "running"
    BY <1>1 DEF Thread
  <2> HIDE DEF t
  <2>4. Audited(r, k)
    BY <1>1, <1>7 DEF CallOK, AnswerAudited
  <2>5. call'[r][k] = d
    BY <1>4, <2>2, <2>3
  <2>6. CallShape(r, k)' /\ AnswerAudited(r, k)' /\ RowsInOrder(r, k)' /\ OpenRowsAreCalled(r, k)'
    BY <1>1, <1>2, <2>2, <2>3, <2>5
    DEF CallOK, CallShape, AnswerAudited, RowsInOrder, OpenRowsAreCalled
  <2>7. HeldAudited(r, k)'
    <3>1. thread[r][k].held \in [Step -> Output] /\ Checkpointed \subseteq Step
      BY <1>1, ThreadFields, ConstantsOK
    <3>2. \A p \in Checkpointed : h[p] # 0 => Audited(r, h[p])
      BY <1>1, <2>4, <3>1 DEF CallOK, HeldAudited
    <3> HIDE DEF h
    <3>. QED  BY <1>1, <2>2, <2>3, <3>2 DEF HeldAudited, Audited
  <2>8. AcceptedOutputsAreAudited'
    <3>1. ASSUME NEW q \in Run, NEW p \in Checkpointed
          PROVE  \/ accepted'[q][p] \in {0, accepted[q][p]}
                 \/ accepted'[q][p] \in Attempt /\ Audited(q, accepted'[q][p])
      <4>1. accepted \in [Run -> [Step -> Output]] /\ p \in Step
        BY ConstantsOK DEF Stepping, TypeOK
      <4>2. CASE q = r /\ p = s
        BY <1>1, <1>7, <2>4, <4>1, <4>2
      <4>3. CASE q # r \/ p # s
        BY <1>7, <4>1, <4>3
      <4>. QED  BY <4>2, <4>3
    <3>. QED  BY <1>1, <3>1, AcceptedStay, UnchangedLedger DEF Stepping, LedgerInv
  <2>9. \A q \in Run : attemptNo'[q] >= attemptNo[q]
    BY <1>1, ConstantsOK DEF Stepping, TypeOK, Output
  <2>. QED  BY <1>1, <1>4, <1>5, <2>2, <2>6, <2>7, <2>8, <2>9, UnchangedLedger, OneClaimSteps
       DEF CallOK
<1>. QED  BY <1>6, <1>7 DEF LedgerSave, SaveCheckpoint

-----------------------------------------------------------------------------
\* Steps that write no row

\* They start no thread; without a crash they end none at work.
LEMMA OtherThreads ==
  ASSUME Stepping, OtherStep
  PROVE  /\ UNCHANGED <<attemptNo, ledger>> /\ DropEndedCalls
         /\ crashes' = 0 => crashes = 0
         /\ \A q \in Run, j \in Attempt :
              \/ /\ thread'[q][j].pc = thread[q][j].pc
                 /\ thread'[q][j].worker = thread[q][j].worker
                 /\ thread'[q][j].held = thread[q][j].held
              \/ /\ thread'[q][j] = NoThread
                 /\ crashes' # 0 \/ thread[q][j].pc # "running"
<1> DEFINE Good == /\ attemptNo' = attemptNo
                   /\ crashes' = 0 => crashes = 0
                   /\ \A q \in Run, j \in Attempt :
                        \/ /\ thread'[q][j].pc = thread[q][j].pc
                           /\ thread'[q][j].worker = thread[q][j].worker
                           /\ thread'[q][j].held = thread[q][j].held
                        \/ /\ thread'[q][j] = NoThread
                           /\ crashes' # 0 \/ thread[q][j].pc # "running"
<1>1. ASSUME NEW r \in Run, ApiStep(r) \/ LeaseExpires(r) \/ RetryComesDue(r) PROVE Good
  BY <1>1 DEF ApiStep, Enqueue, Cancel, LeaseExpires, RetryComesDue, processVars
<1>2. ASSUME NEW r \in Run, NEW k \in Attempt, Abandon(r, k), UNCHANGED <<attemptNo, crashes>>
      PROVE  Good
  <2>1. thread[r][k] \in Thread
    BY DEF Stepping, TypeOK
  <2> DEFINE t == IF thread[r][k].pc = "running"
                  THEN [thread[r][k] EXCEPT !.attached = FALSE] ELSE NoThread
  <2>2. thread' = [thread EXCEPT ![r][k] = t]
    BY <1>2 DEF Abandon
  <2>3. /\ thread'[r][k] = t
        /\ \A q \in Run, j \in Attempt : q # r \/ j # k => thread'[q][j] = thread[q][j]
    BY <2>2 DEF Stepping, TypeOK
  <2>4. \/ t = NoThread /\ thread[r][k].pc # "running"
        \/ /\ t.pc = thread[r][k].pc /\ t.worker = thread[r][k].worker
           /\ t.held = thread[r][k].held
    BY <2>1 DEF Thread
  <2> HIDE DEF t
  <2>. QED  BY <1>2, <2>3, <2>4
<1>3. ASSUME NEW r \in Run, NEW k \in Attempt, Heartbeat(r, k) PROVE Good
  BY <1>2, <1>3 DEF Heartbeat
<1>4. ASSUME NEW r \in Run, NEW k \in Attempt,
             Complete(r, k) \/ Dismiss(r, k) \/ \E retryable \in BOOLEAN : Fail(r, k, retryable)
      PROVE  Good
  BY <1>2, <1>4 DEF Complete, Fail, Dismiss, rowVars
<1>5. ASSUME NEW w \in Worker, Crash(w) PROVE Good
  BY <1>5, ConstantsOK DEF Crash, rowVars, Stepping, TypeOK
<1>6. ASSUME NEW w \in Worker, Restart(w) PROVE Good
  BY <1>6 DEF Restart, rowVars
<1>7. Good
  BY <1>1, <1>3, <1>4, <1>5, <1>6 DEF OtherStep
<1>. QED  BY <1>7 DEF OtherStep

\* Only complete accepts outputs, and only those its thread holds.
LEMMA OtherAccepts ==
  ASSUME Stepping, OtherStep
  PROVE  \A q \in Run, s \in Checkpointed :
           \/ accepted'[q][s] = accepted[q][s]
           \/ \E j \in Attempt : accepted'[q][s] = thread[q][j].held[s]
<1>1. CASE UNCHANGED accepted
  BY <1>1
<1>2. ASSUME NEW r \in Run, NEW k \in Attempt, Complete(r, k), accepted' # accepted,
             NEW q \in Run, NEW s \in Checkpointed
      PROVE  \/ accepted'[q][s] = accepted[q][s]
             \/ \E j \in Attempt : accepted'[q][s] = thread[q][j].held[s]
  <2>1. accepted \in [Run -> [Step -> Output]] /\ s \in Step
    BY ConstantsOK DEF Stepping, TypeOK
  <2>2. accepted' = [accepted EXCEPT ![r] =
                       [p \in Step |-> IF thread[r][k].held[p] # 0
                                       THEN thread[r][k].held[p] ELSE accepted[r][p]]]
    BY <1>2 DEF Complete
  <2>. QED  BY <2>1, <2>2
<1>3. UNCHANGED accepted \/ \E r \in Run, k \in Attempt : Complete(r, k)
  BY DEF OtherStep, ApiStep, Enqueue, Cancel, LeaseExpires, RetryComesDue, Heartbeat, Fail,
         Dismiss, Crash, Restart, rowVars
<1>. QED  BY <1>1, <1>2, <1>3

LEMMA OtherKeeps ==
  ASSUME Stepping, OtherStep
  PROVE  LedgerInv'
<1>1. /\ UNCHANGED <<attemptNo, ledger>> /\ DropEndedCalls
      /\ crashes' = 0 => crashes = 0
      /\ \A q \in Run : attemptNo'[q] >= attemptNo[q] /\ attemptNo'[q] \in Nat
  BY OtherThreads, ConstantsOK DEF Stepping, TypeOK, Output
<1>2. LedgerTypeOK' /\ \A q \in Run, j \in Attempt :
        call'[q][j] = IF thread'[q][j].pc = "running" THEN call[q][j] ELSE NoCall
  BY <1>1, CallsDropped DEF Stepping, LedgerInv, LedgerTypeOK
<1>3. \A q \in Run : AuditKept(q) /\ \A j \in Attempt : RowsKept(q, j)
  BY <1>1, UnchangedLedger
<1>4. ASSUME NEW q \in Run, NEW j \in Attempt PROVE CallOK(q, j)'
  <2>1. CallOK(q, j)
    BY DEF Stepping, LedgerInv
  <2>2. CASE /\ thread'[q][j].pc = thread[q][j].pc
             /\ thread'[q][j].worker = thread[q][j].worker
             /\ thread'[q][j].held = thread[q][j].held
    BY <1>1, <1>2, <1>3, <2>1, <2>2, CallGoesOn DEF Stepping
  <2>3. CASE /\ thread'[q][j] = NoThread
             /\ crashes' # 0 \/ thread[q][j].pc # "running"
    <3>1. /\ thread'[q][j].pc \notin {"running", "claimed"}
          /\ \A s \in Checkpointed : thread'[q][j].held[s] \in {0, thread[q][j].held[s]}
      BY <2>3, ConstantsOK DEF NoThread, NoOutput
    <3>2. crashes' = 0 => \A n \in Number : ledger'[q][j][n] # "running"
      BY <1>1, <2>1, <2>3 DEF CallOK, CallShape, OpenRowsAreCalled
    <3>. QED  BY <1>1, <1>2, <1>3, <2>1, <3>1, <3>2, CallIsOver DEF Stepping
  <2>. QED  BY <2>2, <2>3, OtherThreads
<1>5. AcceptedOutputsAreAudited'
  <2>1. ASSUME NEW q \in Run, NEW s \in Checkpointed
        PROVE  \/ accepted'[q][s] \in {0, accepted[q][s]}
               \/ accepted'[q][s] \in Attempt /\ Audited(q, accepted'[q][s])
    <3>1. ASSUME NEW j \in Attempt, accepted'[q][s] = thread[q][j].held[s], accepted'[q][s] # 0
          PROVE  accepted'[q][s] \in Attempt /\ Audited(q, accepted'[q][s])
      <4>1. thread[q][j] \in Thread /\ s \in Step
        BY ConstantsOK DEF Stepping, TypeOK
      <4>2. thread[q][j].held[s] \in Attempt
        BY <3>1, <4>1, ThreadFields, ConstantsOK DEF Output, Attempt
      <4>3. HeldAudited(q, j)
        BY DEF Stepping, LedgerInv, CallOK
      <4>. QED  BY <3>1, <4>2, <4>3 DEF HeldAudited
    <3>. QED  BY <3>1, OtherAccepts
  <2>. QED  BY <1>3, <2>1, AcceptedStay DEF Stepping, LedgerInv
<1>. QED  BY <1>2, <1>4, <1>5 DEF LedgerInv

-----------------------------------------------------------------------------
\* The theorems

LEMMA LedgerInvInit == LedgerInit => LedgerInv
<1> SUFFICES ASSUME LedgerInit PROVE LedgerInv
  OBVIOUS
<1>1. LedgerTypeOK
  BY NoCallFields DEF LedgerInit, LedgerTypeOK, RowStatus
<1>2. ASSUME NEW r \in Run, NEW k \in Attempt PROVE CallOK(r, k)
  <2>1. /\ call[r][k] = NoCall /\ thread[r][k] = NoThread
        /\ \A n \in Number : ledger[r][k][n] = "none"
    BY DEF LedgerInit, Init
  <2>2. thread[r][k].pc = "none" /\ \A s \in Checkpointed : thread[r][k].held[s] = 0
    BY <2>1, ConstantsOK DEF NoThread, NoOutput
  <2>. QED  BY <2>1, <2>2, NoCallFields
       DEF CallOK, CallShape, RowsInOrder, AnswerAudited, HeldAudited, OpenRowsAreCalled
<1>3. AcceptedOutputsAreAudited
  BY ConstantsOK DEF LedgerInit, Init, AcceptedOutputsAreAudited, NoOutput
<1>. QED  BY <1>1, <1>2, <1>3 DEF LedgerInv

LEMMA LedgerInvStep ==
  /\ TypeOK /\ Control /\ CancelledStays /\ LedgerInv
  /\ TypeOK' /\ Control' /\ [LedgerNext]_allVars
  => LedgerInv'
<1> SUFFICES ASSUME TypeOK, Control, CancelledStays, LedgerInv, TypeOK', Control',
                    [LedgerNext]_allVars
             PROVE  LedgerInv'
  OBVIOUS
<1>1. Stepping
  BY LedgerStepIsQueueStep DEF Stepping
<1>2. ASSUME NEW r \in Run, NEW k \in Attempt, CallStep(r, k) PROVE LedgerInv'
  BY <1>1, <1>2, OpenReadKeeps, OpenWriteKeeps, CloseReadKeeps, CloseWriteKeeps, TryAgainKeeps
  DEF CallStep
<1>3. CASE LedgerNext
  BY <1>1, <1>2, <1>3, OtherKeeps, ClaimKeeps, LaunchKeeps, SaveKeeps, SkipKeeps,
     RaiseKeeps, EscapeKeeps, ReturnKeeps DEF LedgerNext
<1>4. CASE UNCHANGED allVars
  BY <1>4 DEF allVars, ledgerVars, vars, rowVars, processVars, LedgerInv, LedgerTypeOK, CallOK,
     CallShape, RowsInOrder, AnswerAudited, HeldAudited, OpenRowsAreCalled, Audited, Owned,
     AcceptedOutputsAreAudited
<1>. QED  BY <1>3, <1>4

LEMMA LedgerInvHolds ==
  ASSUME MaxAttempts <= 2
  PROVE  LedgerSpec => []LedgerInv
<1>1. Spec => [](TypeOK /\ Control /\ CancelledStays)
  BY ControlHolds
<1>. QED  BY <1>1, LedgerInvInit, LedgerInvStep, LedgerImplementsQueue, PTL DEF LedgerSpec

\* Rows and calls keep their types.
THEOREM LedgerTypeCorrect ==
  ASSUME MaxAttempts <= 2
  PROVE  LedgerSpec => []LedgerTypeOK
<1>1. LedgerInv => LedgerTypeOK
  BY DEF LedgerInv
<1>. QED  BY <1>1, LedgerInvHolds, PTL

\* Every accepted output has an attempt recorded as accepted by the claim that
\* produced it, although the rows are written without the lock of the run.
THEOREM OutputsAreAudited ==
  ASSUME MaxAttempts <= 2
  PROVE  LedgerSpec => []AcceptedOutputsAreAudited
<1>1. LedgerInv => AcceptedOutputsAreAudited
  BY DEF LedgerInv
<1>. QED  BY <1>1, LedgerInvHolds, PTL

\* As long as no process crashed, an open row is one whose call is under way.
THEOREM RowsAreClosed ==
  ASSUME MaxAttempts <= 2
  PROVE  LedgerSpec => []OpenRowsHaveACall
<1>1. LedgerInv => OpenRowsHaveACall
  BY DEF LedgerInv, CallOK, OpenRowsAreCalled, OpenRowsHaveACall
<1>. QED  BY <1>1, LedgerInvHolds, PTL
=============================================================================
