----------------------------- MODULE CaseProofs -----------------------------
(***************************************************************************)
(* Proofs about CaseCommands.  What a request has read is older than the   *)
(* tables but not wrong, because the tables only grow: ReadsHold says so   *)
(* of one request, over whatever tables there are.                         *)
(***************************************************************************)
EXTENDS CaseCommands, FiniteSetTheorems, SequenceTheorems, TLAPS

Steps == {e.to : e \in ToSet(events)}
Decided == {d.print.dossier : d \in ToSet(decisions)}
Tables == [kind \in Kind |-> Table(kind)]

RowFor(r) == [key |-> r.command.key, print |-> Fingerprint(r.command, r.decision)]

\* What a request r relies on, for version v with content c of the case, the
\* steps S reached, the dossiers D decided on and the rows T of each kind.
ReadsHold(r, v, c, S, D, T) ==
  /\ r.pc # "idle" =>
       /\ r.command \in Commands
       /\ r.answer = "none"
       /\ r.command.match <= r.version /\ r.version <= v
       /\ r.version = v => r.content = c
  /\ r.answer = "ok" => r.command \in Commands /\ RowFor(r) \in T[r.command.kind]
  /\ r.step \in S
  /\ r.pc \in {"looked", "checked"} =>
       /\ r.command.kind = "reveal" => r.decision \in D
       /\ r.command.kind = "evaluate" => \E s \in S : s >= RevealStep

Requests ==
  \A q \in Client : ReadsHold(request[q], version, content, Steps, Decided, Tables)

CaseInv ==
  /\ CommandsTypeOK
  /\ Requests
  /\ Decided \subseteq Dossier
  /\ CaseIsItsEvents
  /\ OneRowPerKey
  /\ FinalAnswersTheAdvice
  /\ EvaluationsFollowTheReveal

\* The tables as a step leaves them: nothing is lost.
TablesGrow ==
  /\ version <= version'
  /\ version' = version => content' = content
  /\ Steps \subseteq Steps'
  /\ Decided \subseteq Decided'
  /\ \A kind \in Kind : Tables[kind] \subseteq Tables'[kind]

-----------------------------------------------------------------------------
\* What a request relies on stays true.
LEMMA ReadsKept ==
  ASSUME NEW r, NEW v \in Nat, NEW c, NEW S, NEW D, NEW T,
         NEW w \in Nat, NEW d, NEW U, NEW E, NEW V,
         r.version \in Nat, v <= w, w = v => d = c,
         S \subseteq U, D \subseteq E, \A kind \in Kind : T[kind] \subseteq V[kind],
         ReadsHold(r, v, c, S, D, T)
  PROVE  ReadsHold(r, w, d, U, E, V)
<1>1. r.pc # "idle" =>
        /\ r.command \in Commands
        /\ r.answer = "none"
        /\ r.command.match <= r.version /\ r.version <= w
        /\ r.version = w => r.content = d
  BY DEF ReadsHold
<1>2. r.answer = "ok" => r.command \in Commands /\ RowFor(r) \in V[r.command.kind]
  BY CaseConstantsOK DEF ReadsHold, Command
<1>3. r.step \in U
  BY DEF ReadsHold
<1>4. r.pc \in {"looked", "checked"} =>
        /\ r.command.kind = "reveal" => r.decision \in E
        /\ r.command.kind = "evaluate" => \E s \in U : s >= RevealStep
  BY DEF ReadsHold
<1>. QED  BY <1>1, <1>2, <1>3, <1>4 DEF ReadsHold

LEMMA RequestReplaced ==
  ASSUME NEW q \in Client, NEW r, request \in [Client -> Request],
         request' = [request EXCEPT ![q] = r], r \in Request,
         CommandsTypeOK, Requests, TablesGrow, version' \in Nat,
         ReadsHold(r, version', content', Steps', Decided', Tables')
  PROVE  Requests'
<1> SUFFICES ASSUME NEW p \in Client
             PROVE  ReadsHold(request'[p], version', content', Steps', Decided', Tables')
  BY DEF Requests
<1>1. CASE p = q
  BY <1>1
<1>2. CASE p # q
  <2>1. request'[p] = request[p]
    BY <1>2
  <2>2. request[p].version \in Nat /\ version \in Nat
    BY DEF CommandsTypeOK, Request, Version
  <2>3. ReadsHold(request[p], version, content, Steps, Decided, Tables)
    BY DEF Requests
  <2>4. ReadsHold(request[p], version', content', Steps', Decided', Tables')
    BY ONLY <2>2, <2>3, ReadsKept, version' \in Nat, TablesGrow DEF TablesGrow
  <2>. QED  BY <2>1, <2>4
<1>. QED  BY <1>1, <1>2

-----------------------------------------------------------------------------
\* What the helpers of a request do

LEMMA EndsAs ==
  ASSUME NEW q \in Client, NEW answer \in {"ok", "refused"},
         request \in [Client -> Request], Ends(q, answer)
  PROVE  /\ [request[q] EXCEPT !.pc = "idle", !.answer = answer] \in Request
         /\ request' = [request EXCEPT ![q] =
                          [request[q] EXCEPT !.pc = "idle", !.answer = answer]]
  BY DEF Ends, Request

LEMMA TablesSame ==
  ASSUME UNCHANGED <<caseVars, tableVars>>, CommandsTypeOK
  PROVE  /\ version' = version /\ content' = content
         /\ Steps' = Steps /\ Decided' = Decided /\ Tables' = Tables
         /\ TablesGrow
<1>1. version' = version /\ content' = content
  BY DEF caseVars
<1>2. Steps' = Steps /\ Decided' = Decided
  BY DEF caseVars, tableVars, Steps, Decided
<1>3. Tables' = Tables
  BY DEF tableVars, Tables, Table, ResponseRows
<1>4. version \in Nat
  BY DEF CommandsTypeOK, Version
<1>. QED  BY <1>1, <1>2, <1>3, <1>4 DEF TablesGrow

LEMMA RequestAlone ==
  ASSUME NEW q \in Client, NEW r, r \in Request, CommandsTypeOK, Requests,
         UNCHANGED <<caseVars, tableVars>>, request' = [request EXCEPT ![q] = r],
         ReadsHold(r, version, content, Steps, Decided, Tables)
  PROVE  CommandsTypeOK' /\ Requests'
<1>1. CommandsTypeOK'
  BY DEF CommandsTypeOK, caseVars, tableVars
<1>2. version' \in Nat /\ request \in [Client -> Request]
  BY <1>1 DEF CommandsTypeOK, Version
<1>3. ReadsHold(r, version', content', Steps', Decided', Tables')
  BY TablesSame
<1>4. TablesGrow
  BY TablesSame
<1>. QED  BY <1>1, <1>2, <1>3, <1>4, RequestReplaced

\* A request that ends without a write.
LEMMA EndAlone ==
  ASSUME NEW q \in Client, NEW answer \in {"ok", "refused"}, CommandsTypeOK, Requests,
         UNCHANGED <<caseVars, tableVars>>, Ends(q, answer),
         request[q].pc # "idle",
         answer = "ok" => RowOf(q) \in Table(request[q].command.kind)
  PROVE  CommandsTypeOK' /\ Requests'
<1> DEFINE r == [request[q] EXCEPT !.pc = "idle", !.answer = answer]
<1>1. request \in [Client -> Request] /\ request[q] \in Request
  BY DEF CommandsTypeOK
<1>2. r \in Request /\ request' = [request EXCEPT ![q] = r]
  BY ONLY <1>1, EndsAs, q \in Client, answer \in {"ok", "refused"}, Ends(q, answer)
<1>3. ReadsHold(request[q], version, content, Steps, Decided, Tables)
  BY DEF Requests
<1>4. /\ r.pc = "idle" /\ r.answer = answer /\ r.step = request[q].step
      /\ r.command = request[q].command /\ r.decision = request[q].decision
  BY <1>1 DEF Request
<1>5. request[q].command \in Commands /\ request[q].command.kind \in Kind
  BY <1>3, CaseConstantsOK DEF ReadsHold, Command
<1>6. answer = "ok" => RowFor(r) \in Tables[r.command.kind]
  BY <1>4, <1>5 DEF RowFor, RowOf, Tables
<1>7. ReadsHold(r, version, content, Steps, Decided, Tables)
  BY ONLY <1>3, <1>4, <1>5, <1>6, answer \in {"ok", "refused"} DEF ReadsHold
<1>. QED  BY ONLY <1>1, <1>2, <1>7, RequestAlone, CommandsTypeOK, Requests, q \in Client,
                  UNCHANGED <<caseVars, tableVars>>

\* A request that goes on to its next step.
LEMMA GoAlone ==
  ASSUME NEW q \in Client, NEW pc \in {"looked", "checked"},
         NEW decision, decision \in Dossier \cup {None},
         CommandsTypeOK, Requests, Goes(q, pc, decision), request[q].pc # "idle",
         request[q].command.kind = "reveal" => decision \in Decided,
         request[q].command.kind = "evaluate" => \E s \in Steps : s >= RevealStep
  PROVE  CommandsTypeOK' /\ Requests'
<1> DEFINE r == [request[q] EXCEPT !.pc = pc, !.decision = decision]
<1>1. request \in [Client -> Request] /\ request[q] \in Request
  BY DEF CommandsTypeOK
<1>2. r \in Request /\ request' = [request EXCEPT ![q] = r]
  BY <1>1 DEF Goes, Request
<1>3. ReadsHold(request[q], version, content, Steps, Decided, Tables)
  BY DEF Requests
<1>4. /\ r.pc = pc /\ r.answer = request[q].answer /\ r.step = request[q].step
      /\ r.command = request[q].command /\ r.decision = decision
      /\ r.version = request[q].version /\ r.content = request[q].content
  BY <1>1 DEF Request
<1>5. ReadsHold(r, version, content, Steps, Decided, Tables)
  BY <1>3, <1>4 DEF ReadsHold
<1>6. UNCHANGED <<caseVars, tableVars>>
  BY DEF Goes
<1>. QED  BY ONLY <1>1, <1>2, <1>5, <1>6, RequestAlone, CommandsTypeOK, Requests, q \in Client

-----------------------------------------------------------------------------
\* The steps of a request up to its write

\* What the invariant says of the tables alone.
TablesInv ==
  /\ Decided \subseteq Dossier
  /\ CaseIsItsEvents
  /\ OneRowPerKey
  /\ FinalAnswersTheAdvice
  /\ EvaluationsFollowTheReveal

LEMMA TablesInvSame ==
  ASSUME UNCHANGED <<caseVars, tableVars>>, TablesInv
  PROVE  TablesInv'
<1>1. (Decided \subseteq Dossier)'
  BY DEF TablesInv, Decided, tableVars
<1>2. CaseIsItsEvents'
  BY DEF TablesInv, CaseIsItsEvents, Advanced, caseVars, tableVars
<1>3. OneRowPerKey' /\ FinalAnswersTheAdvice' /\ EvaluationsFollowTheReveal'
  BY DEF TablesInv, OneRowPerKey, FinalAnswersTheAdvice, EvaluationsFollowTheReveal,
         caseVars, tableVars
<1>. QED  BY <1>1, <1>2, <1>3 DEF TablesInv

\* The steps that were reached: that of the case, and those of the advances.
LEMMA StepsReached ==
  ASSUME CommandsTypeOK, CaseIsItsEvents
  PROVE  /\ step \in Steps
         /\ \A a \in ToSet(advances) : a.print.to \in Steps
<1>1. events \in Seq(Event) /\ version \in 1..Len(events) /\ DOMAIN events = 1..Len(events)
  BY DEF CommandsTypeOK, CaseIsItsEvents, Version
<1>2. step \in Steps
  BY <1>1 DEF CaseIsItsEvents, Steps, ToSet
<1>3. ASSUME NEW a \in ToSet(advances)
      PROVE  a.print.to \in Steps
  <2>1. PICK v \in Advanced :
          <<a.print.from, a.print.to>> = <<events[v].from, events[v].to>>
    BY DEF CaseIsItsEvents
  <2>2. a.print.to = events[v].to /\ v \in DOMAIN events
    BY <2>1 DEF Advanced
  <2>. QED  BY <2>2 DEF Steps, ToSet
<1>. QED  BY <1>2, <1>3

LEMMA ReceiveStep ==
  ASSUME CommandsTypeOK, Requests, CaseIsItsEvents,
         NEW q \in Client, NEW c \in Commands, Receive(q, c)
  PROVE  CommandsTypeOK' /\ Requests'
<1> DEFINE r == [command |-> c, pc |-> "received", version |-> version, step |-> step,
                 content |-> content, decision |-> None, answer |-> "none"]
<1>1. r \in Request
  BY DEF CommandsTypeOK, Request
<1>2. ReadsHold(r, version, content, Steps, Decided, Tables)
  <2>1. version \in Nat /\ c.match <= version /\ step \in Steps
    BY StepsReached DEF CommandsTypeOK, Version, Receive
  <2>2. /\ r.pc = "received" /\ r.answer = "none" /\ r.command = c
        /\ r.version = version /\ r.content = content /\ r.step = step
    OBVIOUS
  <2>. QED  BY ONLY <2>1, <2>2, c \in Commands DEF ReadsHold
<1>3. request' = [request EXCEPT ![q] = r] /\ UNCHANGED <<caseVars, tableVars>>
  BY DEF Receive
<1>. QED  BY ONLY <1>1, <1>2, <1>3, RequestAlone, CommandsTypeOK, Requests, q \in Client

LEMMA LastIn ==
  ASSUME NEW S, NEW s \in Seq(S), s # << >>
  PROVE  Last(s) \in ToSet(s) /\ Last(s) \in S
<1>1. Len(s) \in DOMAIN s
  OBVIOUS
<1>. QED  BY <1>1 DEF Last, ToSet

LEMMA AppendIn ==
  ASSUME NEW S, NEW s \in Seq(S), NEW e \in S
  PROVE  /\ Append(s, e) \in Seq(S)
         /\ Len(Append(s, e)) = Len(s) + 1
         /\ ToSet(Append(s, e)) = ToSet(s) \cup {e}
         /\ \A k \in DOMAIN s : Append(s, e)[k] = s[k]
         /\ Append(s, e)[Len(s) + 1] = e
         /\ DOMAIN Append(s, e) = DOMAIN s \cup {Len(s) + 1}
<1>1. /\ Append(s, e) \in Seq(S)
      /\ Len(Append(s, e)) = Len(s) + 1
      /\ \A k \in 1..Len(s) : Append(s, e)[k] = s[k]
      /\ Append(s, e)[Len(s) + 1] = e
  OBVIOUS
<1>2. /\ DOMAIN s = 1..Len(s) /\ Len(s) \in Nat
      /\ DOMAIN Append(s, e) = 1..(Len(s) + 1)
  BY <1>1
<1>3. DOMAIN Append(s, e) = DOMAIN s \cup {Len(s) + 1}
  BY <1>2
<1>4. ToSet(Append(s, e)) = ToSet(s) \cup {e}
  BY <1>1, <1>2, <1>3 DEF ToSet
<1>. QED  BY <1>1, <1>2, <1>3, <1>4

LEMMA LatestIsDecided ==
  ASSUME CommandsTypeOK
  PROVE  Latest = None \/ Latest \in Decided
<1> SUFFICES ASSUME decisions # << >>
             PROVE  Last(decisions) \in ToSet(decisions)
  BY DEF Latest, Decided
<1>1. decisions \in Seq(Row)
  BY DEF CommandsTypeOK
<1>. QED  BY <1>1, LastIn

\* The greater of two.
LEMMA MaxOfTwo ==
  ASSUME NEW m \in Nat, NEW n \in Nat
  PROVE  Max({m, n}) \in {m, n}
<1>1. \E x \in {m, n} : \A y \in {m, n} : x >= y
  <2>1. CASE m >= n
    BY <2>1
  <2>2. CASE n >= m
    BY <2>2
  <2>. QED  BY <2>1, <2>2
<1>. QED  BY <1>1 DEF Max

LEMMA ReachedIsReached ==
  ASSUME CommandsTypeOK, Requests, CaseIsItsEvents, NEW q \in Client
  PROVE  Reached(q) \in Steps
<1>1. request[q].step \in Steps /\ request[q].step \in Nat
  BY DEF Requests, ReadsHold, CommandsTypeOK, Request, Step
<1>2. CASE advances = << >>
  BY <1>1, <1>2 DEF Reached
<1>3. CASE advances # << >>
  <2>1. advances \in Seq(Row)
    BY DEF CommandsTypeOK
  <2>2. Last(advances) \in ToSet(advances) /\ Last(advances) \in Row
    BY <2>1, <1>3, LastIn
  <2>3. Last(advances).print.to \in Steps
    BY <2>2, StepsReached
  <2>4. Last(advances).print.to \in Nat
    BY <2>2 DEF Row, Step
  <2>5. Max({request[q].step, Last(advances).print.to}) \in Steps
    BY ONLY <1>1, <2>3, <2>4, MaxOfTwo
  <2>. QED  BY <1>3, <2>5 DEF Reached
<1>. QED  BY <1>2, <1>3

LEMMA ReadDecisionStep ==
  ASSUME CommandsTypeOK, Requests, Decided \subseteq Dossier,
         NEW q \in Client, ReadDecision(q)
  PROVE  /\ CommandsTypeOK' /\ Requests'
         /\ UNCHANGED <<caseVars, tableVars>>
<1> DEFINE c == request[q].command
           used == IF c.dossier # None THEN c.dossier ELSE Latest
<1>1. request[q].pc = "received" /\ c.kind \in {"advance", "reveal"}
  BY DEF ReadDecision
<1>2. c \in Commands /\ c.dossier \in Dossier \cup {None}
  <2>1. ReadsHold(request[q], version, content, Steps, Decided, Tables)
    BY DEF Requests
  <2>2. c \in Commands
    BY <2>1, <1>1 DEF ReadsHold
  <2>. QED  BY <2>2, CaseConstantsOK DEF Command
<1>3. Latest \in Decided \cup {None} /\ Latest \in Dossier \cup {None}
  BY LatestIsDecided
<1>4. used \in Dossier \cup {None}
  BY <1>2, <1>3
<1>5. CASE Refuse(q)
  <2>1. Ends(q, "refused") /\ UNCHANGED <<caseVars, tableVars>>
    BY <1>5 DEF Refuse
  <2>2. request[q].pc # "idle"
    BY <1>1
  <2>. QED  BY ONLY <2>1, <2>2, EndAlone, CommandsTypeOK, Requests, q \in Client
<1>6. CASE c.kind = "reveal" /\ Latest # None /\ Goes(q, "looked", Latest)
  <2>1. /\ request[q].pc # "idle" /\ request[q].command.kind # "evaluate"
        /\ Latest \in Decided /\ Latest \in Dossier
    BY <1>1, <1>3, <1>6
  <2>2. UNCHANGED <<caseVars, tableVars>>
    BY <1>6 DEF Goes
  <2>. QED  BY ONLY <2>1, <2>2, <1>6, GoAlone, CommandsTypeOK, Requests, q \in Client
<1>7. CASE c.kind = "advance" /\ Goes(q, "looked", used)
  <2>1. request[q].pc # "idle" /\ request[q].command.kind \notin {"reveal", "evaluate"}
    BY <1>1, <1>7
  <2>2. UNCHANGED <<caseVars, tableVars>>
    BY <1>7 DEF Goes
  <2>. QED  BY ONLY <2>1, <2>2, <1>4, <1>7, GoAlone, CommandsTypeOK, Requests, q \in Client
<1>8. \/ Refuse(q)
      \/ c.kind = "reveal" /\ Latest # None /\ Goes(q, "looked", Latest)
      \/ c.kind = "advance" /\ Goes(q, "looked", used)
  BY DEF ReadDecision
<1>. QED  BY <1>5, <1>6, <1>7, <1>8

LEMMA ReadOutcomeStep ==
  ASSUME CommandsTypeOK, Requests, CaseIsItsEvents, NEW q \in Client, ReadOutcome(q)
  PROVE  /\ CommandsTypeOK' /\ Requests'
         /\ UNCHANGED <<caseVars, tableVars>>
<1>1. /\ request[q].pc # "idle" /\ request[q].command.kind # "reveal"
      /\ \/ Refuse(q)
         \/ Reached(q) >= RevealStep /\ Goes(q, "looked", None)
  BY DEF ReadOutcome
<1>2. CASE Refuse(q)
  <2>1. Ends(q, "refused") /\ UNCHANGED <<caseVars, tableVars>>
    BY <1>2 DEF Refuse
  <2>. QED  BY ONLY <2>1, <1>1, EndAlone, CommandsTypeOK, Requests, q \in Client
<1>3. CASE Reached(q) >= RevealStep /\ Goes(q, "looked", None)
  <2>1. \E s \in Steps : s >= RevealStep
    BY <1>3, ReachedIsReached
  <2>2. UNCHANGED <<caseVars, tableVars>>
    BY <1>3 DEF Goes
  <2>3. None \in Dossier \cup {None}
    OBVIOUS
  <2>. QED  BY ONLY <2>1, <2>2, <2>3, <1>1, <1>3, GoAlone, CommandsTypeOK, Requests, q \in Client
<1>. QED  BY <1>1, <1>2, <1>3

LEMMA LookupStep ==
  ASSUME CommandsTypeOK, Requests, NEW q \in Client, Lookup(q)
  PROVE  /\ CommandsTypeOK' /\ Requests'
         /\ UNCHANGED <<caseVars, tableVars>>
<1> DEFINE d == request[q].decision
<1>1. /\ request[q].pc # "idle"
      /\ request[q].command.kind \in {"reveal", "evaluate"} => request[q].pc = "looked"
      /\ \/ Refuse(q)
         \/ RowOf(q) \in Found(q) /\ Replays(q)
         \/ Goes(q, "checked", d)
  BY DEF Lookup, LooksUp
<1>2. CASE Refuse(q)
  <2>1. Ends(q, "refused") /\ UNCHANGED <<caseVars, tableVars>>
    BY <1>2 DEF Refuse
  <2>. QED  BY ONLY <2>1, <1>1, EndAlone, CommandsTypeOK, Requests, q \in Client
<1>3. CASE RowOf(q) \in Found(q) /\ Replays(q)
  <2>1. Ends(q, "ok") /\ UNCHANGED <<caseVars, tableVars>>
    BY <1>3 DEF Replays
  <2>2. RowOf(q) \in Table(request[q].command.kind)
    BY <1>3 DEF Found
  <2>. QED  BY ONLY <2>1, <2>2, <1>1, EndAlone, CommandsTypeOK, Requests, q \in Client
<1>4. CASE Goes(q, "checked", d)
  <2>1. /\ request[q].command.kind = "reveal" => d \in Decided
        /\ request[q].command.kind = "evaluate" => \E s \in Steps : s >= RevealStep
    BY <1>1 DEF Requests, ReadsHold
  <2>2. d \in Dossier \cup {None}
    BY DEF CommandsTypeOK, Request
  <2>3. UNCHANGED <<caseVars, tableVars>>
    BY <1>4 DEF Goes
  <2>. QED  BY ONLY <2>1, <2>2, <2>3, <1>1, <1>4, GoAlone, CommandsTypeOK, Requests, q \in Client
<1>. QED  BY <1>1, <1>2, <1>3, <1>4

-----------------------------------------------------------------------------
\* The writes

\* A request that writes: what it may do, and the row it leaves.
LEMMA WriterKnows ==
  ASSUME CommandsTypeOK, Requests, NEW q \in Client, NEW kind, Writes(q, kind)
  PROVE  /\ request[q] \in Request /\ request[q].command \in Commands
         /\ request[q].pc = "checked" /\ request[q].command.kind = kind
         /\ kind \in Kind
         /\ request[q].command \in Command
         /\ RowOf(q) \in Row
         /\ RowOf(q) = RowFor(request[q])
         /\ kind = "reveal" => request[q].decision \in Decided
         /\ kind = "evaluate" => \E s \in Steps : s >= RevealStep
         /\ request[q].command.match <= request[q].version
         /\ request[q].version <= version
         /\ request[q].version = version => request[q].content = content
<1>1. request[q] \in Request
  BY DEF CommandsTypeOK
<1>2. request[q].pc = "checked" /\ request[q].command.kind = kind
  BY DEF Writes
<1>3. ReadsHold(request[q], version, content, Steps, Decided, Tables)
  BY DEF Requests
<1>4. /\ request[q].command \in Commands
      /\ kind = "reveal" => request[q].decision \in Decided
      /\ kind = "evaluate" => \E s \in Steps : s >= RevealStep
      /\ request[q].command.match <= request[q].version
      /\ request[q].version <= version
      /\ request[q].version = version => request[q].content = content
  BY <1>2, <1>3 DEF ReadsHold
<1>5. request[q].command \in Command
  BY <1>4, CaseConstantsOK
<1>6. kind \in Kind
  BY <1>2, <1>5 DEF Command
<1>7. RowOf(q) \in Row
  BY <1>1, <1>5 DEF RowOf, Row, Fingerprint, Command, Request
<1>8. RowOf(q) = RowFor(request[q])
  BY DEF RowOf, RowFor
<1>. QED  BY <1>1, <1>2, <1>4, <1>5, <1>6, <1>7, <1>8

\* A write answers the request, and its row is in the table of its kind.
LEMMA RequestWritten ==
  ASSUME NEW q \in Client, NEW kind, CommandsTypeOK, Requests, Writes(q, kind), Ends(q, "ok"),
         TablesGrow, version' \in Nat, RowOf(q) \in Tables'[kind]
  PROVE  Requests' /\ request' \in [Client -> Request]
<1> DEFINE r == [request[q] EXCEPT !.pc = "idle", !.answer = "ok"]
<1>1. request \in [Client -> Request] /\ request[q] \in Request
  BY DEF CommandsTypeOK
<1>2. r \in Request /\ request' = [request EXCEPT ![q] = r]
  BY ONLY <1>1, EndsAs, q \in Client, Ends(q, "ok")
<1>3. /\ r.pc = "idle" /\ r.answer = "ok" /\ r.step = request[q].step
      /\ r.command = request[q].command /\ r.decision = request[q].decision
  BY <1>1 DEF Request
<1>4. /\ r.command \in Commands /\ r.command.kind = kind
      /\ RowFor(r) = RowOf(q)
  BY <1>3, WriterKnows DEF RowFor
<1>5. r.step \in Steps'
  BY <1>3 DEF Requests, ReadsHold, TablesGrow
<1>6. ReadsHold(r, version', content', Steps', Decided', Tables')
  BY ONLY <1>3, <1>4, <1>5, RowOf(q) \in Tables'[kind] DEF ReadsHold
<1>7. Requests'
  BY ONLY <1>1, <1>2, <1>6, RequestReplaced, CommandsTypeOK, Requests, TablesGrow,
          q \in Client, version' \in Nat
<1>. QED  BY <1>1, <1>2, <1>7

LEMMA RefuseStep ==
  ASSUME CommandsTypeOK, Requests, TablesInv, NEW q \in Client,
         request[q].pc # "idle", Refuse(q)
  PROVE  CommandsTypeOK' /\ Requests' /\ TablesInv'
<1>1. Ends(q, "refused") /\ UNCHANGED <<caseVars, tableVars>>
  BY DEF Refuse
<1>2. CommandsTypeOK' /\ Requests'
  BY ONLY <1>1, EndAlone, CommandsTypeOK, Requests, q \in Client, request[q].pc # "idle"
<1>. QED  BY <1>1, <1>2, TablesInvSame

LEMMA DecideStep ==
  ASSUME CommandsTypeOK, Requests, TablesInv, NEW q \in Client, Decide(q)
  PROVE  CommandsTypeOK' /\ Requests' /\ TablesInv'
<1>1. Writes(q, "decide")
  BY DEF Decide
<1>2. CASE Refuse(q)
  BY <1>1, <1>2, RefuseStep DEF Writes
<1>3. CASE /\ ~Taken(q, decisions)
           /\ decisions' = Append(decisions, RowOf(q))
           /\ Ends(q, "ok")
           /\ UNCHANGED <<caseVars, advances, evaluations, response>>
  <2>1. /\ RowOf(q) \in Row /\ request[q].command \in Command
        /\ request[q].command \in Commands /\ request[q].command.kind = "decide"
    BY <1>1, WriterKnows
  <2>2. decisions \in Seq(Row)
    BY DEF CommandsTypeOK
  <2>3. /\ decisions' \in Seq(Row)
        /\ Len(decisions') = Len(decisions) + 1
        /\ ToSet(decisions') = ToSet(decisions) \cup {RowOf(q)}
        /\ \A k \in DOMAIN decisions : decisions'[k] = decisions[k]
        /\ decisions'[Len(decisions) + 1] = RowOf(q)
        /\ DOMAIN decisions' = DOMAIN decisions \cup {Len(decisions) + 1}
    BY ONLY <2>1, <2>2, <1>3, AppendIn
  <2>4. RowOf(q).print.dossier \in Dossier
    <3>1. RowOf(q).print.dossier = request[q].command.dossier
      BY <2>1 DEF RowOf, Fingerprint
    <3>2. request[q].command.dossier # None
      BY <2>1, CaseConstantsOK
    <3>. QED  BY <2>1, <3>1, <3>2 DEF Command
  <2>5. version' = version /\ content' = content /\ version \in Nat
    BY <1>3 DEF caseVars, CommandsTypeOK, Version
  <2>6. Steps' = Steps /\ Decided' = Decided \cup {RowOf(q).print.dossier}
    BY <1>3, <2>3 DEF caseVars, Steps, Decided
  <2>7. /\ \A kind \in Kind : Tables[kind] \subseteq Tables'[kind]
        /\ RowOf(q) \in Tables'["decide"]
    BY <1>3, <2>3 DEF Tables, Table, Kind, Response, ResponseRows
  <2>8. TablesGrow
    BY ONLY <2>5, <2>6, <2>7 DEF TablesGrow
  <2>9. Requests' /\ request' \in [Client -> Request]
    BY ONLY <1>1, <1>3, <2>5, <2>7, <2>8, RequestWritten, CommandsTypeOK, Requests, q \in Client
  <2>10. CommandsTypeOK'
    BY <1>3, <2>3, <2>9 DEF CommandsTypeOK, caseVars
  <2>11. (Decided \subseteq Dossier)'
    BY <2>4, <2>6 DEF TablesInv
  <2>12. CaseIsItsEvents' /\ EvaluationsFollowTheReveal'
    BY <1>3 DEF TablesInv, CaseIsItsEvents, Advanced, EvaluationsFollowTheReveal, caseVars
  <2>13. OneRowPerKey'
    <3>1. \A k \in DOMAIN decisions : decisions[k].key # RowOf(q).key
      BY <1>3, <2>1 DEF Taken, ToSet, RowOf
    <3>2. \A i, k \in DOMAIN decisions' : decisions'[i].key = decisions'[k].key => i = k
      BY <2>3, <3>1 DEF TablesInv, OneRowPerKey
    <3>. QED  BY <1>3, <3>2 DEF TablesInv, OneRowPerKey
  <2>14. FinalAnswersTheAdvice'
    BY <1>3, <2>3 DEF TablesInv, FinalAnswersTheAdvice
  <2>. QED  BY <2>9, <2>10, <2>11, <2>12, <2>13, <2>14 DEF TablesInv
<1>. QED  BY <1>2, <1>3 DEF Decide

LEMMA EvaluateStep ==
  ASSUME CommandsTypeOK, Requests, TablesInv, NEW q \in Client, Evaluate(q)
  PROVE  CommandsTypeOK' /\ Requests' /\ TablesInv'
<1>1. Writes(q, "evaluate")
  BY DEF Evaluate
<1>2. CASE Refuse(q)
  BY <1>1, <1>2, RefuseStep DEF Writes
<1>3. CASE /\ ~Taken(q, evaluations)
           /\ evaluations' = Append(evaluations, RowOf(q))
           /\ Ends(q, "ok")
           /\ UNCHANGED <<caseVars, decisions, advances, response>>
  <2>1. RowOf(q) \in Row /\ \E s \in Steps : s >= RevealStep
    BY <1>1, WriterKnows
  <2>2. evaluations \in Seq(Row)
    BY DEF CommandsTypeOK
  <2>3. /\ evaluations' \in Seq(Row)
        /\ ToSet(evaluations') = ToSet(evaluations) \cup {RowOf(q)}
        /\ \A k \in DOMAIN evaluations : evaluations'[k] = evaluations[k]
        /\ evaluations'[Len(evaluations) + 1] = RowOf(q)
        /\ DOMAIN evaluations' = DOMAIN evaluations \cup {Len(evaluations) + 1}
    BY ONLY <2>1, <2>2, <1>3, AppendIn
  <2>4. version' = version /\ content' = content /\ version \in Nat
    BY <1>3 DEF caseVars, CommandsTypeOK, Version
  <2>5. Steps' = Steps /\ Decided' = Decided
    BY <1>3 DEF caseVars, Steps, Decided
  <2>6. /\ \A kind \in Kind : Tables[kind] \subseteq Tables'[kind]
        /\ RowOf(q) \in Tables'["evaluate"]
    BY <1>3, <2>3 DEF Tables, Table, Kind, Response, ResponseRows
  <2>7. TablesGrow
    BY ONLY <2>4, <2>5, <2>6 DEF TablesGrow
  <2>8. Requests' /\ request' \in [Client -> Request]
    BY ONLY <1>1, <1>3, <2>4, <2>6, <2>7, RequestWritten, CommandsTypeOK, Requests, q \in Client
  <2>9. CommandsTypeOK'
    BY <1>3, <2>3, <2>8 DEF CommandsTypeOK, caseVars
  <2>10. (Decided \subseteq Dossier)' /\ CaseIsItsEvents' /\ FinalAnswersTheAdvice'
    BY <1>3, <2>5 DEF TablesInv, CaseIsItsEvents, Advanced, FinalAnswersTheAdvice, caseVars
  <2>11. OneRowPerKey'
    <3>1. \A k \in DOMAIN evaluations : evaluations[k].key # RowOf(q).key
      BY <1>3 DEF Taken, ToSet, RowOf
    <3>2. \A i, k \in DOMAIN evaluations' :
            evaluations'[i].key = evaluations'[k].key => i = k
      BY <2>3, <3>1 DEF TablesInv, OneRowPerKey
    <3>. QED  BY <1>3, <3>2 DEF TablesInv, OneRowPerKey
  <2>12. EvaluationsFollowTheReveal'
    BY <1>3, <2>1 DEF EvaluationsFollowTheReveal, Steps, caseVars
  <2>. QED  BY <2>8, <2>9, <2>10, <2>11, <2>12 DEF TablesInv
<1>. QED  BY <1>2, <1>3 DEF Evaluate

\* A phase of the response is written where there was none.
LEMMA RecordsStep ==
  ASSUME CommandsTypeOK, Requests, TablesInv, NEW q \in Client, NEW phase \in Response,
         Writes(q, phase), Records(q, phase), response[phase] = None,
         phase # "initial" => response["initial"] # None,
         phase = "final" =>
           /\ response["reveal"] # None
           /\ request[q].command.adoption = "accept" =>
                Chosen[response["reveal"].print.dossier]
                  \in {None, request[q].command.option}
  PROVE  /\ CommandsTypeOK' /\ Requests' /\ TablesInv'
         /\ \A p \in Response : response[p] # None => response'[p] = response[p]
<1>1. /\ response' = [response EXCEPT ![phase] = RowOf(q)]
      /\ Ends(q, "ok")
      /\ UNCHANGED <<caseVars, decisions, advances, evaluations>>
  BY DEF Records
<1>2. /\ RowOf(q) \in Row /\ RowOf(q) # None
      /\ phase = "reveal" => request[q].decision \in Decided
      /\ request[q].command.kind = phase /\ phase \in Kind
  BY WriterKnows, CaseConstantsOK
<1>3. /\ RowOf(q).print.kind = phase
      /\ RowOf(q).print.adoption = request[q].command.adoption
      /\ RowOf(q).print.option = request[q].command.option
      /\ phase = "reveal" => RowOf(q).print.dossier = request[q].decision
  BY <1>2 DEF RowOf, Fingerprint
<1>4. /\ response \in [Response -> Row \cup {None}]
      /\ response'[phase] = RowOf(q)
      /\ \A p \in Response : p # phase => response'[p] = response[p]
  BY <1>1 DEF CommandsTypeOK
<1>5. \A p \in Response : response[p] # None => response'[p] = response[p]
  BY <1>4
<1>6. version' = version /\ content' = content /\ version \in Nat
  BY <1>1 DEF caseVars, CommandsTypeOK, Version
<1>7. Steps' = Steps /\ Decided' = Decided
  BY <1>1 DEF caseVars, Steps, Decided
<1>8. ResponseRows \subseteq ResponseRows' /\ RowOf(q) \in ResponseRows'
  BY <1>2, <1>4, <1>5 DEF ResponseRows
<1>9. /\ \A kind \in Kind : Tables[kind] \subseteq Tables'[kind]
      /\ RowOf(q) \in Tables'[phase]
  BY <1>1, <1>2, <1>8 DEF Tables, Table, Kind, Response
<1>10. TablesGrow
  BY ONLY <1>6, <1>7, <1>9 DEF TablesGrow
<1>11. Requests' /\ request' \in [Client -> Request]
  BY ONLY <1>1, <1>6, <1>9, <1>10, RequestWritten, CommandsTypeOK, Requests, q \in Client,
          Writes(q, phase)
<1>12. response' \in [Response -> Row \cup {None}]
  BY <1>1, <1>2, <1>4
<1>13. \A p \in Response : response'[p] # None => response'[p].print.kind = p
  BY <1>3, <1>4 DEF CommandsTypeOK
<1>14. response'["reveal"] # None => response'["reveal"].print.dossier \in Dossier
  <2>1. CASE phase = "reveal"
    BY <2>1, <1>2, <1>3, <1>4 DEF TablesInv
  <2>2. CASE phase # "reveal"
    BY <2>2, <1>4 DEF CommandsTypeOK, Response
  <2>. QED  BY <2>1, <2>2
<1>15. CommandsTypeOK'
  BY <1>1, <1>11, <1>12, <1>13, <1>14 DEF CommandsTypeOK, caseVars
<1>16. (Decided \subseteq Dossier)' /\ CaseIsItsEvents' /\ OneRowPerKey'
       /\ EvaluationsFollowTheReveal'
  BY <1>1, <1>7 DEF TablesInv, CaseIsItsEvents, Advanced, OneRowPerKey,
                    EvaluationsFollowTheReveal, caseVars
<1>17. FinalAnswersTheAdvice'
  <2>1. response'["reveal"] # None =>
          /\ response'["initial"] # None
          /\ \E d \in ToSet(decisions) :
               d.print.dossier = response'["reveal"].print.dossier
    <3>1. CASE phase = "reveal"
      BY <3>1, <1>2, <1>3, <1>4 DEF Decided, Response
    <3>2. CASE phase # "reveal"
      BY <3>2, <1>4, <1>5 DEF TablesInv, FinalAnswersTheAdvice, Response
    <3>. QED  BY <3>1, <3>2
  <2>2. response'["final"] # None =>
          /\ response'["reveal"] # None
          /\ response'["final"].print.adoption = "accept" =>
               Chosen[response'["reveal"].print.dossier]
                 \in {None, response'["final"].print.option}
    <3>1. CASE phase = "final"
      BY <3>1, <1>3, <1>4 DEF Response
    <3>2. CASE phase # "final"
      BY <3>2, <1>4, <1>5 DEF TablesInv, FinalAnswersTheAdvice, Response
    <3>. QED  BY <3>1, <3>2
  <2>. QED  BY <1>1, <2>1, <2>2 DEF FinalAnswersTheAdvice
<1>. QED  BY <1>5, <1>11, <1>15, <1>16, <1>17 DEF TablesInv

LEMMA ResponseStep ==
  ASSUME CommandsTypeOK, Requests, TablesInv, NEW q \in Client,
         RecordInitial(q) \/ Reveal(q) \/ RecordFinal(q)
  PROVE  /\ CommandsTypeOK' /\ Requests' /\ TablesInv'
         /\ \A p \in Response : response[p] # None => response'[p] = response[p]
<1>1. CASE Refuse(q) /\ request[q].pc = "checked"
  BY <1>1, RefuseStep DEF Refuse, tableVars
<1>2. CASE Writes(q, "initial") /\ response["initial"] = None /\ Records(q, "initial")
  BY ONLY <1>2, RecordsStep, CommandsTypeOK, Requests, TablesInv, q \in Client DEF Response
<1>3. CASE /\ Writes(q, "reveal") /\ response["initial"] # None
           /\ response["reveal"] = None /\ Records(q, "reveal")
  BY ONLY <1>3, RecordsStep, CommandsTypeOK, Requests, TablesInv, q \in Client DEF Response
<1>4. CASE /\ Writes(q, "final") /\ Records(q, "final")
           /\ response["reveal"] # None /\ response["final"] = None
           /\ request[q].command.adoption = "accept" =>
                Chosen[response["reveal"].print.dossier]
                  \in {None, request[q].command.option}
  <2>1. response["initial"] # None
    BY <1>4 DEF TablesInv, FinalAnswersTheAdvice
  <2>. QED  BY ONLY <2>1, <1>4, RecordsStep, CommandsTypeOK, Requests, TablesInv, q \in Client
              DEF Response
<1>. QED  BY <1>1, <1>2, <1>3, <1>4 DEF RecordInitial, Reveal, RecordFinal, Writes

-----------------------------------------------------------------------------
\* The steps that make a version

LEMMA EventAppended ==
  ASSUME CommandsTypeOK, CaseIsItsEvents, NEW e \in Event,
         events' = Append(events, e), version' = version + 1
  PROVE  /\ events' \in Seq(Event)
         /\ Len(events') = version' /\ version \in Nat \ {0}
         /\ DOMAIN events = 1..version /\ DOMAIN events' = 1..version'
         /\ \A v \in DOMAIN events : events'[v] = events[v]
         /\ events'[version'] = e
         /\ Steps' = Steps \cup {e.to}
         /\ Advanced' = Advanced \cup (IF e.type = "advanced" THEN {version'} ELSE {})
         /\ Advanced \subseteq 1..version
         /\ IsFiniteSet(Advanced) /\ version' \notin Advanced
<1>1. events \in Seq(Event) /\ Len(events) = version /\ version \in Nat \ {0}
  BY DEF CommandsTypeOK, CaseIsItsEvents, Version
<1>2. DOMAIN events = 1..version
  BY <1>1
<1>3. /\ events' \in Seq(Event)
      /\ Len(events') = Len(events) + 1
      /\ ToSet(events') = ToSet(events) \cup {e}
      /\ \A v \in DOMAIN events : events'[v] = events[v]
      /\ events'[Len(events) + 1] = e
      /\ DOMAIN events' = DOMAIN events \cup {Len(events) + 1}
  BY ONLY <1>1, AppendIn, e \in Event, events' = Append(events, e)
<1>4. Len(events') = version' /\ events'[version'] = e /\ DOMAIN events' = 1..version'
  BY <1>1, <1>2, <1>3
<1>5. Steps' = Steps \cup {e.to}
  BY <1>3 DEF Steps
<1>6. Advanced \subseteq 1..version /\ version' \notin Advanced
  BY <1>1, <1>2 DEF Advanced
<1>7. Advanced' = Advanced \cup (IF e.type = "advanced" THEN {version'} ELSE {})
  BY <1>1, <1>2, <1>3, <1>4 DEF Advanced
<1>8. IsFiniteSet(Advanced)
  <2>1. 1 \in Int /\ version \in Int
    BY <1>1
  <2>2. IsFiniteSet(1..version)
    BY ONLY <2>1, FS_Interval
  <2>. QED  BY ONLY <1>6, <2>2, FS_Subset
<1>. QED  BY <1>1, <1>2, <1>3, <1>4, <1>5, <1>6, <1>7, <1>8

\* The greatest element.
LEMMA MaxIs ==
  ASSUME NEW S \in SUBSET Nat, NEW m \in S, \A n \in S : m >= n
  PROVE  Max(S) = m
<1>1. Max(S) \in S /\ \A y \in S : Max(S) >= y
  BY DEF Max
<1>2. Max(S) >= m /\ m >= Max(S) /\ Max(S) \in Nat /\ m \in Nat
  BY <1>1
<1>. QED  BY <1>2

\* That the outcome was revealed is a fact about the steps that were reached.
LEMMA RevealIsAStep ==
  /\ EvaluationsFollowTheReveal <=>
       (evaluations # << >> => \E s \in Steps : s >= RevealStep)
  /\ EvaluationsFollowTheReveal' <=>
       (evaluations' # << >> => \E s \in Steps' : s >= RevealStep)
BY DEF EvaluationsFollowTheReveal, Steps

LEMMA AdvanceStep ==
  ASSUME CommandsTypeOK, Requests, TablesInv, NEW q \in Client, Advance(q)
  PROVE  CommandsTypeOK' /\ Requests' /\ TablesInv'
<1> DEFINE c == request[q].command
           e == [type |-> "advanced", from |-> c.from, to |-> c.to]
           made == /\ c.match = version /\ c.from = step /\ c.to > c.from
                   /\ ~Taken(q, advances)
                   /\ version' = version + 1 /\ step' = c.to
                   /\ content' = request[q].content
                   /\ events' = Append(events, e)
                   /\ advances' = Append(advances, RowOf(q))
                   /\ Ends(q, "ok")
                   /\ UNCHANGED <<decisions, evaluations, response>>
<1>1. Writes(q, "advance")
  BY DEF Advance
<1>2. CASE Refuse(q)
  BY <1>1, <1>2, RefuseStep DEF Writes
<1>3. CASE made
  <2>1. /\ RowOf(q) \in Row /\ c \in Command /\ c \in Commands /\ c.kind = "advance"
        /\ c.match <= request[q].version /\ request[q].version <= version
        /\ request[q].version = version => request[q].content = content
        /\ request[q] \in Request
    BY <1>1, WriterKnows
  <2>2. version \in Nat /\ c.match \in Nat /\ request[q].version \in Nat
    BY <2>1 DEF Request, Command, Version, CommandsTypeOK
  <2>3. content' = content
    BY <1>3, <2>1, <2>2
  <2>4. c.match < MaxVersion
    BY <2>1, CaseConstantsOK
  <2>5. version' \in Version /\ version' \in Nat /\ version < version'
    BY <1>3, <2>2, <2>4, CaseConstantsOK DEF Version, CommandsTypeOK
  <2>6. e \in Event /\ e.type = "advanced" /\ e.to = c.to /\ e.from = c.from
    BY <2>1 DEF Event, Command
  <2>7. /\ RowOf(q).key = c.key
        /\ RowOf(q).print.from = c.from /\ RowOf(q).print.to = c.to
    BY DEF RowOf, Fingerprint
  <2>21. /\ c.from = step /\ ~Taken(q, advances)
         /\ version' = version + 1 /\ step' = c.to
         /\ advances' = Append(advances, RowOf(q)) /\ Ends(q, "ok")
         /\ decisions' = decisions /\ evaluations' = evaluations /\ response' = response
    BY <1>3
  <2> HIDE DEF e
  <2>8. /\ events' \in Seq(Event)
        /\ Len(events') = version' /\ version \in Nat \ {0}
        /\ DOMAIN events = 1..version /\ DOMAIN events' = 1..version'
        /\ \A v \in DOMAIN events : events'[v] = events[v]
        /\ events'[version'] = e
        /\ Steps' = Steps \cup {e.to}
        /\ Advanced' = Advanced \cup (IF e.type = "advanced" THEN {version'} ELSE {})
        /\ Advanced \subseteq 1..version
        /\ IsFiniteSet(Advanced) /\ version' \notin Advanced
    BY ONLY <1>3, <2>6, EventAppended, CommandsTypeOK, TablesInv DEF TablesInv
  <2>9. Advanced' = Advanced \cup {version'}
    BY <2>6, <2>8
  <2>10. advances \in Seq(Row)
    BY DEF CommandsTypeOK
  <2>11. /\ advances' \in Seq(Row)
         /\ Len(advances') = Len(advances) + 1
         /\ ToSet(advances') = ToSet(advances) \cup {RowOf(q)}
         /\ \A k \in DOMAIN advances : advances'[k] = advances[k]
         /\ advances'[Len(advances) + 1] = RowOf(q)
         /\ DOMAIN advances' = DOMAIN advances \cup {Len(advances) + 1}
    BY ONLY <1>3, <2>1, <2>10, AppendIn
  <2>12. Decided' = Decided
    BY <1>3 DEF Decided
  <2>13. /\ \A kind \in Kind : Tables[kind] \subseteq Tables'[kind]
         /\ RowOf(q) \in Tables'["advance"]
    BY <1>3, <2>11 DEF Tables, Table, Kind, Response, ResponseRows
  <2>14. TablesGrow
    BY <2>2, <2>3, <2>5, <2>8, <2>12, <2>13 DEF TablesGrow
  <2>15. Requests' /\ request' \in [Client -> Request]
    BY ONLY <1>1, <1>3, <2>5, <2>13, <2>14, RequestWritten, CommandsTypeOK, Requests,
            q \in Client
  <2>16. CommandsTypeOK'
    BY <1>3, <2>1, <2>3, <2>5, <2>8, <2>11, <2>15 DEF CommandsTypeOK, Command
  <2>17. (Decided \subseteq Dossier)' /\ FinalAnswersTheAdvice'
    BY <1>3, <2>12 DEF TablesInv, FinalAnswersTheAdvice
  <2>18. OneRowPerKey'
    <3>1. \A k \in DOMAIN advances : advances[k].key # RowOf(q).key
      BY <2>7, <2>21 DEF Taken, ToSet
    <3>2. \A i, k \in DOMAIN advances' : advances'[i].key = advances'[k].key => i = k
      BY <2>11, <3>1 DEF TablesInv, OneRowPerKey
    <3>. QED  BY <2>21, <3>2 DEF TablesInv, OneRowPerKey
  <2>19. EvaluationsFollowTheReveal'
    BY <2>8, <2>21, RevealIsAStep DEF TablesInv
  <2>20. CaseIsItsEvents'
    <3>1. \A v \in Advanced' : v > 1 /\ events'[v].from = events'[v - 1].to
      <4>1. ASSUME NEW v \in Advanced
            PROVE  v > 1 /\ events'[v].from = events'[v - 1].to
        <5>1. v > 1 /\ events[v].from = events[v - 1].to
          BY DEF TablesInv, CaseIsItsEvents
        <5>2. v \in DOMAIN events /\ v - 1 \in DOMAIN events
          BY <5>1, <2>8
        <5>. QED  BY <5>1, <5>2, <2>8
      <4>2. version' > 1 /\ events'[version'].from = events'[version' - 1].to
        <5>1. events[version].to = step /\ events'[version] = events[version]
          BY <2>8 DEF TablesInv, CaseIsItsEvents
        <5>2. version' - 1 = version /\ version' > 1
          BY <1>3, <2>8
        <5>. QED  BY <1>3, <2>6, <2>8, <5>1, <5>2
      <4>. QED  BY <2>9, <4>1, <4>2
    <3>2. events'[version'].to = step'
      BY <1>3, <2>6, <2>8
    <3>3. content' = Max(DOMAIN events' \ Advanced')
      <4>1. DOMAIN events' \ Advanced' = DOMAIN events \ Advanced
        BY <1>3, <2>8, <2>9
      <4>. QED  BY <4>1, <2>3 DEF TablesInv, CaseIsItsEvents
    <3>4. Len(advances') = Cardinality(Advanced')
      <4>1. Cardinality(Advanced') = Cardinality(Advanced) + 1
        BY ONLY <2>8, <2>9, FS_AddElement
      <4>. QED  BY <4>1, <2>11 DEF TablesInv, CaseIsItsEvents
    <3>5. {<<a.print.from, a.print.to>> : a \in ToSet(advances')}
            = {<<events'[v].from, events'[v].to>> : v \in Advanced'}
      <4>1. {<<a.print.from, a.print.to>> : a \in ToSet(advances')}
              = {<<a.print.from, a.print.to>> : a \in ToSet(advances)} \cup {<<c.from, c.to>>}
        BY ONLY <2>7, <2>11
      <4>2. {<<events'[v].from, events'[v].to>> : v \in Advanced}
              = {<<events[v].from, events[v].to>> : v \in Advanced}
        BY ONLY <2>8
      <4>3. {<<events'[v].from, events'[v].to>> : v \in Advanced'}
              = {<<events'[v].from, events'[v].to>> : v \in Advanced} \cup {<<c.from, c.to>>}
        BY ONLY <2>6, <2>8, <2>9
      <4>. QED  BY <4>1, <4>2, <4>3 DEF TablesInv, CaseIsItsEvents
    <3>. QED  BY <2>8, <3>1, <3>2, <3>3, <3>4, <3>5 DEF CaseIsItsEvents
  <2>. QED  BY <2>15, <2>16, <2>17, <2>18, <2>19, <2>20 DEF TablesInv
<1>. QED  BY <1>2, <1>3 DEF Advance, Moves

LEMMA ReimportStep ==
  ASSUME CommandsTypeOK, Requests, TablesInv, Reimport
  PROVE  CommandsTypeOK' /\ Requests' /\ TablesInv'
<1>1. /\ version < MaxVersion /\ version' = version + 1 /\ step' = 0
      /\ content' = version + 1 /\ events' = Append(events, Imported)
      /\ UNCHANGED <<decisions, advances, evaluations, response, request>>
  BY DEF Reimport, Moves, tableVars
<1>2. Imported \in Event /\ Imported.type = "imported" /\ Imported.to = 0
  BY CaseConstantsOK DEF Imported, Event, Step
<1>3. /\ events' \in Seq(Event)
      /\ Len(events') = version' /\ version \in Nat \ {0}
      /\ DOMAIN events = 1..version /\ DOMAIN events' = 1..version'
      /\ \A v \in DOMAIN events : events'[v] = events[v]
      /\ events'[version'] = Imported
      /\ Steps' = Steps \cup {Imported.to}
      /\ Advanced' = Advanced \cup (IF Imported.type = "advanced" THEN {version'} ELSE {})
      /\ Advanced \subseteq 1..version
      /\ IsFiniteSet(Advanced) /\ version' \notin Advanced
  BY ONLY <1>1, <1>2, EventAppended, CommandsTypeOK, TablesInv DEF TablesInv
<1>4. Advanced' = Advanced
  BY <1>2, <1>3
<1>5. version' \in Version /\ version' \in Nat /\ version < version' /\ content' = version'
  BY <1>1, <1>3, CaseConstantsOK DEF Version
<1>6. CommandsTypeOK'
  BY <1>1, <1>3, <1>5, CaseConstantsOK DEF CommandsTypeOK, Step
<1>7. Decided' = Decided /\ Tables' = Tables
  BY <1>1 DEF Decided, Tables, Table, ResponseRows
<1>8. Requests'
  <2> SUFFICES ASSUME NEW q \in Client
               PROVE  ReadsHold(request'[q], version', content', Steps', Decided', Tables')
    BY DEF Requests
  <2>1. request'[q] = request[q] /\ request[q].version \in Nat
    BY <1>1 DEF CommandsTypeOK, Request, Version
  <2>2. ReadsHold(request[q], version, content, Steps, Decided, Tables)
    BY DEF Requests
  <2>3. /\ version \in Nat /\ version <= version' /\ version' # version
        /\ Steps \subseteq Steps' /\ Decided \subseteq Decided'
        /\ \A kind \in Kind : Tables[kind] \subseteq Tables'[kind]
    BY <1>3, <1>5, <1>7
  <2>4. ReadsHold(request[q], version', content', Steps', Decided', Tables')
    BY ONLY <1>5, <2>1, <2>2, <2>3, ReadsKept
  <2>. QED  BY <2>1, <2>4
<1>9. (Decided \subseteq Dossier)' /\ FinalAnswersTheAdvice' /\ OneRowPerKey'
  BY <1>1, <1>7 DEF TablesInv, FinalAnswersTheAdvice, OneRowPerKey
<1>10. EvaluationsFollowTheReveal'
  BY <1>1, <1>3, RevealIsAStep DEF TablesInv
<1>11. CaseIsItsEvents'
  <2>1. \A v \in Advanced' : v > 1 /\ events'[v].from = events'[v - 1].to
    <3> SUFFICES ASSUME NEW v \in Advanced
                 PROVE  v > 1 /\ events'[v].from = events'[v - 1].to
      BY <1>4
    <3>1. v > 1 /\ events[v].from = events[v - 1].to
      BY DEF TablesInv, CaseIsItsEvents
    <3>2. v \in DOMAIN events /\ v - 1 \in DOMAIN events
      BY <3>1, <1>3
    <3>. QED  BY <3>1, <3>2, <1>3
  <2>2. events'[version'].to = step'
    BY <1>1, <1>2, <1>3
  <2>3. content' = Max(DOMAIN events' \ Advanced')
    <3>1. /\ version' \in DOMAIN events' \ Advanced'
          /\ DOMAIN events' \ Advanced' \in SUBSET Nat
          /\ \A v \in DOMAIN events' \ Advanced' : version' >= v
      BY <1>1, <1>3, <1>4
    <3>. QED  BY ONLY <1>5, <3>1, MaxIs
  <2>4. Len(advances') = Cardinality(Advanced')
    BY <1>1, <1>4 DEF TablesInv, CaseIsItsEvents
  <2>5. {<<a.print.from, a.print.to>> : a \in ToSet(advances')}
          = {<<events'[v].from, events'[v].to>> : v \in Advanced'}
    <3>1. {<<events'[v].from, events'[v].to>> : v \in Advanced}
            = {<<events[v].from, events[v].to>> : v \in Advanced}
      BY ONLY <1>3
    <3>. QED  BY <1>1, <1>4, <3>1 DEF TablesInv, CaseIsItsEvents
  <2>. QED  BY <1>3, <2>1, <2>2, <2>3, <2>4, <2>5 DEF CaseIsItsEvents
<1>. QED  BY <1>6, <1>8, <1>9, <1>10, <1>11 DEF TablesInv

-----------------------------------------------------------------------------
\* The invariant

LEMMA CaseStart == CaseInit => CaseInv
<1> SUFFICES ASSUME CaseInit
             PROVE  CaseInv
  OBVIOUS
<1>1. /\ version = 1 /\ step = 0 /\ content = 1 /\ events = <<Imported>>
      /\ decisions = << >> /\ advances = << >> /\ evaluations = << >>
      /\ response = [phase \in Response |-> None]
      /\ request = [q \in Client |-> NoRequest]
  BY DEF CaseInit
<1>2. Imported \in Event /\ Imported.type = "imported" /\ Imported.to = 0
  BY CaseConstantsOK DEF Imported, Event, Step
<1>3. 1 \in Version /\ 0 \in Step
  BY CaseConstantsOK DEF Version, Step
<1>4. NoRequest \in Request
  BY <1>3 DEF NoRequest, Request
<1>5. CommandsTypeOK
  BY <1>1, <1>2, <1>3, <1>4 DEF CommandsTypeOK, Response
<1>6. /\ DOMAIN events = {1} /\ events[1] = Imported /\ Len(events) = 1
      /\ ToSet(events) = {Imported}
  BY <1>1 DEF ToSet
<1>7. Steps = {0} /\ Advanced = {} /\ Decided = {} /\ ToSet(advances) = {}
  BY <1>1, <1>2, <1>6 DEF Steps, Advanced, Decided, ToSet
<1>8. Requests
  BY <1>1, <1>7 DEF Requests, ReadsHold, NoRequest
<1>9. CaseIsItsEvents
  <2>1. Max({1}) = 1
    BY MaxIs
  <2>2. content = Max(DOMAIN events \ Advanced) /\ events[version].to = step
    BY <2>1, <1>1, <1>2, <1>6, <1>7
  <2>3. Len(advances) = Cardinality(Advanced)
    BY <1>1, <1>7, FS_EmptySet
  <2>. QED  BY <1>1, <1>6, <1>7, <2>2, <2>3 DEF CaseIsItsEvents
<1>10. OneRowPerKey /\ FinalAnswersTheAdvice /\ EvaluationsFollowTheReveal
  BY <1>1 DEF OneRowPerKey, FinalAnswersTheAdvice, EvaluationsFollowTheReveal, Response
<1>. QED  BY <1>5, <1>7, <1>8, <1>9, <1>10 DEF CaseInv

\* A step of the case keeps the invariant, and the recorded phases.
LEMMA CaseStep ==
  ASSUME CaseInv, [CaseNext]_commandVars
  PROVE  /\ CaseInv'
         /\ \A p \in Response : response[p] # None => response'[p] = response[p]
<1>1. CommandsTypeOK /\ Requests /\ CaseIsItsEvents /\ Decided \subseteq Dossier /\ TablesInv
  BY DEF CaseInv, TablesInv
<1> SUFFICES /\ CommandsTypeOK' /\ Requests' /\ TablesInv'
             /\ \A p \in Response : response[p] # None => response'[p] = response[p]
  BY DEF CaseInv, TablesInv
<1>2. CASE UNCHANGED commandVars
  <2>1. UNCHANGED <<caseVars, tableVars>> /\ request' = request
    BY <1>2 DEF commandVars
  <2>2. CommandsTypeOK'
    BY <1>1, <2>1 DEF CommandsTypeOK, caseVars, tableVars
  <2>3. Requests'
    BY <1>1, <2>1, TablesSame DEF Requests
  <2>. QED  BY <1>1, <2>1, <2>2, <2>3, TablesInvSame DEF tableVars
<1>3. ASSUME NEW q \in Client, NEW c \in Commands, Receive(q, c)
      PROVE  /\ CommandsTypeOK' /\ Requests' /\ TablesInv' /\ response' = response
  <2>1. UNCHANGED <<caseVars, tableVars>>
    BY <1>3 DEF Receive
  <2>. QED  BY <1>1, <1>3, <2>1, ReceiveStep, TablesInvSame DEF tableVars
<1>4. ASSUME NEW q \in Client, ReadDecision(q) \/ ReadOutcome(q) \/ Lookup(q)
      PROVE  /\ CommandsTypeOK' /\ Requests' /\ TablesInv' /\ response' = response
  <2>1. CommandsTypeOK' /\ Requests' /\ UNCHANGED <<caseVars, tableVars>>
    BY <1>1, <1>4, ReadDecisionStep, ReadOutcomeStep, LookupStep
  <2>. QED  BY <1>1, <2>1, TablesInvSame DEF tableVars
<1>5. ASSUME NEW q \in Client, Decide(q) \/ Advance(q) \/ Evaluate(q)
      PROVE  /\ CommandsTypeOK' /\ Requests' /\ TablesInv' /\ response' = response
  <2>1. CommandsTypeOK' /\ Requests' /\ TablesInv'
    BY <1>1, <1>5, DecideStep, AdvanceStep, EvaluateStep
  <2>2. response' = response
    BY <1>5 DEF Decide, Advance, Evaluate, Refuse, tableVars
  <2>. QED  BY <2>1, <2>2
<1>6. ASSUME NEW q \in Client, RecordInitial(q) \/ Reveal(q) \/ RecordFinal(q)
      PROVE  /\ CommandsTypeOK' /\ Requests' /\ TablesInv'
             /\ \A p \in Response : response[p] # None => response'[p] = response[p]
  BY ONLY <1>1, <1>6, ResponseStep
<1>7. ASSUME Reimport
      PROVE  /\ CommandsTypeOK' /\ Requests' /\ TablesInv' /\ response' = response
  BY <1>1, <1>7, ReimportStep DEF Reimport, tableVars
<1>. QED  BY <1>2, <1>3, <1>4, <1>5, <1>6, <1>7 DEF CaseNext

LEMMA CaseInvHolds == CaseSpec => []CaseInv
<1>1. CaseInit => CaseInv
  BY CaseStart
<1>2. CaseInv /\ [CaseNext]_commandVars => CaseInv'
  BY CaseStep
<1>. QED  BY <1>1, <1>2, PTL DEF CaseSpec

-----------------------------------------------------------------------------
\* Theorems

\* The rows, the case and the requests have their types, whatever commands are
\* sent: a recorded reveal names a dossier.
THEOREM CommandsTypeCorrect == CaseSpec => []CommandsTypeOK
<1>1. CaseInv => CommandsTypeOK
  BY DEF CaseInv
<1>. QED  BY <1>1, CaseInvHolds, PTL

\* However the requests interleave, the case is what its events make of it:
\* PostgresOutcomeAdvanceRepository.advance writes content that was read before the lock, and it
\* is the content of the version that is advanced.
THEOREM CaseFollowsEvents == CaseSpec => []CaseIsItsEvents
<1>1. CaseInv => CaseIsItsEvents
  BY DEF CaseInv
<1>. QED  BY <1>1, CaseInvHolds, PTL

\* What was answered with success is recorded, under its key and with its
\* content (the idempotency lookup of the repositories).
THEOREM AnswersStay == CaseSpec => []AnswersAreRecorded
<1>1. ASSUME CaseInv
      PROVE  AnswersAreRecorded
  <2> SUFFICES ASSUME NEW q \in Client, request[q].answer = "ok"
               PROVE  RowOf(q) \in Found(q)
    BY DEF AnswersAreRecorded
  <2>1. ReadsHold(request[q], version, content, Steps, Decided, Tables)
    BY <1>1 DEF CaseInv, Requests
  <2>2. request[q].command \in Commands /\ RowFor(request[q]) \in Tables[request[q].command.kind]
    BY <2>1 DEF ReadsHold
  <2>3. request[q].command.kind \in Kind
    BY <2>2, CaseConstantsOK DEF Command
  <2>4. RowOf(q) \in Table(request[q].command.kind)
    BY <2>2, <2>3 DEF Tables, RowFor, RowOf
  <2>. QED  BY <2>4 DEF Found, RowOf
<1>2. CaseInv => AnswersAreRecorded
  BY <1>1
<1>. QED  BY <1>2, CaseInvHolds, PTL

\* No two rows of a table have the same idempotency key.
THEOREM KeysStandForOneRow == CaseSpec => []OneRowPerKey
<1>1. CaseInv => OneRowPerKey
  BY DEF CaseInv
<1>. QED  BY <1>1, CaseInvHolds, PTL

\* The phases of a response are in order, and an accepted advice is the one that
\* was revealed (PostgresDecisionEvaluationResponseRepository.record_final).
THEOREM ResponseHolds == CaseSpec => []FinalAnswersTheAdvice
<1>1. CaseInv => FinalAnswersTheAdvice
  BY DEF CaseInv
<1>. QED  BY <1>1, CaseInvHolds, PTL

\* No outcome is evaluated before the case reached the step of its reveal, not
\* even if the case was imported again meanwhile (create_evaluation).
THEOREM EvaluationsWait == CaseSpec => []EvaluationsFollowTheReveal
<1>1. CaseInv => EvaluationsFollowTheReveal
  BY DEF CaseInv
<1>. QED  BY <1>1, CaseInvHolds, PTL

\* No step of any command or import changes a recorded phase of a response.
THEOREM PhasesStay == CaseSpec => PhasesAreImmutable
<1>1. CaseInv /\ [CaseNext]_commandVars =>
        [\A phase \in Response :
           response[phase] # None => response'[phase] = response[phase]]_commandVars
  BY CaseStep
<1>. QED  BY <1>1, CaseInvHolds, PTL DEF CaseSpec, PhasesAreImmutable
=============================================================================
