---------------------------- MODULE CaseCommands ----------------------------
(***************************************************************************)
(* The commands on one case after its review:                              *)
(*   api/main.py  create_simulated_decision, create_outcome_advance,       *)
(*       create_evaluation and the three commands of the evaluation        *)
(*       response, each in the transactions of its repository:             *)
(*   application/simulated_decisions.py, outcome_advances.py,              *)
(*   decision_evaluation_responses.py,                                     *)
(*   infrastructure/evaluation_repository.py.                              *)
(*                                                                         *)
(* A request reads the case, then what else its command needs, looks its   *)
(* idempotency key up, and writes; other requests commit in between.  An   *)
(* API process that dies leaves its requests where they are: nothing is    *)
(* written but by the last step.                                           *)
(*                                                                         *)
(* There is one actor (settings.local_actor_id).  A simulated decision is  *)
(* named by the completed dossier run it finalises.  Rationales, risks and *)
(* the metrics of an outcome are left out.                                 *)
(***************************************************************************)
EXTENDS Naturals, FiniteSetsExt, SequencesExt

CONSTANTS
  Client,       \* requests that may be in flight together
  Key,          \* idempotency keys
  Dossier,      \* completed dossier runs of the case
  Option,       \* alternatives of the case
  Chosen,       \* the option a decision selects, or None
  Pathless,     \* decisions without an outcome path
  LastStep,     \* bound: simulation steps
  RevealStep,   \* required_step of the evaluation
  MaxVersion,   \* bound: versions of the case
  Commands,     \* the commands that are sent
  None

Kind == {"decide", "advance", "evaluate", "initial", "reveal", "final"}
Response == {"initial", "reveal", "final"}
Step == 0..LastStep
Version == 1..MaxVersion

\* match is If-Match; the other fields are used by some kinds only: dossier by
\* decide and, if the client names a decision, by advance.
Command ==
  [kind: Kind, key: Key, match: Version, dossier: Dossier \cup {None},
   from: Step, to: Step,
   adoption: {"accept", "modify", "reject", None}, option: Option \cup {None}]

\* A stored command: its key and its fingerprint.
Row ==
  [key: Key,
   print: [kind: Kind, match: Version \cup {0}, dossier: Dossier \cup {None},
           from: Step, to: Step,
           adoption: {"accept", "modify", "reject", None},
           option: Option \cup {None}]]

ASSUME CaseConstantsOK ==
  /\ Chosen \in [Dossier -> Option \cup {None}]
  /\ Pathless \subseteq Dossier
  /\ LastStep \in Nat /\ MaxVersion \in Nat \ {0} /\ RevealStep \in Step
  /\ Commands \subseteq Command
  /\ \A c \in Commands :
       /\ c.kind = "decide" => c.dossier # None
       /\ c.kind \in {"initial", "final"} => c.option # None
       /\ c.kind = "final" <=> c.adoption # None
       /\ c.kind = "advance" => c.match < MaxVersion
  /\ None \notin Dossier \cup Option \cup Commands \cup Row

VARIABLES
  version,      \* decision_cases: aggregate_version
  step,         \* decision_cases: current_step
  content,      \* decision_cases: payload, by the version that imported it
  events,       \* domain_events of the case, by version
  decisions,    \* simulated_decisions
  advances,     \* outcome_advances
  evaluations,  \* outcome_evaluations
  response,     \* decision_evaluation_responses: the row, by phase
  request       \* the latest request of each client

caseVars == <<version, step, content, events>>
tableVars == <<decisions, advances, evaluations, response>>
commandVars == <<caseVars, tableVars, request>>

Event == [type: {"imported", "advanced"}, from: Step, to: Step]

Request ==
  [command: Commands \cup {None},
   pc: {"idle", "received", "looked", "checked"},
   version: Version, step: Step, content: Version,
   decision: Dossier \cup {None},
   answer: {"none", "ok", "refused"}]

NoRequest ==
  [command |-> None, pc |-> "idle", version |-> 1, step |-> 0,
   content |-> 1, decision |-> None, answer |-> "none"]

Imported == [type |-> "imported", from |-> 0, to |-> 0]

CommandsTypeOK ==
  /\ version \in Version
  /\ step \in Step
  /\ content \in Version
  /\ events \in Seq(Event)
  /\ \A table \in {decisions, advances, evaluations} : table \in Seq(Row)
  /\ response \in [Response -> Row \cup {None}]
  /\ \A phase \in Response :
       response[phase] # None => response[phase].print.kind = phase
  /\ response["reveal"] # None => response["reveal"].print.dossier \in Dossier
  /\ request \in [Client -> Request]

CaseInit ==
  /\ version = 1
  /\ step = 0
  /\ content = 1
  /\ events = <<Imported>>
  /\ decisions = << >>
  /\ advances = << >>
  /\ evaluations = << >>
  /\ response = [phase \in Response |-> None]
  /\ request = [q \in Client |-> NoRequest]

-----------------------------------------------------------------------------
\* Keys and fingerprints

\* What the fingerprint of a command is made of: If-Match counts for a decision
\* and an evaluation, the decision that was read for an advance and a reveal.
Fingerprint(c, decision) ==
  [kind |-> c.kind,
   match |-> IF c.kind \in {"decide", "evaluate"} THEN c.match ELSE 0,
   dossier |-> IF c.kind \in {"advance", "reveal"} THEN decision ELSE c.dossier,
   from |-> c.from, to |-> c.to, adoption |-> c.adoption, option |-> c.option]

RowOf(q) ==
  [key |-> request[q].command.key,
   print |-> Fingerprint(request[q].command, request[q].decision)]

ResponseRows == {response[phase] : phase \in Response} \ {None}

\* Where the key of a command is looked up.
Table(kind) ==
  CASE kind = "decide" -> ToSet(decisions)
    [] kind = "advance" -> ToSet(advances)
    [] kind = "evaluate" -> ToSet(evaluations)
    [] kind \in Response -> ResponseRows

\* The latest simulated decision, if there is one.
Latest == IF decisions = << >> THEN None ELSE Last(decisions).print.dossier

-----------------------------------------------------------------------------
\* A request, up to its write

Ends(q, answer) ==
  request' = [request EXCEPT ![q].pc = "idle", ![q].answer = answer]

Refuse(q) == Ends(q, "refused") /\ UNCHANGED <<caseVars, tableVars>>

Goes(q, pc, decision) ==
  /\ request' = [request EXCEPT ![q].pc = pc, ![q].decision = decision]
  /\ UNCHANGED <<caseVars, tableVars>>

\* The client's version is the one the request read.
Current(q) == request[q].command.match = request[q].version

\* If-Match names a version that the client was shown.
Receive(q, c) ==
  /\ request[q].pc = "idle"
  /\ c.match <= version
  /\ request' = [request EXCEPT ![q] =
       [command |-> c, pc |-> "received", version |-> version, step |-> step,
        content |-> content, decision |-> None, answer |-> "none"]]
  /\ UNCHANGED <<caseVars, tableVars>>

\* Mutant of ReadDecision: the absence of a decision is not noticed.
ReadDecisionAnyway(q) ==
  LET c == request[q].command
      used == IF c.dossier # None THEN c.dossier ELSE Latest
  IN
  /\ request[q].pc = "received"
  /\ c.kind \in {"advance", "reveal"}
  /\ IF c.kind = "reveal"
     THEN IF ~Current(q) THEN Refuse(q) ELSE Goes(q, "looked", Latest)
     ELSE IF Latest \notin {None, used} THEN Refuse(q)
          ELSE Goes(q, "looked", used)

\* An advance is of the decision the client names or of the latest one, which
\* have to be the same if there are both.
ReadDecision(q) ==
  LET c == request[q].command
      used == IF c.dossier # None THEN c.dossier ELSE Latest
  IN
  /\ request[q].pc = "received"
  /\ c.kind \in {"advance", "reveal"}
  /\ IF c.kind = "reveal"
     THEN IF Latest = None \/ ~Current(q) THEN Refuse(q)
          ELSE Goes(q, "looked", Latest)
     ELSE IF used = None \/ Latest \notin {None, used} THEN Refuse(q)
          ELSE Goes(q, "looked", used)

\* The step of the latest outcome counts also after the case was imported again.
Reached(q) ==
  IF advances = << >> THEN request[q].step
  ELSE Max({request[q].step, Last(advances).print.to})

\* Mutant of ReadOutcome: the step is not asked for.
ReadNothing(q) ==
  /\ request[q].pc = "received"
  /\ request[q].command.kind = "evaluate"
  /\ IF Current(q) THEN Goes(q, "looked", None) ELSE Refuse(q)

\* An evaluation waits for the step at which the outcome is revealed.
ReadOutcome(q) ==
  /\ request[q].pc = "received"
  /\ request[q].command.kind = "evaluate"
  /\ IF Current(q) /\ Reached(q) >= RevealStep
     THEN Goes(q, "looked", None) ELSE Refuse(q)

Found(q) ==
  {row \in Table(request[q].command.kind) : row.key = request[q].command.key}

\* The repositories of the two responses with a choice ask for the version
\* before they look the key up, the one of the decisions afterwards.
Outdated(q) == request[q].command.kind \in {"initial", "final"} /\ ~Current(q)

TooLate(q) == request[q].command.kind = "decide" /\ ~Current(q)

\* Advances, reveals and evaluations read something else first.
LooksUp(q) ==
  \/ request[q].pc = "looked"
  \/ /\ request[q].pc = "received"
     /\ request[q].command.kind \in {"decide", "initial", "final"}

Replays(q) == Ends(q, "ok") /\ UNCHANGED <<caseVars, tableVars>>

\* Mutant of Lookup: any command with the key is taken for this one.
LookupKeyOnly(q) ==
  /\ LooksUp(q)
  /\ IF Outdated(q) THEN Refuse(q)
     ELSE IF Found(q) # {} THEN Replays(q)
     ELSE IF TooLate(q) THEN Refuse(q)
     ELSE Goes(q, "checked", request[q].decision)

\* The recorded result is the answer to a command that was recorded.
Lookup(q) ==
  /\ LooksUp(q)
  /\ IF Outdated(q) THEN Refuse(q)
     ELSE IF RowOf(q) \in Found(q) THEN Replays(q)
     ELSE IF Found(q) # {} \/ TooLate(q) THEN Refuse(q)
     ELSE Goes(q, "checked", request[q].decision)

-----------------------------------------------------------------------------
\* The write of a request, in the transaction that answers it

Writes(q, kind) == request[q].pc = "checked" /\ request[q].command.kind = kind

\* The key is unique in its table: another request may have taken it.
Taken(q, table) == \E row \in ToSet(table) : row.key = request[q].command.key

Decide(q) ==
  /\ Writes(q, "decide")
  /\ IF Taken(q, decisions) THEN Refuse(q)
     ELSE /\ decisions' = Append(decisions, RowOf(q))
          /\ Ends(q, "ok")
          /\ UNCHANGED <<caseVars, advances, evaluations, response>>

\* Mutant of Evaluate: the key has no unique constraint.
EvaluateTwice(q) ==
  /\ Writes(q, "evaluate")
  /\ evaluations' = Append(evaluations, RowOf(q))
  /\ Ends(q, "ok")
  /\ UNCHANGED <<caseVars, decisions, advances, response>>

Evaluate(q) ==
  /\ Writes(q, "evaluate")
  /\ IF Taken(q, evaluations) THEN Refuse(q)
     ELSE /\ evaluations' = Append(evaluations, RowOf(q))
          /\ Ends(q, "ok")
          /\ UNCHANGED <<caseVars, decisions, advances, response>>

\* The step of the case and its version move together, and its content is
\* written with them.
Moves(to, from, event) ==
  /\ version' = version + 1
  /\ step' = to
  /\ content' = from
  /\ events' = Append(events, event)

\* Mutant of Advance: version and step are those the request read.
AdvanceFromRead(q) ==
  LET c == request[q].command IN
  /\ Writes(q, "advance")
  /\ IF /\ Current(q) /\ c.from = request[q].step
        /\ c.to > c.from /\ request[q].decision \notin Pathless
        /\ version < MaxVersion
     THEN /\ Moves(c.to, request[q].content,
                   [type |-> "advanced", from |-> c.from, to |-> c.to])
          /\ advances' = Append(advances, RowOf(q))
          /\ Ends(q, "ok")
          /\ UNCHANGED <<decisions, evaluations, response>>
     ELSE Refuse(q)

\* Version and step are asked for under the lock of the case row; the content
\* that is written is that of the case the request read.
Advance(q) ==
  LET c == request[q].command IN
  /\ Writes(q, "advance")
  /\ IF /\ c.match = version /\ c.from = step
        /\ c.to > c.from /\ request[q].decision \notin Pathless
        /\ ~Taken(q, advances)
     THEN /\ Moves(c.to, request[q].content,
                   [type |-> "advanced", from |-> c.from, to |-> c.to])
          /\ advances' = Append(advances, RowOf(q))
          /\ Ends(q, "ok")
          /\ UNCHANGED <<decisions, evaluations, response>>
     ELSE Refuse(q)

Records(q, phase) ==
  /\ response' = [response EXCEPT ![phase] = RowOf(q)]
  /\ Ends(q, "ok")
  /\ UNCHANGED <<caseVars, decisions, advances, evaluations>>

\* A second row of the actor violates a unique constraint.
RecordInitial(q) ==
  /\ Writes(q, "initial")
  /\ IF response["initial"] = None THEN Records(q, "initial") ELSE Refuse(q)

\* Mutant of Reveal: the advice is revealed again.
RevealAgain(q) ==
  /\ Writes(q, "reveal")
  /\ IF response["initial"] # None THEN Records(q, "reveal") ELSE Refuse(q)

Reveal(q) ==
  /\ Writes(q, "reveal")
  /\ IF response["initial"] # None /\ response["reveal"] = None
     THEN Records(q, "reveal") ELSE Refuse(q)

\* Mutant of RecordFinal: what is accepted is not compared with the advice.
RecordFinalAny(q) ==
  /\ Writes(q, "final")
  /\ IF response["reveal"] # None /\ response["final"] = None
     THEN Records(q, "final") ELSE Refuse(q)

\* Advice that selects an option is accepted with that option.
RecordFinal(q) ==
  LET c == request[q].command
      advised == Chosen[response["reveal"].print.dossier]
  IN
  /\ Writes(q, "final")
  /\ IF /\ response["reveal"] # None /\ response["final"] = None
        /\ c.adoption = "accept" => advised \in {None, c.option}
     THEN Records(q, "final") ELSE Refuse(q)

\* PostgresCaseRepository.save: the fixture of the case is imported again.
Reimport ==
  /\ version < MaxVersion
  /\ Moves(0, version + 1, Imported)
  /\ UNCHANGED <<tableVars, request>>

CaseNext ==
  \/ \E q \in Client :
       \/ \E c \in Commands : Receive(q, c)
       \/ ReadDecision(q) \/ ReadOutcome(q) \/ Lookup(q)
       \/ Decide(q) \/ Advance(q) \/ Evaluate(q)
       \/ RecordInitial(q) \/ Reveal(q) \/ RecordFinal(q)
  \/ Reimport

CaseSpec == CaseInit /\ [][CaseNext]_commandVars

-----------------------------------------------------------------------------
\* Properties

\* The versions made by an advance.
Advanced == {v \in DOMAIN events : events[v].type = "advanced"}

\* The case is what its events make of it: they number its versions, every
\* advance starts from the step the events before it led to, the advances and
\* the rows of outcome_advances are the same, and what the case contains is what
\* was imported last.
CaseIsItsEvents ==
  /\ Len(events) = version
  /\ \A v \in Advanced : v > 1 /\ events[v].from = events[v - 1].to
  /\ events[version].to = step
  /\ content = Max(DOMAIN events \ Advanced)
  /\ Len(advances) = Cardinality(Advanced)
  /\ {<<a.print.from, a.print.to>> : a \in ToSet(advances)}
       = {<<events[v].from, events[v].to>> : v \in Advanced}

\* A command that was answered is recorded, with its key and its content, so
\* that its answer is not that of another command.
AnswersAreRecorded ==
  \A q \in Client : request[q].answer = "ok" => RowOf(q) \in Found(q)

\* A key stands for one row, also when it was looked up by two requests before
\* either of them wrote.
OneRowPerKey ==
  \A table \in {decisions, advances, evaluations} :
    \A j, k \in DOMAIN table : table[j].key = table[k].key => j = k

\* The phases of a response are recorded in their order, on a decision that was
\* made, and what was accepted is what was advised
\* (ADR-0011-evaluation-response-and-advice-disclosure.md).
FinalAnswersTheAdvice ==
  LET advice == response["reveal"]
      final == response["final"]
  IN
  /\ advice # None =>
       /\ response["initial"] # None
       /\ \E d \in ToSet(decisions) : d.print.dossier = advice.print.dossier
  /\ final # None =>
       /\ advice # None
       /\ final.print.adoption = "accept" =>
            Chosen[advice.print.dossier] \in {None, final.print.option}

\* An outcome is evaluated only after the simulation was advanced to the step
\* at which it is revealed (OUTCOME_NOT_REVEALED).
EvaluationsFollowTheReveal ==
  evaluations # << >> => \E e \in ToSet(events) : e.to >= RevealStep

\* A recorded phase of a response never changes.
PhasesAreImmutable ==
  [][\A phase \in Response :
       response[phase] # None => response'[phase] = response[phase]]_commandVars

\* "the same key and same payload is retry-safe" (ADR-0011, of the commands of
\* the evaluation response): a command that was answered is not refused to the
\* request that repeats it.
RetriesAreSafe ==
  [][\A p, q \in Client :
       /\ request[p].answer = "ok"
       /\ request[p].command = request[q].command
       /\ request[p].command.kind \in Response
       /\ request[q].pc \in {"received", "looked"}
       => request'[q].answer # "refused"]_commandVars
=============================================================================
