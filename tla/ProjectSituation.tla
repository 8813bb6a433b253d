-------------------------- MODULE ProjectSituation --------------------------
(***************************************************************************)
(* The record of a development project and what is shown of it:            *)
(*   application/project_fixture_contracts.py   DevelopmentProject, its     *)
(*       validators and its reconstruction at a step;                      *)
(*   application/project_operations.py          the situation, the risks   *)
(*       and their detail, the timeline, and the line of the project list. *)
(*                                                                         *)
(* A project is rewound as a case is (EventChain), but it also has objects *)
(* that exist from a step on: an issue is observed, a risk identified, an  *)
(* evidence requested.  What an object refers to is given with it; the     *)
(* record grows by the next version of its file: one event, one object or  *)
(* one step more.                                                          *)
(*                                                                         *)
(* Titles, owners and texts are left out.                                  *)
(***************************************************************************)
EXTENDS EventChain, FiniteSets, FiniteSetsExt, Functions, Relation

CONSTANTS
  Track, Work, Milestone, Evidence, Issue, Risk, Act, Claim, Case, Cross,
  TrackOf, TrackStatus, \* [Work -> Track]; [Track -> WorkStatus], the track's own
  Commitment,   \* [Milestone -> Nat \cup {None}]
  RestsOn,      \* what a claim, an issue, a risk and a case name as their sources
  Targets,      \* [Cross -> SUBSET Risk]
  Affects,      \* [Risk -> SUBSET (Work \cup Milestone)]
  Treatment,    \* [Risk -> SUBSET (Case \cup Act)], named as they come to the record
  Verification, \* [Act -> SUBSET Evidence]
  Impact,       \* [Risk -> [downside, urgency, reversibility, blast]]
  Number,       \* [Risk -> Nat]: the order of the ids
  FirstState, Values, FirstSince,
  EventId, LastStep,
  None

Entity == Work \cup Milestone \cup Evidence \cup Issue \cup Risk \cup Act
Object == Claim \cup Issue \cup Risk \cup Evidence \cup Act \cup Case \cup Cross

WorkStatus ==
  {"PLANNED", "READY", "IN_PROGRESS", "BLOCKED", "DONE", "VERIFIED", "REWORK", "CANCELLED"}
Allowed ==
  [PLANNED |-> {"READY", "CANCELLED"},
   READY |-> {"IN_PROGRESS", "BLOCKED", "CANCELLED"},
   IN_PROGRESS |-> {"DONE", "BLOCKED", "CANCELLED"},
   BLOCKED |-> {"IN_PROGRESS", "CANCELLED"},
   DONE |-> {"VERIFIED", "REWORK"},
   VERIFIED |-> {"REWORK"},
   REWORK |-> {"IN_PROGRESS", "CANCELLED"},
   CANCELLED |-> {}]

\* ProjectRisk.validate_provenance, and the kinds of reference an object has
ProvenanceOK ==
  /\ \A r \in Risk : RestsOn[r] # {} /\ RestsOn[r] \subseteq Issue \cup EventId \cup Evidence \cup Cross
  /\ \A x \in Claim \cup Issue : RestsOn[x] \subseteq Evidence
  /\ \A c \in Case : RestsOn[c] \subseteq Issue \cup Risk /\ RestsOn[c] \cap Risk # {}
  /\ \A s \in Cross : Targets[s] # {} /\ Targets[s] \subseteq Risk
  /\ \A r \in Risk : Affects[r] \subseteq Work \cup Milestone

ASSUME ProjectConstantsOK ==
  /\ EventId \subseteq Nat /\ LastStep \in Nat
  /\ TrackOf \in [Work -> Track] /\ TrackStatus \in [Track -> WorkStatus]
  /\ DOMAIN FirstState = Entity /\ \A e \in Entity : FirstState[e] \in Values[e]
  /\ \A e \in Evidence : \A x \in Values[e] : x.available \in Nat \cup {None}
  /\ FirstSince \in [Object -> Nat \cup {None}]
  /\ Risk \cap (Work \cup Milestone) = {}
  /\ ProvenanceOK
  /\ \A r, q \in Risk : Number[r] = Number[q] => r = q

VARIABLES
  currentStep,
  now,      \* the current state of every entity
  events,
  since,    \* [Object -> Nat \cup {None}]: the step an object exists from
  record    \* the objects of the record so far

vars == <<currentStep, now, events, since, record>>

-----------------------------------------------------------------------------
(* The validators *)

\* ProjectEvidence.validate_timing
EvidenceOK(state, from) ==
  /\ state.expected >= from
  /\ (state.status = "RECEIVED") = (state.available # None)

\* WorkItemStateChange, RiskStateChange and the other changes; validate_event
EventOK(v) ==
  /\ v.effective <= v.observed
  /\ v.changes # <<>>
  /\ \A e \in DOMAIN v.changes :
       LET c == v.changes[e]
       IN  /\ c.before # c.after
           /\ (e \in Work /\ c.before.status # c.after.status)
                => c.after.status \in Allowed[c.before.status]
           /\ (e \in Risk /\ c.after.status = "REALIZED") => c.after.issue # None

\* _validate_acyclic_work_items
Acyclic(state) ==
  LET waits == TransitiveClosure([p \in Work \X Work |-> p[2] \in state[p[1]].deps], Work)
  IN  \A w \in Work : ~waits[w, w]

\* _validate_events and _validate_chains
EventsOK(step, state, log, known) ==
  /\ \A v \in log : EventOK(v) /\ v.observed <= step
  /\ \A v \in log : \A e \in DOMAIN v.changes : e \in Object => e \in known
  /\ \A e \in Entity : Continuous(log, e) /\ LeadsTo(log, e, state[e])

\* A source is in the record, and what names it does not come before it.
Grounded(x, e, state, from) ==
  state[e].available # None /\ from[x] >= state[e].available

\* A mutant: the source events of a risk are only looked up.
SourcesOKButEvents(state, log, from, known) ==
  /\ \A x \in known \cap (Claim \cup Issue \cup Risk) : \A e \in RestsOn[x] \cap Evidence :
       e \in known /\ Grounded(x, e, state, from)
  /\ \A r \in known \cap Risk :
       /\ RestsOn[r] \cap EventId \subseteq {v.id : v \in log}
       /\ RestsOn[r] \cap Cross \subseteq known
  /\ \A x \in known \cap (Risk \cup Case) : \A y \in RestsOn[x] \cap (Issue \cup Risk) :
       y \in known /\ from[x] >= from[y]
  /\ \A s \in known \cap Cross : \A r \in Targets[s] : r \in known /\ from[r] >= from[s]

\* The order of the sources in validate_references_and_history.
SourcesOK(state, log, from, known) ==
  /\ \A x \in known \cap (Claim \cup Issue \cup Risk) : \A e \in RestsOn[x] \cap Evidence :
       e \in known /\ Grounded(x, e, state, from)
  /\ \A r \in known \cap Risk :
       /\ \A i \in RestsOn[r] \cap EventId : \E v \in log : v.id = i /\ from[r] >= v.observed
       /\ RestsOn[r] \cap Cross \subseteq known
  /\ \A x \in known \cap (Risk \cup Case) : \A y \in RestsOn[x] \cap (Issue \cup Risk) :
       y \in known /\ from[x] >= from[y]
  /\ \A s \in known \cap Cross : \A r \in Targets[s] : r \in known /\ from[r] >= from[s]

\* validate_references_and_history
RecordOK(step, state, log, from, known) ==
  /\ \A x \in known : from[x] <= step
  /\ \A e \in known \cap Evidence :
       EvidenceOK(state[e], from[e]) /\ (state[e].available # None => state[e].available <= step)
  /\ \A m \in Milestone : Commitment[m] # None => Commitment[m] <= state[m].planned
  /\ \A r \in known \cap Risk :
       /\ state[r].status = "REALIZED" => state[r].issue # None
       /\ state[r].issue # None => state[r].issue \in known
  /\ \A a \in known \cap Act : Verification[a] \subseteq known
  /\ Acyclic(state)
  /\ SourcesOK(state, log, from, known)
  /\ EventsOK(step, state, log, known)

-----------------------------------------------------------------------------
(* The record grows. *)

Init ==
  /\ currentStep = 0 /\ now = FirstState /\ events = {}
  /\ since = FirstSince
  /\ record = {x \in Object : FirstSince[x] # None}
  /\ RecordOK(0, now, {}, since, record)

Observe ==
  \E id \in EventId \ {v.id : v \in events}, s \in 0..currentStep, e \in Entity :
    \E before \in {now[e]}, after \in Values[e] :
      LET v == [id |-> id, effective |-> IF s = 0 THEN 0 ELSE s - 1, observed |-> s,
                changes |-> [x \in {e} |-> [before |-> before, after |-> after]]]
      IN  /\ e \in Object => e \in record
          /\ events' = events \cup {v}
          /\ now' = [now EXCEPT ![e] = after]
          /\ RecordOK(currentStep, now', events', since, record)
          /\ UNCHANGED <<currentStep, since, record>>

\* A source of another project comes with the risks it is a lesson for.
Introduce ==
  \E x \in Object \ record, s \in 0..currentStep :
    LET new == {x} \cup (IF x \in Risk THEN {c \in RestsOn[x] \cap Cross : c \notin record} ELSE {})
    IN  \E t \in 0..currentStep :
          /\ since' = [y \in Object |-> IF y = x THEN s ELSE IF y \in new THEN t ELSE since[y]]
          /\ record' = record \cup new
          /\ RecordOK(currentStep, now, events, since', record')
          /\ UNCHANGED <<currentStep, now, events>>

PassStep ==
  /\ currentStep < LastStep
  /\ currentStep' = currentStep + 1
  /\ UNCHANGED <<now, events, since, record>>

Next == Observe \/ Introduce \/ PassStep
Spec == Init /\ [][Next]_vars

-----------------------------------------------------------------------------
(* The project as it was *)

\* A mutant: what is in the record is known at every step.
KnownSoFar(s) == record
Known(s) == {x \in record : since[x] <= s}

\* reconstruct_project_fixture_at_step; received is available_evidence_source_refs,
\* and an evidence has a source_ref now if it is received now
History(s) ==
  LET state == [e \in Entity |-> TakenBack(events, e, s, now[e])]
      known == Known(s)
  IN  [state |-> [e \in (Work \cup Milestone) \cup (known \cap Entity) |-> state[e]],
       events |-> {v.id : v \in {u \in events : u.observed <= s}},
       received |-> {e \in known \cap Evidence :
                       /\ state[e].status = "RECEIVED" /\ now[e].status = "RECEIVED"
                       /\ state[e].available # None /\ state[e].available <= s},
       claims |-> known \cap Claim, cases |-> known \cap Case, cross |-> known \cap Cross]

Visible(h, kind) == DOMAIN h.state \cap kind

-----------------------------------------------------------------------------
(* Risks *)

\* _risk_level
RiskLevel(r, status) ==
  LET i == Impact[r]
  IN  CASE status = "CLOSED" -> "LOW"
        [] status = "REALIZED" -> "CRITICAL"
        [] /\ status \notin {"CLOSED", "REALIZED"} /\ i.downside = "SEVERE"
           /\ i.urgency = "IMMEDIATE" \/ i.reversibility = "IRREVERSIBLE" -> "CRITICAL"
        [] OTHER ->
             IF i.downside = "SEVERE" \/ i.urgency = "IMMEDIATE" \/ i.blast = "CROSS_PROJECT"
             THEN "HIGH"
             ELSE IF i.downside = "MATERIAL" \/ i.urgency = "BEFORE_MILESTONE" THEN "MEDIUM"
             ELSE "LOW"

Orders ==
  [level |-> <<"CRITICAL", "HIGH", "MEDIUM", "LOW">>,
   status |-> <<"REALIZED", "OPEN", "TREATING", "ACCEPTED", "CLOSED">>,
   urgency |-> <<"IMMEDIATE", "BEFORE_MILESTONE", "MONITOR">>,
   downside |-> <<"SEVERE", "MATERIAL", "LIMITED">>,
   reversibility |-> <<"IRREVERSIBLE", "COSTLY", "REVERSIBLE">>,
   blast |-> <<"CROSS_PROJECT", "PROJECT", "TRACK", "WORK_ITEM">>,
   attention |-> <<"BLOCKED", "AT_RISK", "WATCH", "ON_TRACK">>]
Place(order, x) == CHOOSE i \in DOMAIN Orders[order] : Orders[order][i] = x
Before(a, b) ==
  \E i \in DOMAIN a : a[i] < b[i] /\ \A j \in 1..(i - 1) : a[j] = b[j]

\* _risk_sort_key: the milestones are those of the project, not of the history.
NearestImpact(r) ==
  LET planned == {now[m].planned : m \in Affects[r] \cap Milestone}
  IN  IF planned = {} THEN currentStep + 999 ELSE Min(planned)
RiskKey(r, status) ==
  <<Place("level", RiskLevel(r, status)), Place("status", status),
    Place("urgency", Impact[r].urgency), Place("downside", Impact[r].downside),
    Place("reversibility", Impact[r].reversibility), Place("blast", Impact[r].blast),
    NearestImpact(r), Number[r]>>

\* _risk_summary: every action of the project that treats the risk asks for
\* its evidence, created by then or not.
MissingEvidence(h, r) ==
  {e \in UNION {Verification[a] : a \in Treatment[r] \cap Act \cap record} :
     e \notin DOMAIN h.state \/ h.state[e].status # "RECEIVED"}

\* _risk_summaries
Ranks(h) ==
  LET key(r) == RiskKey(r, h.state[r].status)
      shown == Visible(h, Risk)
  IN  [r \in shown |-> 1 + Cardinality({q \in shown : Before(key(q), key(r))})]

\* _risk_summary: the sources are those the risk names, whenever they came.
RiskSummary(h, r) ==
  [status |-> h.state[r].status, level |-> RiskLevel(r, h.state[r].status),
   sources |-> RestsOn[r], affected |-> Affects[r],
   cases |-> Treatment[r] \cap h.cases, actions |-> Treatment[r] \cap Visible(h, Act),
   rank |-> Ranks(h)[r], missing |-> MissingEvidence(h, r)]

\* build_project_risk_detail, what it adds to the summary but for source_ref
RiskTrace(h, r) ==
  [issues |-> [i \in RestsOn[r] \cap Visible(h, Issue) |-> h.state[i]],
   events |-> RestsOn[r] \cap h.events,
   evidence |-> [e \in RestsOn[r] \cap Visible(h, Evidence) |-> h.state[e]],
   cross |-> RestsOn[r] \cap h.cross,
   affected |-> [x \in Affects[r] |-> h.state[x].status],
   actions |-> [a \in Treatment[r] \cap Visible(h, Act) |-> h.state[a]]]

\* build_project_risk_detail, with the evidence whose source_ref it shows
RiskDetail(h, r) ==
  [risk |-> RiskSummary(h, r), trace |-> RiskTrace(h, r), refs |-> RestsOn[r] \cap h.received]

-----------------------------------------------------------------------------
(* The situation *)

With(h, kind, status) == {x \in Visible(h, kind) : h.state[x].status = status}

\* _project_attention: the first alert there is, and what it is for.
Attention(h) ==
  LET active == {r \in Visible(h, Risk) : h.state[r].status # "CLOSED"}
      level(x) == {r \in active : RiskLevel(r, h.state[r].status) = x}
      blocked == With(h, Work, "BLOCKED")
      slipping == With(h, Milestone, "AT_RISK")
      late == With(h, Evidence, "LATE")
  IN  IF blocked # {} THEN <<"BLOCKED", blocked>>
      ELSE IF level("CRITICAL") # {} THEN <<"AT_RISK", level("CRITICAL")>>
      ELSE IF level("HIGH") \cup slipping # {} THEN <<"AT_RISK", level("HIGH") \cup slipping>>
      ELSE IF late # {} THEN <<"WATCH", late>>
      ELSE IF active # {} THEN <<"WATCH", active>>
      ELSE <<"ON_TRACK", {}>>

\* _track_situation
TrackSituation(h, t) ==
  LET states == {h.state[w].status : w \in {x \in Work : TrackOf[x] = t}}
  IN  IF "BLOCKED" \in states THEN "BLOCKED"
      ELSE IF "REWORK" \in states THEN "REWORK"
      ELSE IF "IN_PROGRESS" \in states THEN "IN_PROGRESS"
      ELSE IF states # {} /\ states \subseteq {"DONE", "VERIFIED"} THEN "VERIFIED"
      ELSE IF "READY" \in states THEN "READY"
      ELSE IF "PLANNED" \in states THEN "PLANNED"
      ELSE TrackStatus[t]

\* build_project_situation, but for the risks and for source_ref
Overview(s) ==
  LET h == History(s)
  IN  [attention |-> Attention(h),
       tracks |-> [t \in Track |-> TrackSituation(h, t)],
       work |-> [w \in Work |-> h.state[w]],
       milestones |-> [m \in Milestone |-> <<h.state[m], h.state[m].planned - s, Commitment[m]>>],
       issues |-> [i \in Visible(h, Issue) |-> h.state[i]],
       evidence |-> [e \in Visible(h, Evidence) |-> h.state[e]],
       cases |-> h.cases]

\* build_project_risks
RiskList(s) ==
  LET h == History(s)
  IN  [r \in Visible(h, Risk) |-> RiskSummary(h, r)]

\* build_project_situation: the overview, the risks, and the evidence whose
\* source_ref _evidence_situation shows
Situation(s) ==
  [overview |-> Overview(s), risks |-> RiskList(s), refs |-> History(s).received]

\* build_project_timeline
Timeline(s) == [attention |-> Attention(History(s)), events |-> {v \in events : v.observed <= s}]

\* build_project_list_item
ListItem ==
  LET h == History(currentStep)
  IN  [attention |-> Attention(h)[1],
       issues |-> Cardinality(Visible(h, Issue) \ With(h, Issue, "RESOLVED")),
       risks |-> Cardinality(Visible(h, Risk) \ With(h, Risk, "CLOSED")),
       blocked |-> Cardinality(With(h, Work, "BLOCKED")),
       nearest |-> Min({h.state[m].planned : m \in Milestone}),
       top |-> {r \in Visible(h, Risk) : Ranks(h)[r] <= 2}]

\* sort_project_list_items, but for the id of the project
ListKey == <<Place("attention", ListItem.attention), ListItem.nearest - currentStep>>

-----------------------------------------------------------------------------
(* Properties *)

\* The present has taken a step that tells nothing of step s.
TellsNothingOf(s) ==
  /\ \A v \in events' \ events : v.observed > s
  /\ \A x \in record' \ record : since'[x] > s

\* What is shown of a step: the situation, the timeline and the detail of every risk
Screens(s) ==
  LET h == History(s)
  IN  [situation |-> Situation(s), timeline |-> Timeline(s),
       traces |-> [r \in Visible(h, Risk) |-> RiskTrace(h, r)]]

\* What the screens show of their own time: all but what is read from the present.
Lasting(risks) ==
  [r \in DOMAIN risks |->
     [f \in {"status", "level", "sources", "affected", "cases", "actions"} |-> risks[r][f]]]
Kept(screens) ==
  [overview |-> screens.situation.overview, risks |-> Lasting(screens.situation.risks),
   timeline |-> screens.timeline, traces |-> screens.traces]

\* The present that the read models of an earlier step look at: _risk_sort_key
\* at the milestones and at current_step, _risk_summary at the actions of the
\* project, reconstruct_project_fixture_at_step at source_ref.
Dates == <<currentStep, [m \in Milestone |-> now[m].planned]>>
Acts == record \cap Act
Received == {e \in Evidence : now[e].status = "RECEIVED"}

Column(screens, field) ==
  [r \in DOMAIN screens.situation.risks |-> screens.situation.risks[r][field]]
AsTheyWere(before, after) ==
  /\ Kept(after) = Kept(before)
  /\ UNCHANGED Dates => Column(after, "rank") = Column(before, "rank")
  /\ UNCHANGED Acts => Column(after, "missing") = Column(before, "missing")
  /\ UNCHANGED Received => after.situation.refs = before.situation.refs

\* Whatever is learnt or opened later, an earlier step of a project keeps its
\* timeline, its overview, and of every risk all but three things, which change
\* only with the present they are read from: its rank when a milestone is
\* planned anew or time passes, its missing evidence when an action is added,
\* and the sources of evidence when evidence is received or withdrawn
\* (reconstruct_project_fixture_at_step, _risk_summary, _risk_sort_key).
PastSituationIsClosed ==
  [][\A s \in 0..currentStep :
       TellsNothingOf(s) =>
         \A before \in {Screens(s)}, after \in {Screens(s)'} : AsTheyWere(before, after)]_vars

\* The sources of a risk that its detail shows
SourcesShown(trace) ==
  (DOMAIN trace.issues \cup trace.events) \cup (DOMAIN trace.evidence \cup trace.cross)

\* What alerts the reader is on the screen, and a risk is shown with the
\* sources its summary names at every step it is shown at.  Missing are only
\* what the validators let come after the risk: a lesson that does not name
\* the risk as its target, and evidence that was asked for after it was there
\* (build_project_risk_detail looks the sources up among what was known at the
\* step, validate_references_and_history checks their dates once).
RisksShowTheirSources ==
  \A s \in 0..currentStep :
    LET h == History(s)
    IN  /\ Attention(h)[2] \subseteq DOMAIN h.state
        /\ \A r \in Visible(h, Risk) :
             LET detail == RiskDetail(h, r)
             IN  \A x \in detail.risk.sources \ SourcesShown(detail.trace) :
                   /\ x \in Evidence \cup Cross /\ since[x] > s
                   /\ x \in Evidence => since[x] > now[x].available
                   /\ x \in Cross => r \notin Targets[x]
=============================================================================
