------------------------- MODULE DevelopmentHistory -------------------------
(***************************************************************************)
(* The record of a case and what is read out of it:                        *)
(*   domain/models.py                 ObservableCase, its DevelopmentEvents *)
(*       and the validators that accept or refuse a record;                *)
(*   application/development_twin.py  the case as it was at a step, its    *)
(*       timeline and the reach of its blockers;                           *)
(*   application/packets.py           the packet the Agents are given.     *)
(*                                                                         *)
(* A record holds the CURRENT state of every entity and the events that    *)
(* led to it.  An earlier state is not stored: it is rewound from the      *)
(* current one.  The record grows by the next version of its file, which   *)
(* an author writes and the validators accept: one more event, of any step *)
(* so far, or one more step.                                               *)
(*                                                                         *)
(* An event changes an entity at most once.  Titles, owners, causes and    *)
(* quantities are left out.                                                *)
(***************************************************************************)
EXTENDS EventChain, FiniteSets, FiniteSetsExt, Functions, Relation

CONSTANTS
  Track, Work, Milestone, Evidence, Act,  \* Act: development actions
  TrackOf,      \* [Work -> Track]
  NextMilestone,\* [Track -> Milestone \cup {None}]
  Deadline,     \* decision_deadline_milestone_id
  Claim,
  Sources,      \* [Claim -> SUBSET Evidence]: source_refs
  Standing,     \* [Claim -> EpistemicStatus]
  Option,
  Reversible,   \* options that can be undone
  Cost,         \* [Option -> Nat \cup {None}]: exact switching cost, if known
  Values,       \* states an entity may be given, by entity
  FirstState,   \* the states of the first version of the record
  EventId,
  FirstStep, LastStep,
  None

Entity == Work \cup Milestone \cup Evidence \cup Act
Step == 0..LastStep

\* WorkItemDynamicState; a milestone and an evidence have only a step.
WorkStatus ==
  {"PLANNED", "READY", "IN_PROGRESS", "BLOCKED", "DONE", "VERIFIED", "REWORK", "CANCELLED"}
WorkState == [status: WorkStatus, blocker: BOOLEAN, planned: Step, deps: SUBSET Work]
ActState ==
  [status: {"PLANNED", "IN_PROGRESS", "BLOCKED", "COMPLETED", "CANCELLED"},
   due: Step, blocker: BOOLEAN]

Allowed ==
  [PLANNED |-> {"READY", "CANCELLED"},
   READY |-> {"IN_PROGRESS", "BLOCKED", "CANCELLED"},
   IN_PROGRESS |-> {"DONE", "BLOCKED", "CANCELLED"},
   BLOCKED |-> {"IN_PROGRESS", "CANCELLED"},
   DONE |-> {"VERIFIED", "REWORK"},
   VERIFIED |-> {"REWORK"},
   REWORK |-> {"IN_PROGRESS", "CANCELLED"},
   CANCELLED |-> {}]

\* Claim.validate_grounding
GroundingOK == \A c \in Claim : Standing[c] \in {"fact", "inference"} => Sources[c] # {}

ASSUME HistoryConstantsOK ==
  /\ FirstStep \in Nat /\ LastStep \in Nat /\ FirstStep <= LastStep
  /\ EventId \subseteq Nat
  /\ TrackOf \in [Work -> Track]
  /\ NextMilestone \in [Track -> Milestone \cup {None}] /\ Deadline \in Milestone
  /\ Sources \in [Claim -> SUBSET Evidence]
  /\ Standing \in [Claim -> {"fact", "inference", "assumption", "unknown"}]
  /\ \A e \in Entity : FirstState[e] \in Values[e]
  /\ \A w \in Work : Values[w] \subseteq WorkState
  /\ \A m \in Milestone \cup Evidence : Values[m] \subseteq Step
  /\ \A a \in Act : Values[a] \subseteq ActState
  /\ GroundingOK

VARIABLES
  currentStep,  \* ObservableCase.current_step
  now,          \* the current state of every entity
  events        \* development_events

historyVars == <<currentStep, now, events>>

-----------------------------------------------------------------------------
(* The validators *)

\* validate_event and require_a_change
EventOK(v) ==
  /\ v.effective <= v.observed
  /\ v.changes # <<>>
  /\ \A e \in DOMAIN v.changes :
       LET c == v.changes[e]
       IN  /\ c.before # c.after
           /\ (e \in Work /\ c.before.status # c.after.status)
                => c.after.status \in Allowed[c.before.status]

\* A mutant: the last change may lead elsewhere.
ChainsOKAnyEnd(state, log) == \A e \in Entity : Continuous(log, e)

\* _validate_event_chains: no gap, and the last change led to the current state.
ChainsOK(state, log) ==
  \A e \in Entity : Continuous(log, e) /\ LeadsTo(log, e, state[e])

\* The work items an item waits for, or that wait for it, however many between.
DependsOn(state) ==
  TransitiveClosure([p \in Work \X Work |-> p[2] \in state[p[1]].deps], Work)
Descendants(state, w) ==
  LET waits == DependsOn(state)
  IN  {x \in Work : waits[x, w]}

\* Only the current dependencies are looked at.
Acyclic(state) ==
  LET waits == DependsOn(state)
  IN  \A w \in Work : ~waits[w, w]

RecordOK(step, state, log) ==
  /\ \A v \in log : EventOK(v) /\ v.observed <= step
  /\ \A u, v \in log : u.id = v.id => u = v
  /\ ChainsOK(state, log)
  /\ Acyclic(state)

-----------------------------------------------------------------------------
(* The record grows. *)

HistoryInit ==
  /\ currentStep = FirstStep
  /\ now = FirstState
  /\ events = {}
  /\ RecordOK(currentStep, now, events)

\* The author adds an event, and gives the entities it touches the state it left
\* them in as their current one.
Observe(v) ==
  /\ v.id \notin {u.id : u \in events}
  /\ events' = events \cup {v}
  /\ now' = [e \in Entity |->
               IF e \in DOMAIN v.changes THEN v.changes[e].after ELSE now[e]]
  /\ RecordOK(currentStep, now', events')
  /\ UNCHANGED currentStep

\* The author starts from the current state of the entity: an event that is
\* not the last of its chain is then refused.
Changes(e) == [before: {now[e]}, after: Values[e]]
ObserveAny ==
  \E id \in EventId, s \in 0..currentStep, e \in Entity :
    \E c \in Changes(e) :
      \* learnt the step after it became true
      Observe([id |-> id, effective |-> IF s = 0 THEN 0 ELSE s - 1, observed |-> s,
               changes |-> [x \in {e} |-> c]])

\* One event may move two entities: an evidence slips and the milestone with it.
ObservePair ==
  \E id \in EventId, e \in Evidence, m \in Milestone :
    \E c \in Changes(e), d \in Changes(m) :
      Observe([id |-> id, effective |-> currentStep, observed |-> currentStep,
               changes |-> [x \in {e, m} |-> IF x = e THEN c ELSE d]])

PassStep ==
  /\ currentStep < LastStep
  /\ currentStep' = currentStep + 1
  /\ UNCHANGED <<now, events>>

-----------------------------------------------------------------------------
(* The case as it was *)

\* reconstruct_case_at_step
Rewound(s) == [e \in Entity |-> TakenBack(events, e, s, now[e])]

\* A mutant: an event is seen from the step it became true.
EffectiveEvents(s) == {v \in events : v.effective <= s}

\* build_development_timeline
VisibleEvents(s) == {v \in events : v.observed <= s}
Arrived(state, s) == {e \in Evidence : state[e] <= s}

\* A mutant: what a blocked item holds up is not compared with the deadline.
PropagationAlone(state, w) ==
  LET affected == Descendants(state, w)
      tracks == {TrackOf[x] : x \in affected} \cup (IF affected = {} THEN {TrackOf[w]} ELSE {})
      milestones == {NextMilestone[t] : t \in tracks} \ {None}
  IN  [source |-> w, downstream |-> affected, tracks |-> tracks, milestones |-> milestones,
       deadline |-> Deadline \in milestones \/ state[w].planned <= state[Deadline]]

\* _blocker_propagations: a blocked item that holds nothing up holds up its track.
Propagation(state, w) ==
  LET affected == Descendants(state, w)
      tracks == {TrackOf[x] : x \in affected} \cup (IF affected = {} THEN {TrackOf[w]} ELSE {})
      milestones == {NextMilestone[t] : t \in tracks} \ {None}
  IN  [source |-> w, downstream |-> affected, tracks |-> tracks, milestones |-> milestones,
       deadline |-> \/ Deadline \in milestones
                    \/ \E x \in affected \cup {w} : state[x].planned <= state[Deadline]]
Propagations(state) == {Propagation(state, w) : w \in {x \in Work : state[x].blocker}}

Timeline(s) ==
  LET state == Rewound(s)
  IN  [state |-> state, eligible |-> Arrived(state, s),
       events |-> {[id |-> v.id, affected |-> DOMAIN v.changes] : v \in VisibleEvents(s)},
       propagations |-> Propagations(state)]

-----------------------------------------------------------------------------
(* The packet *)

Recoverability(o) ==
  IF o \notin Reversible THEN "low"
  ELSE IF Cost[o] # None /\ Cost[o] <= 3 THEN "high" ELSE "medium"

Detectability(arrived) ==
  IF arrived # {} THEN "observable_now"
  ELSE IF Evidence # {} THEN "observable_later" ELSE "unknown"

\* _build_work_impacts: of every item, blocked or not.
WorkImpact(state, w) ==
  LET affected == Descendants(state, w)
  IN  [source |-> w, downstream |-> affected, tracks |-> {TrackOf[x] : x \in affected},
       deadline |-> \E x \in affected \cup {w} : state[x].planned <= state[Deadline]]

\* build_observable_case_packet
Packet(s) ==
  LET state == Rewound(s)
      arrived == Arrived(state, s)
      claims == {c \in Claim : Sources[c] \subseteq arrived}
  IN  [step |-> s,
       deadline |-> state[Deadline],
       work |-> [w \in Work |-> state[w]],
       actions |-> [a \in Act |-> state[a]],
       blockers |-> {w \in Work : state[w].blocker},
       sources |-> arrived,
       availability |-> [e \in Evidence |-> state[e]],
       claims |-> claims,
       assumptions |-> {c \in claims : Standing[c] = "assumption"},
       unknowns |-> {c \in claims : Standing[c] = "unknown"},
       detectability |-> Detectability(arrived),
       recoverability |-> [o \in Option |-> Recoverability(o)],
       impacts |-> {WorkImpact(state, w) : w \in Work},
       events |-> VisibleEvents(s)]

-----------------------------------------------------------------------------
(* Properties *)

\* reconstruct_case_at_step agrees with the events at every step: rewinding an
\* accepted record gives what replaying it gives.
HindsightIsFaithful ==
  \A s \in 0..currentStep : \A e \in Entity : Rewound(s)[e] = Replayed(events, e, s, now[e])

\* An item that is blocked is reported with the same consequences by the
\* timeline of a person and by the packet of an Agent (development_twin and
\* packets compute them separately): what an Agent is told reaches the
\* deadline, a person is told too, at every step.
TimelineCoversThePacket ==
  \A s \in 0..currentStep :
    LET packet == Packet(s)
        told == Timeline(s).propagations
    IN  \A i \in packet.impacts :
          i.source \in packet.blockers =>
            \E p \in told :
              /\ p.source = i.source /\ p.downstream = i.downstream
              /\ i.tracks \subseteq p.tracks
              /\ i.deadline => p.deadline
=============================================================================
