----------------------------- MODULE TwinProofs -----------------------------
(***************************************************************************)
(* What holds of DevelopmentHistory and DecisionTwin for every case:       *)
(*   1. the record: rewinding it agrees with its events, and an earlier    *)
(*      step reads the same whatever is learnt later;                      *)
(*   2. what a person and an Agent are told of a blocked item;             *)
(*   3. the past is closed: packet, timeline and workspace of a past step; *)
(*   4. the Chair meets the checks of its decision;                        *)
(*   5. a violated guardrail stops the action.                             *)
(***************************************************************************)
EXTENDS DecisionTwin, EventChainProofs, WellFoundedInduction

(* 1. The record *)

\* States keep to the values of their entity, and the log is one the
\* validators accept.
HistoryInv ==
  /\ currentStep \in Step
  /\ \A e \in Entity : now[e] \in Values[e]
  /\ LogOK(events) /\ HasEnds(events)
  /\ \A v \in events : \A e \in DOMAIN v.changes \cap Entity :
       v.changes[e].before \in Values[e] /\ v.changes[e].after \in Values[e]
  /\ ChainsOK(now, events)

LEMMA StepsAreNumbers ==
  /\ LastStep \in Nat /\ EventId \subseteq Nat
  /\ HistoryInv => currentStep \in Nat /\ currentStep <= LastStep
<1>1. LastStep \in Nat /\ EventId \subseteq Nat
  BY HistoryConstantsOK
<1>. QED  BY ONLY <1>1 DEF HistoryInv, Step

\* What an author's event is: it starts from the current states.
Authored(v) ==
  /\ v.id \in EventId
  /\ v.observed \in 0..currentStep
  /\ \A e \in DOMAIN v.changes :
       /\ e \in Entity
       /\ v.changes[e].before = now[e]
       /\ v.changes[e].after \in Values[e]

LEMMA AuthorsObserve ==
  ASSUME currentStep \in Nat, ObserveAny \/ ObservePair
  PROVE  \E v : Authored(v) /\ Observe(v)
<1>1. CASE ObserveAny
  <2>0. PICK id \in EventId, s \in 0..currentStep, e \in Entity :
          \E c \in Changes(e) :
            Observe([id |-> id, effective |-> IF s = 0 THEN 0 ELSE s - 1, observed |-> s,
                     changes |-> [x \in {e} |-> c]])
    BY <1>1 DEF ObserveAny
  <2>1. PICK c \in Changes(e) :
          Observe([id |-> id, effective |-> IF s = 0 THEN 0 ELSE s - 1, observed |-> s,
                   changes |-> [x \in {e} |-> c]])
    BY <2>0
  <2> DEFINE v == [id |-> id, effective |-> IF s = 0 THEN 0 ELSE s - 1, observed |-> s,
                   changes |-> [x \in {e} |-> c]]
  <2>2. c.before = now[e] /\ c.after \in Values[e]
    BY DEF Changes
  <2>3. Authored(v)
    BY <2>2 DEF Authored
  <2>. QED  BY <2>1, <2>3
<1>2. CASE ObservePair
  <2>0. PICK id \in EventId, e \in Evidence, m \in Milestone :
          \E c \in Changes(e), d \in Changes(m) :
            Observe([id |-> id, effective |-> currentStep, observed |-> currentStep,
                     changes |-> [x \in {e, m} |-> IF x = e THEN c ELSE d]])
    BY <1>2 DEF ObservePair
  <2>1. PICK c \in Changes(e), d \in Changes(m) :
          Observe([id |-> id, effective |-> currentStep, observed |-> currentStep,
                   changes |-> [x \in {e, m} |-> IF x = e THEN c ELSE d]])
    BY <2>0
  <2> DEFINE v == [id |-> id, effective |-> currentStep, observed |-> currentStep,
                   changes |-> [x \in {e, m} |-> IF x = e THEN c ELSE d]]
  <2>2. /\ c.before = now[e] /\ c.after \in Values[e] /\ e \in Entity
        /\ d.before = now[m] /\ d.after \in Values[m] /\ m \in Entity
    BY DEF Changes, Entity
  <2>3. Authored(v)
    BY <2>2 DEF Authored
  <2>. QED  BY <2>1, <2>3
<1>. QED  BY <1>1, <1>2

\* An accepted event is new, and it changes the states it starts from.
LEMMA Observed ==
  ASSUME HistoryInv, NEW v, Authored(v), Observe(v)
  PROVE  /\ v.id \in Nat /\ v.observed \in Nat
         /\ v.id \notin {u.id : u \in events} /\ v \notin events
         /\ events' = events \cup {v}
         /\ currentStep' = currentStep
         /\ ChainsOK(now', events')
         /\ \A e \in Entity :
              IF e \in DOMAIN v.changes
              THEN /\ v.changes[e].before = now[e] /\ v.changes[e].after = now'[e]
                   /\ now[e] # now'[e] /\ now'[e] \in Values[e]
              ELSE now[e] = now'[e]
<1> USE HistoryConstantsOK
<1>1. /\ v.id \in Nat /\ v.observed \in Nat
      /\ v.id \notin {u.id : u \in events} /\ v \notin events
      /\ events' = events \cup {v}
      /\ currentStep' = currentStep
  <2>1. v.id \in Nat /\ v.observed \in Nat
    <3>1. v.id \in EventId /\ v.observed \in 0..currentStep
      BY DEF Authored
    <3>2. EventId \subseteq Nat
      BY StepsAreNumbers
    <3>3. currentStep \in Nat
      BY StepsAreNumbers
    <3>4. v.id \in Nat
      BY <3>1, <3>2
    <3>5. v.observed \in Nat
      BY <3>1, <3>3
    <3>. QED  BY <3>4, <3>5
  <2>2. /\ v.id \notin {u.id : u \in events}
        /\ events' = events \cup {v}
        /\ currentStep' = currentStep
    BY DEF Observe
  <2>3. v \notin events
    BY <2>2
  <2>. QED  BY <2>1, <2>2, <2>3
<1>2. RecordOK(currentStep, now', events')
  BY DEF Observe
<1>3. EventOK(v)
  BY <1>1, <1>2 DEF RecordOK
<1>4. \A e \in Entity :
        now'[e] = IF e \in DOMAIN v.changes THEN v.changes[e].after ELSE now[e]
  BY DEF Observe
<1>5. \A e \in DOMAIN v.changes :
        /\ v.changes[e].before = now[e] /\ v.changes[e].after \in Values[e]
        /\ v.changes[e].before # v.changes[e].after
  BY <1>3 DEF Authored, EventOK
<1>6. ChainsOK(now', events')
  BY <1>2 DEF RecordOK
<1>. QED  BY <1>1, <1>4, <1>5, <1>6

LEMMA HistoryOfObserve ==
  ASSUME HistoryInv, NEW v, Authored(v), Observe(v)
  PROVE  HistoryInv'
<1>1. /\ v.id \in Nat /\ v.observed \in Nat
      /\ v.id \notin {u.id : u \in events}
      /\ events' = events \cup {v}
      /\ currentStep' = currentStep
      /\ ChainsOK(now', events')
      /\ \A e \in Entity :
           IF e \in DOMAIN v.changes
           THEN /\ v.changes[e].before = now[e] /\ v.changes[e].after = now'[e]
                /\ now[e] # now'[e] /\ now'[e] \in Values[e]
           ELSE now[e] = now'[e]
  BY Observed
<1>2. LogOK(events') /\ HasEnds(events')
  BY <1>1, LogGrows DEF HistoryInv
<1>3. \A e \in Entity : now'[e] \in Values[e]
  BY <1>1 DEF HistoryInv
<1>4. \A u \in events' : \A e \in DOMAIN u.changes \cap Entity :
        u.changes[e].before \in Values[e] /\ u.changes[e].after \in Values[e]
  BY <1>1 DEF HistoryInv
<1>. QED  BY <1>1, <1>2, <1>3, <1>4 DEF HistoryInv

LEMMA HistoryStart == HistoryInit => HistoryInv
<1> SUFFICES ASSUME HistoryInit PROVE HistoryInv
  OBVIOUS
<1>1. ChainsOK(now, events)
  BY DEF HistoryInit, RecordOK
<1>2. LogOK(events) /\ HasEnds(events)
  BY EmptyLog DEF HistoryInit
<1>. QED  BY <1>1, <1>2, HistoryConstantsOK DEF HistoryInit, HistoryInv, Step

\* A step of the system adds an author's event, or leaves the record alone but
\* for the step it is at.
LEMMA RecordSteps ==
  ASSUME HistoryInv, [TwinNext]_twinVars
  PROVE  \/ \E v : Authored(v) /\ Observe(v)
         \/ PassStep
         \/ UNCHANGED historyVars
<1>1. currentStep \in Nat
  BY HistoryConstantsOK DEF HistoryInv, Step
<1>. QED  BY <1>1, AuthorsObserve
     DEF TwinNext, GrowRecord, StartReview, EndReview, Decide, Advance, Evaluate, twinVars

LEMMA HistoryStep == HistoryInv /\ [TwinNext]_twinVars => HistoryInv'
<1> SUFFICES ASSUME HistoryInv, [TwinNext]_twinVars PROVE HistoryInv'
  OBVIOUS
<1>1. CASE \E v : Authored(v) /\ Observe(v)
  BY <1>1, HistoryOfObserve
<1>2. CASE PassStep
  BY <1>2, HistoryConstantsOK DEF PassStep, HistoryInv, Step
<1>3. CASE UNCHANGED historyVars
  BY <1>3 DEF historyVars, HistoryInv
<1>. QED  BY <1>1, <1>2, <1>3, RecordSteps

\* The record of every behaviour.
THEOREM HistoryHolds == TwinSpec => []HistoryInv
<1>1. TwinInit => HistoryInv
  BY HistoryStart DEF TwinInit
<1>. QED  BY <1>1, HistoryStep, PTL DEF TwinSpec

\* At every step of every case the reconstruction agrees with the events: the
\* current states with the later changes taken back are the states the earlier
\* events left.
THEOREM HindsightHolds == TwinSpec => []HindsightIsFaithful
<1>1. HistoryInv => HindsightIsFaithful
  <2> SUFFICES ASSUME HistoryInv, NEW s \in 0..currentStep, NEW e \in Entity
               PROVE  Rewound(s)[e] = Replayed(events, e, s, now[e])
    BY DEF HindsightIsFaithful
  <2>1. s \in Nat
    BY HistoryConstantsOK DEF HistoryInv, Step
  <2>2. Rewound(s)[e] = TakenBack(events, e, s, now[e])
    BY DEF Rewound
  <2>. QED  BY <2>1, <2>2, RewindingIsReplaying DEF HistoryInv, ChainsOK
<1>. QED  BY <1>1, HistoryHolds, PTL

-----------------------------------------------------------------------------
(* 2. What is told of a blocked item *)

\* Whatever the record, a blocked item has in the timeline the same downstream
\* items as in the packet, and no fewer tracks or deadlines.
THEOREM TimelineCovers == TwinSpec => []TimelineCoversThePacket
<1>1. TimelineCoversThePacket
  <2> SUFFICES ASSUME NEW s \in 0..currentStep, NEW i \in Packet(s).impacts,
                      i.source \in Packet(s).blockers
               PROVE  \E p \in Timeline(s).propagations :
                        /\ p.source = i.source /\ p.downstream = i.downstream
                        /\ i.tracks \subseteq p.tracks
                        /\ i.deadline => p.deadline
    BY DEF TimelineCoversThePacket
  <2> DEFINE state == Rewound(s)
  <2>1. PICK w \in Work : i = WorkImpact(state, w)
    BY DEF Packet
  <2>2. i.source = w /\ i.downstream = Descendants(state, w)
    BY <2>1 DEF WorkImpact
  <2>3. w \in Work /\ state[w].blocker
    BY <2>2 DEF Packet
  <2> DEFINE p == Propagation(state, w)
  <2>4. p \in Timeline(s).propagations
    BY <2>3 DEF Timeline, Propagations
  <2>5. p.source = i.source /\ p.downstream = i.downstream
    BY <2>2 DEF Propagation
  <2>6. i.tracks \subseteq p.tracks
    BY <2>1 DEF WorkImpact, Propagation
  <2>7. i.deadline => p.deadline
    BY <2>1 DEF WorkImpact, Propagation
  <2>. QED  BY <2>4, <2>5, <2>6, <2>7
<1>. QED  BY <1>1, PTL

-----------------------------------------------------------------------------
(* 3. The past is closed *)

\* A step that tells nothing of step s leaves the states rewound to s as they
\* were, and the events visible at s.
LEMMA PastStates ==
  ASSUME HistoryInv, [TwinNext]_twinVars, NEW s \in Nat,
         \A v \in events' \ events : v.observed > s
  PROVE  Rewound(s)' = Rewound(s) /\ VisibleEvents(s)' = VisibleEvents(s)
<1>1. CASE \E v : Authored(v) /\ Observe(v)
  <2>1. PICK v : Authored(v) /\ Observe(v)
    BY <1>1
  <2>2. /\ v.id \in Nat /\ v.observed \in Nat
        /\ v.id \notin {u.id : u \in events} /\ v \notin events
        /\ events' = events \cup {v}
        /\ ChainsOK(now', events')
        /\ \A e \in Entity :
             IF e \in DOMAIN v.changes
             THEN /\ v.changes[e].before = now[e] /\ v.changes[e].after = now'[e]
                  /\ now[e] # now'[e] /\ now'[e] \in Values[e]
             ELSE now[e] = now'[e]
    BY <2>1, Observed
  <2>3. v.observed > s
    BY <2>2
  <2>4. ASSUME NEW e \in Entity
        PROVE  TakenBack(events', e, s, now'[e]) = TakenBack(events, e, s, now[e])
    <3>1. /\ LogOK(events) /\ HasEnds(events)
          /\ LeadsTo(events, e, now[e]) /\ LeadsTo(events \cup {v}, e, now'[e])
      BY <2>2 DEF HistoryInv, ChainsOK
    <3>2. IF e \in DOMAIN v.changes
          THEN v.changes[e].before = now[e] /\ v.changes[e].after = now'[e] /\ now[e] # now'[e]
          ELSE now[e] = now'[e]
      BY <2>2
    <3>3. TakenBack(events \cup {v}, e, s, now'[e]) = TakenBack(events, e, s, now[e])
      BY <2>2, <2>3, <3>1, <3>2, PastStatesStay
    <3>. QED  BY <2>2, <3>3
  <2>5. Rewound(s)' = Rewound(s)
    BY <2>4 DEF Rewound
  <2>6. VisibleEvents(s)' = VisibleEvents(s)
    BY <2>2, <2>3 DEF VisibleEvents
  <2>. QED  BY <2>5, <2>6
<1>2. CASE PassStep
  BY <1>2 DEF PassStep, Rewound, VisibleEvents
<1>3. CASE UNCHANGED historyVars
  BY <1>3 DEF historyVars, Rewound, VisibleEvents
<1>. QED  BY <1>1, <1>2, <1>3, RecordSteps

LEMMA PastPacket ==
  ASSUME NEW s, Rewound(s)' = Rewound(s), VisibleEvents(s)' = VisibleEvents(s)
  PROVE  Packet(s)' = Packet(s) /\ Timeline(s)' = Timeline(s)
<1>1. Packet(s)' = Packet(s)
  BY DEF Packet
<1>2. Timeline(s)' = Timeline(s)
  BY DEF Timeline
<1>. QED  BY <1>1, <1>2

\* The step of the workspace, once the case was advanced.
OutcomeInv == outcome # None => outcome.step \in Nat

LEMMA StoredStepGrows ==
  ASSUME \A d, from, target : OutcomeOf(d, from, target) # None,
         HistoryInv, OutcomeInv, [TwinNext]_twinVars
  PROVE  /\ OutcomeInv'
         /\ StoredStep \in Nat /\ StoredStep' \in Nat
         /\ StoredStep <= StoredStep'
<1>1. currentStep \in Nat /\ currentStep' \in Nat /\ currentStep <= currentStep'
  <2>1. currentStep \in Nat
    BY StepsAreNumbers
  <2>2. currentStep' = currentStep \/ currentStep' = currentStep + 1
    BY RecordSteps DEF Observe, PassStep, historyVars
  <2>. QED  BY <2>1, <2>2
<1>2. StoredStep \in Nat
  BY <1>1 DEF StoredStep, OutcomeInv
<1>3. CASE UNCHANGED outcome
  BY <1>1, <1>2, <1>3 DEF StoredStep, OutcomeInv
<1>4. CASE Advance
  <2>1. PICK target \in StoredStep + 1..LastStep :
          outcome' = OutcomeOf(decision, StoredStep, target)
    BY <1>4 DEF Advance
  <2>2. outcome' # None
    BY <2>1
  <2>3. outcome'.step = target
    BY <2>1 DEF OutcomeOf
  <2>4. target \in Nat /\ StoredStep <= target
    BY <1>2, StepsAreNumbers
  <2>5. StoredStep' = target
    BY <2>2, <2>3 DEF StoredStep
  <2>. QED  BY <1>2, <2>3, <2>4, <2>5 DEF OutcomeInv
<1>5. UNCHANGED outcome \/ Advance
  BY DEF TwinNext, GrowRecord, StartReview, EndReview, Decide, Evaluate, twinVars
<1>. QED  BY <1>3, <1>4, <1>5

\* The screen of an earlier step, made of the states and the events of that
\* step alone.
HistoricalScreen(state, log, s) ==
  LET modelled == TemplateStep # None /\ s >= TemplateStep
      expected == IF modelled THEN Transitions ELSE [p \in Option |-> <<>>]
  IN  [mode |-> "historical", phase |-> None, action |-> None,
       remaining |-> <<state[Deadline], s>>,
       evidence |-> Arrived(state, s),
       nextEvidence |-> {state[e] : e \in Evidence} \ 0..s,
       active |-> {a \in Act : state[a].status \notin {"COMPLETED", "CANCELLED"}},
       tracks |-> [t \in Track |-> TrackState(state, t)],
       posture |-> Posture(state, s),
       chains |-> {CausalChain(state, v) : v \in LastThree(log)},
       blockers |-> Propagations(state),
       deliberation |-> Deliberation(state, s, TRUE, None),
       alternatives |-> [p \in Option |-> Alternative(state, s, TRUE, None, None, p)],
       control |-> None,
       observed |-> ObservedChanges(expected, None, None),
       result |-> Results(expected, None, None, None)]

LEMMA ScreenIsHistorical ==
  ASSUME NEW s, s # StoredStep
  PROVE  Workspace(s) = HistoricalScreen(Rewound(s), VisibleEvents(s), s)
<1>1. \A e, x : Results(x, None, None, e) = Results(x, None, None, None)
  BY DEF Results
<1>2. (s # StoredStep) = TRUE
  OBVIOUS
<1>. QED  BY <1>1, <1>2 DEF Workspace, HistoricalScreen

LEMMA ScreenStaysHistorical ==
  ASSUME NEW s, (s # StoredStep)'
  PROVE  Workspace(s)' = HistoricalScreen(Rewound(s)', VisibleEvents(s)', s)
<1>1. \A e, x : Results(x, None, None, e) = Results(x, None, None, None)
  BY DEF Results
<1>2. (s # StoredStep)' = TRUE
  OBVIOUS
<1>. QED  BY <1>1, <1>2 DEF Workspace, HistoricalScreen

\* What is learnt, decided, measured or evaluated later changes the packet, the
\* timeline and the screen of an earlier step only by an event observed by then.
\* (None stands for no outcome; it is none.)
THEOREM PastHolds ==
  ASSUME \A d, from, target : OutcomeOf(d, from, target) # None
  PROVE  TwinSpec => PastIsClosed
<1>1. TwinInit => HistoryInv /\ OutcomeInv
  BY HistoryStart DEF TwinInit, OutcomeInv
<1>2. HistoryInv /\ OutcomeInv /\ [TwinNext]_twinVars => (HistoryInv /\ OutcomeInv)'
  BY HistoryStep, StoredStepGrows
<1>3. HistoryInv /\ OutcomeInv /\ [TwinNext]_twinVars =>
        [\A s \in 0..currentStep :
           (\A v \in events' \ events : v.observed > s) =>
             /\ Packet(s)' = Packet(s) /\ Timeline(s)' = Timeline(s)
             /\ s < StoredStep => Workspace(s)' = Workspace(s)]_twinVars
  <2> SUFFICES ASSUME HistoryInv, OutcomeInv, [TwinNext]_twinVars, NEW s \in 0..currentStep,
                      \A v \in events' \ events : v.observed > s
               PROVE  /\ Packet(s)' = Packet(s) /\ Timeline(s)' = Timeline(s)
                      /\ s < StoredStep => Workspace(s)' = Workspace(s)
    OBVIOUS
  <2>1. s \in Nat
    BY StepsAreNumbers
  <2>2. Rewound(s)' = Rewound(s) /\ VisibleEvents(s)' = VisibleEvents(s)
    BY <2>1, PastStates
  <2>3. Packet(s)' = Packet(s) /\ Timeline(s)' = Timeline(s)
    BY <2>2, PastPacket
  <2>4. ASSUME s < StoredStep PROVE Workspace(s)' = Workspace(s)
    <3>1. s # StoredStep /\ s # StoredStep'
      BY <2>1, <2>4, StoredStepGrows
    <3>. QED  BY <2>2, <3>1, ScreenIsHistorical, ScreenStaysHistorical
  <2>. QED  BY <2>3, <2>4
<1>. QED  BY <1>1, <1>2, <1>3, PTL DEF TwinSpec, PastIsClosed

-----------------------------------------------------------------------------
(* 4. The Chair *)

Below == {p \in Nat \X Nat : p[1] < p[2]}

LEMMA LeastNumber ==
  ASSUME NEW S, S \subseteq Nat, S # {}
  PROVE  /\ \E x \in S : \A y \in S : x <= y
         /\ Min(S) \in S /\ \A y \in S : Min(S) <= y
<1>1. IsWellFoundedOn(Below, Nat)
  BY NatLessThanWellFounded DEF OpToRel, Below
<1>2. PICK x \in S : \A y \in S : <<y, x>> \notin Below
  BY <1>1, WFMin
<1>3. \A y \in S : x <= y
  <2> SUFFICES ASSUME NEW y \in S, y < x PROVE FALSE
    OBVIOUS
  <2>1. <<y, x>> \in Nat \X Nat
    OBVIOUS
  <2>. QED  BY <1>2, <2>1 DEF Below
<1>4. \E z \in S : \A y \in S : z <= y
  BY <1>3
<1>. QED  BY <1>4 DEF Min

\* The ranks of the options: two small numbers and the position.
LEMMA RanksAreNumbers ==
  ASSUME NEW packet, NEW o \in Option
  PROVE  LET a == Rank(packet, o)
         IN  a[1] \in Nat /\ a[2] \in Nat /\ a[3] \in Nat /\ a[3] = Position[o]
  BY TwinConstantsOK DEF Rank

\* There is an option that ranks before all others.
LEMMA OnePreferred ==
  ASSUME NEW packet
  PROVE  Preferred(packet) \in Option /\ Preferred(packet) # None
<1> DEFINE R(o) == Rank(packet, o)
<1>1. \A o \in Option : R(o)[1] \in Nat /\ R(o)[2] \in Nat /\ R(o)[3] \in Nat
  BY RanksAreNumbers
<1>2. \A o, p \in Option : R(o)[3] = R(p)[3] => o = p
  BY RanksAreNumbers, TwinConstantsOK
<1> HIDE DEF R
<1>3. PICK a \in Option : \A p \in Option : R(a)[1] <= R(p)[1]
  <2> DEFINE S == {R(o)[1] : o \in Option}
  <2>1. S \subseteq Nat /\ S # {}
    BY <1>1, TwinConstantsOK
  <2>2. PICK n \in S : \A m \in S : n <= m
    BY <2>1, LeastNumber
  <2>. QED  BY <2>2
<1> DEFINE first == {o \in Option : R(o)[1] = R(a)[1]}
<1>4. PICK b \in first : \A p \in first : R(b)[2] <= R(p)[2]
  <2> DEFINE S == {R(o)[2] : o \in first}
  <2>1. S \subseteq Nat /\ S # {}
    BY <1>1
  <2>2. PICK n \in S : \A m \in S : n <= m
    BY <2>1, LeastNumber
  <2>. QED  BY <2>2
<1> DEFINE second == {o \in first : R(o)[2] = R(b)[2]}
<1>5. PICK c \in second : \A p \in second : R(c)[3] <= R(p)[3]
  <2> DEFINE S == {R(o)[3] : o \in second}
  <2>1. S \subseteq Nat /\ S # {}
    BY <1>1
  <2>2. PICK n \in S : \A m \in S : n <= m
    BY <2>1, LeastNumber
  <2>. QED  BY <2>2
<1>6. ASSUME NEW p \in Option \ {c} PROVE Before(R(c), R(p))
  <2>1. CASE R(c)[1] # R(p)[1]
    <3>1. R(c)[1] < R(p)[1]
      BY <1>1, <1>3, <2>1
    <3>. QED  BY <3>1 DEF Before
  <2>2. CASE R(c)[1] = R(p)[1] /\ R(c)[2] # R(p)[2]
    <3>1. R(c)[2] < R(p)[2]
      BY <1>1, <1>4, <2>2
    <3>2. \A j \in 1..(2 - 1) : R(c)[j] = R(p)[j]
      BY <2>2
    <3>. QED  BY <3>1, <3>2 DEF Before
  <2>3. CASE R(c)[1] = R(p)[1] /\ R(c)[2] = R(p)[2]
    <3>1. p \in second
      BY <2>3
    <3>2. R(c)[3] < R(p)[3]
      BY <1>1, <1>2, <1>5, <3>1
    <3>3. \A j \in 1..(3 - 1) : R(c)[j] = R(p)[j]
      BY <2>3
    <3>. QED  BY <3>2, <3>3 DEF Before
  <2>. QED  BY <2>1, <2>2, <2>3
<1>7. \E o \in Option : \A p \in Option \ {o} : Before(Rank(packet, o), Rank(packet, p))
  BY <1>6 DEF R
<1>8. Preferred(packet) \in Option
  BY <1>7 DEF Preferred
<1>. QED  BY <1>8, TwinConstantsOK

\* What the Chair reads of a packet.
PacketTyped(packet) ==
  /\ packet.step \in Nat /\ packet.deadline \in Nat
  /\ \A e \in Evidence : packet.availability[e] \in Nat

LEMMA NextEvidenceIsLater ==
  ASSUME NEW packet, PacketTyped(packet)
  PROVE  NextEvidence(packet) \in Nat /\ NextEvidence(packet) > packet.step
<1>1. \A n \in FutureSteps(packet) : n \in Nat /\ n > packet.step
  BY DEF FutureSteps, PacketTyped
<1>2. CASE FutureSteps(packet) = {}
  BY <1>2 DEF NextEvidence, PacketTyped
<1>3. CASE FutureSteps(packet) # {}
  <2>1. Min(FutureSteps(packet)) \in FutureSteps(packet)
    BY <1>1, <1>3, LeastNumber
  <2>. QED  BY <1>1, <1>3, <2>1 DEF NextEvidence
<1>. QED  BY <1>2, <1>3

\* Of all types in its order of preference the Chair takes the one allowed.
LEMMA AllowedTypeChosen ==
  ASSUME NEW packet, NEW type \in DecisionType
  PROVE  ChairDecision(packet, {}, {type}).type = type
<1> DEFINE order == Preference(packet)
           S == {i \in DOMAIN order : order[i] \in {type}}
<1>1. DOMAIN order = 1..7
  BY DEF Preference
<1>2. \E i \in 1..7 : order[i] = type
  <2>1. type \in {"APPROVE_WITH_GUARDRAILS", "RUN_REVERSIBLE_TRIAL", "APPROVE",
                  "COLLECT_MINIMUM_EVIDENCE", "DEFER_UNTIL_TRIGGER", "ESCALATE", "REJECT"}
    BY DEF DecisionType, Executing, Conditional
  <2>2. {order[1], order[2], order[3], order[4], order[5], order[6], order[7]} =
          {"APPROVE_WITH_GUARDRAILS", "RUN_REVERSIBLE_TRIAL", "APPROVE",
           "COLLECT_MINIMUM_EVIDENCE", "DEFER_UNTIL_TRIGGER", "ESCALATE", "REJECT"}
    BY DEF Preference
  <2>. QED  BY <2>1, <2>2
<1>3. S \subseteq Nat /\ S # {}
  BY <1>1, <1>2
<1>4. Min(S) \in S
  BY <1>3, LeastNumber
<1>5. order[Min(S)] = type
  BY <1>4
<1>. QED  BY <1>5 DEF ChairDecision

\* The guardrail the Chair puts on every conditional decision.
LEMMA PowerStopIsAhead ==
  ASSUME NEW packet, PacketTyped(packet), NEW guard, guard = PowerStop(packet)
  PROVE  /\ guard.check \in Nat /\ guard.expires \in Nat /\ guard.metric \in Metric
         /\ guard.check > packet.step /\ guard.expires >= guard.check
<1>1. packet.step \in Nat /\ CheckFloor \in Nat
  BY TwinConstantsOK DEF PacketTyped
<1>2. /\ guard.check = Larger(packet.step + 1, CheckFloor)
      /\ guard.expires = Larger(packet.step + 2, CheckFloor + 1)
      /\ guard.metric = "DDR_BANDWIDTH"
  BY DEF PowerStop
<1>3. guard.metric \in Metric
  BY <1>2 DEF Metric
<1>4. \A s, f \in Nat :
        LET c == Larger(s + 1, f)
            x == Larger(s + 2, f + 1)
        IN  c \in Nat /\ x \in Nat /\ c > s /\ x >= c
  BY DEF Larger
<1>. QED  BY <1>1, <1>2, <1>3, <1>4

\* The due step of a plan is ahead of the packet, that of a deferral no later
\* than a deadline that is still open.
LEMMA PlansAreAhead ==
  ASSUME NEW packet, PacketTyped(packet), NEW type \in DecisionType,
         NEW plan, plan = ActionPlan(packet, type)
  PROVE  /\ plan.due \in Nat /\ plan.due >= packet.step
         /\ type = "DEFER_UNTIL_TRIGGER" /\ packet.step <= packet.deadline
              => plan.due <= packet.deadline
<1> DEFINE next == NextEvidence(packet)
           deferred == Larger(packet.step, Smaller(next, packet.deadline))
<1>1. next \in Nat /\ next > packet.step /\ packet.step \in Nat /\ packet.deadline \in Nat
  BY NextEvidenceIsLater DEF PacketTyped
<1>2. plan.due = IF type = "COLLECT_MINIMUM_EVIDENCE" THEN next
                 ELSE IF type = "DEFER_UNTIL_TRIGGER" THEN deferred
                 ELSE packet.step + 1
  BY DEF ActionPlan, Plan, DecisionType, Executing, Conditional
<1>3. \A s, n, l \in Nat :
        LET x == Larger(s, Smaller(n, l))
        IN  x \in Nat /\ x >= s /\ (s <= l => x <= l)
  BY DEF Larger, Smaller
<1>4. /\ deferred \in Nat /\ deferred >= packet.step
      /\ packet.step <= packet.deadline => deferred <= packet.deadline
  BY <1>1, <1>3
<1> HIDE DEF next, deferred
<1>5. CASE type = "COLLECT_MINIMUM_EVIDENCE"
  BY <1>1, <1>2, <1>5
<1>6. CASE type = "DEFER_UNTIL_TRIGGER"
  BY <1>2, <1>4, <1>6
<1>7. CASE type \notin {"COLLECT_MINIMUM_EVIDENCE", "DEFER_UNTIL_TRIGGER"}
  <2>1. plan.due = packet.step + 1
    BY <1>2, <1>7
  <2>. QED  BY <1>1, <1>7, <2>1
<1>. QED  BY <1>5, <1>6, <1>7

\* The plan is of the kind its type asks for.
LEMMA PlansAreOfTheirType ==
  ASSUME NEW packet, NEW type \in DecisionType, NEW plan, plan = ActionPlan(packet, type)
  PROVE  /\ type \in Executing => plan.type = "execute"
         /\ type = "COLLECT_MINIMUM_EVIDENCE" =>
              plan.type = "collect_evidence" /\ plan.evidence # {}
         /\ type = "DEFER_UNTIL_TRIGGER" => plan.type = "defer"
         /\ type = "ESCALATE" => plan.type = "escalate" /\ plan.asks
         /\ type = "REJECT" => plan.type = "reject" /\ plan.reopens
<1>1. CASE type \in Executing
  BY <1>1 DEF ActionPlan, Plan, Executing, Conditional
<1>2. CASE type = "COLLECT_MINIMUM_EVIDENCE"
  BY <1>2 DEF ActionPlan, Plan, Executing, Conditional
<1>3. CASE type = "DEFER_UNTIL_TRIGGER"
  BY <1>3 DEF ActionPlan, Plan, Executing, Conditional
<1>4. CASE type = "ESCALATE"
  BY <1>4 DEF ActionPlan, Plan, Executing, Conditional
<1>5. CASE type = "REJECT"
  BY <1>5 DEF ActionPlan, Plan, Executing, Conditional
<1>. QED  BY <1>1, <1>2, <1>3, <1>4, <1>5 DEF DecisionType

LEMMA ChairPasses ==
  ASSUME NEW packet, PacketTyped(packet), NEW type \in DecisionType
  PROVE  LET d == ChairDecision(packet, {}, {type})
         IN  /\ DecisionOK(d) /\ PolicyOK(d, {type}, packet.step)
             /\ ControlComplete(d, packet.step) /\ ActionComplete(d, packet.step)
             /\ packet.step <= packet.deadline => ActionTypeComplete(d, packet.deadline)
<1>1. PICK d : d = ChairDecision(packet, {}, {type})
  OBVIOUS
<1>2. PICK guard : guard = PowerStop(packet)
  OBVIOUS
<1>3. PICK plan : plan = ActionPlan(packet, type)
  OBVIOUS
<1>4. d.type = type
  BY <1>1, AllowedTypeChosen
<1>5. /\ d.option = IF type \in Executing THEN Preferred(packet) ELSE None
      /\ d.safeguards = IF type \in Conditional THEN <<guard>> ELSE <<>>
      /\ d.plan = plan
  BY <1>1, <1>2, <1>3, <1>4 DEF ChairDecision
<1>6. /\ guard.check \in Nat /\ guard.expires \in Nat /\ guard.metric \in Metric
      /\ guard.check > packet.step /\ guard.expires >= guard.check
  BY <1>2, PowerStopIsAhead
<1>7. packet.step \in Nat /\ packet.deadline \in Nat
  BY DEF PacketTyped
<1>8. \A i \in DOMAIN d.safeguards : d.safeguards[i] = guard
  BY <1>5
<1>9. ControlComplete(d, packet.step)
  <2>1. guard.check >= packet.step
    BY <1>6, <1>7
  <2>. QED  BY <1>6, <1>8, <2>1 DEF ControlComplete
<1>10. /\ d.plan.due \in Nat /\ d.plan.due >= packet.step
       /\ d.type = "DEFER_UNTIL_TRIGGER" /\ packet.step <= packet.deadline
            => d.plan.due <= packet.deadline
  BY <1>3, <1>4, <1>5, PlansAreAhead
<1>11. ActionComplete(d, packet.step)
  BY <1>10 DEF ActionComplete
<1>12. PolicyOK(d, {type}, packet.step)
  <2>1. guard.check > 0 /\ guard.expires > 0
    BY <1>6, <1>7
  <2>2. type \in Conditional => d.safeguards # <<>>
    BY <1>5
  <2>. QED  BY <1>4, <1>6, <1>8, <1>10, <2>1, <2>2 DEF PolicyOK
<1>13. /\ d.type \in Executing => d.plan.type = "execute"
       /\ d.type = "COLLECT_MINIMUM_EVIDENCE" =>
            d.plan.type = "collect_evidence" /\ d.plan.evidence # {}
       /\ d.type = "DEFER_UNTIL_TRIGGER" => d.plan.type = "defer"
       /\ d.type = "ESCALATE" => d.plan.type = "escalate" /\ d.plan.asks
       /\ d.type = "REJECT" => d.plan.type = "reject" /\ d.plan.reopens
  BY <1>3, <1>4, <1>5, PlansAreOfTheirType
<1>14. \/ d.type \in Executing
       \/ d.type \in {"COLLECT_MINIMUM_EVIDENCE", "DEFER_UNTIL_TRIGGER",
                      "ESCALATE", "REJECT"} \ Executing
  BY <1>4 DEF DecisionType, Executing, Conditional
<1>15. DecisionOK(d)
  BY <1>13, <1>14 DEF DecisionOK
<1>16. ASSUME packet.step <= packet.deadline PROVE ActionTypeComplete(d, packet.deadline)
  <2>1. CASE d.type \in Executing
    <3>1. d.option # None
      BY <1>4, <1>5, <2>1, OnePreferred
    <3>2. d.type = "APPROVE" \/ d.safeguards # <<>>
      BY <1>4, <1>5, <2>1 DEF Executing
    <3>. QED  BY <1>13, <2>1, <3>1, <3>2 DEF ActionTypeComplete
  <2>2. CASE d.type \notin Executing
    <3>1. d.option = None
      BY <1>4, <1>5, <2>2
    <3>. QED  BY <1>10, <1>13, <1>14, <1>16, <2>2, <3>1 DEF ActionTypeComplete
  <2>. QED  BY <2>1, <2>2
<1>. QED  BY <1>1, <1>9, <1>11, <1>12, <1>15, <1>16

LEMMA StatesAreValues ==
  ASSUME HistoryInv, NEW s \in Nat, NEW e \in Entity
  PROVE  Rewound(s)[e] \in Values[e]
<1> DEFINE later == {v \in Chain(events, e) : v.observed > s}
<1>1. Rewound(s)[e] = TakenBack(events, e, s, now[e])
  BY DEF Rewound
<1>2. CASE later = {}
  BY <1>1, <1>2 DEF TakenBack, HistoryInv
<1>3. CASE later # {}
  <2>1. Earliest(later) \in later /\ later \subseteq events
    BY <1>3, EndsOfPart DEF HistoryInv, Chain
  <2>2. e \in DOMAIN Earliest(later).changes \cap Entity
    BY <2>1 DEF Chain
  <2>. QED  BY <1>1, <1>3, <2>1, <2>2 DEF TakenBack, HistoryInv
<1>. QED  BY <1>2, <1>3

LEMMA PacketsAreTyped ==
  ASSUME HistoryInv, NEW s \in Nat
  PROVE  PacketTyped(Packet(s)) /\ Packet(s).step = s
<1>1. \A e \in Milestone \cup Evidence : Rewound(s)[e] \in Nat
  <2>1. \A e \in Milestone \cup Evidence : e \in Entity /\ Values[e] \subseteq Nat
    BY HistoryConstantsOK DEF Entity, Step
  <2>. QED  BY <2>1, StatesAreValues
<1>2. Deadline \in Milestone
  BY HistoryConstantsOK
<1>3. /\ Packet(s).step = s /\ Packet(s).deadline = Rewound(s)[Deadline]
      /\ \A e \in Evidence : Packet(s).availability[e] = Rewound(s)[e]
  BY DEF Packet
<1>. QED  BY <1>1, <1>2, <1>3 DEF PacketTyped

\* The decision the Chair simulates from any packet of any case, under any
\* policy of one type, passes the contract, the policy and the evaluation, but
\* for the check on the type of the action once the deadline has passed, which
\* a DEFER fails.
THEOREM ChairHolds ==
  ASSUME \A d, from, target : OutcomeOf(d, from, target) # None
  PROVE  TwinSpec => []ChairMeetsItsChecks
<1>1. TwinInit => HistoryInv /\ OutcomeInv
  BY HistoryStart DEF TwinInit, OutcomeInv
<1>2. HistoryInv /\ OutcomeInv /\ [TwinNext]_twinVars => (HistoryInv /\ OutcomeInv)'
  BY HistoryStep, StoredStepGrows
<1>3. HistoryInv /\ OutcomeInv => ChairMeetsItsChecks
  <2> SUFFICES ASSUME HistoryInv, OutcomeInv PROVE ChairMeetsItsChecks
    OBVIOUS
  <2>1. StoredStep \in Nat
    BY StepsAreNumbers DEF StoredStep, OutcomeInv
  <2>2. PacketTyped(Packet(StoredStep))
    BY <2>1, PacketsAreTyped
  <2>. QED  BY <2>2, ChairPasses DEF ChairMeetsItsChecks
<1>. QED  BY <1>1, <1>2, <1>3, PTL DEF TwinSpec

-----------------------------------------------------------------------------
(* 5. A violated guardrail stops the action.  Two loops lead from a         *)
(* decision to its screen: that over its safeguards and that over the       *)
(* changes expected of its option.  The fold of either is the value of a    *)
(* fixpoint that is chosen: that one exists, and what it is along the       *)
(* prefixes of the sequence, is shown by ascending from zero.               *)

LEMMA Ascent ==
  ASSUME NEW S, 0 \in S, \A n \in Nat : n \in S => n + 1 \in S
  PROVE  Nat \subseteq S
<1> DEFINE Rest == Nat \ S
<1> SUFFICES ASSUME Rest # {}
             PROVE  FALSE
  OBVIOUS
<1>1. Rest \subseteq Nat
  OBVIOUS
<1>2. PICK x \in Rest : \A y \in Rest : x <= y
  <2> HIDE DEF Rest
  <2>. QED  BY <1>1, LeastNumber
<1>3. x \in Nat /\ x # 0 /\ x - 1 \in Nat /\ (x - 1) + 1 = x
  BY <1>2
<1>4. x - 1 \in Rest
  BY <1>2, <1>3
<1>. QED  BY <1>2, <1>3, <1>4

\* A turn of either loop.
Turn(loop, a, x) ==
  IF loop.over = "safeguards" THEN Guard(loop.metrics, loop.step, a, x)
  ELSE Change(loop.last, a, x)

\* What the fold of s over 1..n is a fixpoint of.
Level(loop, s, n, it) ==
  [t \in SUBSET (1..n) |->
     IF t = {} THEN loop.base ELSE Turn(loop, it[t \ {Max(t)}], s[Max(t)])]

LEMMA LastOfInterval ==
  ASSUME NEW n \in Nat, NEW t, t \subseteq 1..(n + 1), n + 1 \in t
  PROVE  Max(t) = n + 1
<1>1. \A y \in t : n + 1 >= y
  OBVIOUS
<1>2. \A x \in t : (\A y \in t : x >= y) => x = n + 1
  OBVIOUS
<1>. QED  BY <1>1, <1>2 DEF Max

LEMMA LevelExists ==
  ASSUME NEW loop, NEW s, NEW n \in Nat
  PROVE  \E it : it = Level(loop, s, n, it)
<1> DEFINE Has(m) == \E it : it = Level(loop, s, m, it)
<1>1. Has(0)
  <2> DEFINE it == [t \in SUBSET (1..0) |-> loop.base]
  <2>1. it = Level(loop, s, 0, it)
    BY DEF Level
  <2>. QED  BY <2>1
<1>2. ASSUME NEW m \in Nat, Has(m)
      PROVE  Has(m + 1)
  <2>1. PICK it : it = Level(loop, s, m, it)
    BY <1>2
  <2> DEFINE jt == [t \in SUBSET (1..(m + 1)) |->
                      IF m + 1 \in t THEN Turn(loop, it[t \ {m + 1}], s[m + 1]) ELSE it[t]]
  <2>2. ASSUME NEW t \in SUBSET (1..(m + 1))
        PROVE  jt[t] = IF t = {} THEN loop.base
                       ELSE Turn(loop, jt[t \ {Max(t)}], s[Max(t)])
    <3>1. CASE m + 1 \in t
      <4>1. Max(t) = m + 1
        BY <3>1, LastOfInterval
      <4>2. t \ {m + 1} \in SUBSET (1..(m + 1)) /\ m + 1 \notin t \ {m + 1}
        OBVIOUS
      <4>3. jt[t \ {m + 1}] = it[t \ {m + 1}]
        BY <4>2
      <4>. QED  BY <3>1, <4>1, <4>3
    <3>2. CASE m + 1 \notin t
      <4>1. t \in SUBSET (1..m)
        BY <3>2
      <4>2. it[t] = IF t = {} THEN loop.base ELSE Turn(loop, it[t \ {Max(t)}], s[Max(t)])
        BY <2>1, <4>1 DEF Level
      <4>3. t \ {Max(t)} \in SUBSET (1..(m + 1)) /\ m + 1 \notin t \ {Max(t)}
        BY <3>2
      <4>4. jt[t \ {Max(t)}] = it[t \ {Max(t)}] /\ jt[t] = it[t]
        BY <3>2, <4>3
      <4>. QED  BY <4>2, <4>4
    <3>. QED  BY <3>1, <3>2
  <2>3. jt = Level(loop, s, m + 1, jt)
    BY <2>2 DEF Level
  <2>. QED  BY <2>3
<1> HIDE DEF Has
<1> DEFINE Q == {m \in Nat : Has(m)}
<1>3. 0 \in Q /\ \A m \in Nat : m \in Q => m + 1 \in Q
  BY <1>1, <1>2
<1>4. \A m \in Q : Has(m)
  OBVIOUS
<1> HIDE DEF Q
<1>5. n \in Q
  BY <1>3, Ascent
<1>. QED  BY <1>4, <1>5 DEF Has

\* Along the prefixes of s.
LEMMA LevelSteps ==
  ASSUME NEW loop, NEW s, NEW n \in Nat, NEW it, it = Level(loop, s, n, it)
  PROVE  /\ it[1..0] = loop.base
         /\ \A k \in Nat : k < n => it[1..(k + 1)] = Turn(loop, it[1..k], s[k + 1])
<1>1. 1..0 = {} /\ 1..0 \in SUBSET (1..n)
  OBVIOUS
<1>2. it[1..0] = loop.base
  BY <1>1 DEF Level
<1>3. ASSUME NEW k \in Nat, k < n
      PROVE  it[1..(k + 1)] = Turn(loop, it[1..k], s[k + 1])
  <2>1. 1..(k + 1) \in SUBSET (1..n) /\ 1..(k + 1) # {} /\ k + 1 \in 1..(k + 1)
    BY <1>3
  <2>2. Max(1..(k + 1)) = k + 1
    BY <2>1, LastOfInterval
  <2>3. (1..(k + 1)) \ {k + 1} = 1..k
    OBVIOUS
  <2>4. it[1..(k + 1)] =
          Turn(loop, it[(1..(k + 1)) \ {Max(1..(k + 1))}], s[Max(1..(k + 1))])
    BY <2>1 DEF Level
  <2>. QED  BY <2>2, <2>3, <2>4
<1>. QED  BY <1>2, <1>3

SafeguardLoop(metrics, step) ==
  [over |-> "safeguards", metrics |-> metrics, step |-> step,
   base |-> [state |-> "not_applicable", actions |-> <<>>]]
ChangeLoop(last) == [over |-> "changes", last |-> last, base |-> <<>>]

LEMMA SafeguardsAreFolded ==
  ASSUME NEW metrics, NEW step, NEW s, NEW n \in Nat, DOMAIN s = 1..n
  PROVE  \E it : /\ it = Level(SafeguardLoop(metrics, step), s, n, it)
                 /\ ApplyGuardrails(metrics, step, s) = it[1..n]
<1> DEFINE body(it) ==
      [t \in SUBSET (1..n) |->
         IF t = {} THEN [state |-> "not_applicable", actions |-> <<>>]
         ELSE Guard(metrics, step, it[t \ {Max(t)}], s[Max(t)])]
<1>1. ApplyGuardrails(metrics, step, s) = (CHOOSE it : it = body(it))[1..n]
  BY DEF ApplyGuardrails, FoldLeft, MapThenFoldSet
<1>2. \A it : body(it) = Level(SafeguardLoop(metrics, step), s, n, it)
  BY DEF Level, Turn, SafeguardLoop
<1> HIDE DEF body
<1>3. PICK level : level = Level(SafeguardLoop(metrics, step), s, n, level)
  BY LevelExists
<1>4. PICK it : it = (CHOOSE i : i = body(i)) /\ it = body(it)
  BY <1>2, <1>3
<1>. QED  BY <1>1, <1>2, <1>4

LEMMA ChangesAreFolded ==
  ASSUME NEW last, NEW s, NEW n \in Nat, DOMAIN s = 1..n
  PROVE  \E it : /\ it = Level(ChangeLoop(last), s, n, it)
                 /\ ApplyChanges(last, s) = it[1..n]
<1> DEFINE body(it) ==
      [t \in SUBSET (1..n) |->
         IF t = {} THEN <<>> ELSE Change(last, it[t \ {Max(t)}], s[Max(t)])]
<1>1. ApplyChanges(last, s) = (CHOOSE it : it = body(it))[1..n]
  BY DEF ApplyChanges, FoldLeft, MapThenFoldSet
<1>2. \A it : body(it) = Level(ChangeLoop(last), s, n, it)
  BY DEF Level, Turn, ChangeLoop
<1> HIDE DEF body
<1>3. PICK level : level = Level(ChangeLoop(last), s, n, level)
  BY LevelExists
<1>4. PICK it : it = (CHOOSE i : i = body(i)) /\ it = body(it)
  BY <1>2, <1>3
<1>. QED  BY <1>1, <1>2, <1>4

LEMMA AppendedElement ==
  ASSUME NEW S, NEW s \in Seq(S), NEW x \in S
  PROVE  ToSet(Append(s, x)) = ToSet(s) \cup {x}
<1>1. /\ Len(s) \in Nat /\ DOMAIN s = 1..Len(s)
      /\ DOMAIN Append(s, x) = 1..(Len(s) + 1)
      /\ \A i \in 1..Len(s) : Append(s, x)[i] = s[i]
      /\ Append(s, x)[Len(s) + 1] = x
  OBVIOUS
<1>2. 1..(Len(s) + 1) = 1..Len(s) \cup {Len(s) + 1}
  BY <1>1
<1>. QED  BY <1>1, <1>2 DEF ToSet

\* Violated, of the measurements and the step of an outcome.
Fires(metrics, step, guard) ==
  /\ guard.metric \in DOMAIN metrics /\ step >= guard.check
  /\ ~Holds(metrics[guard.metric], guard.operator, guard.threshold)

\* The actions taken after k safeguards are those of the ones that fired.
Taken(metrics, step, s, k, result) ==
  \E state, actions :
    /\ result = [state |-> state, actions |-> actions]
    /\ actions \in Seq(ViolationAction)
    /\ ToSet(actions) = {s[i].action : i \in {j \in 1..k : Fires(metrics, step, s[j])}}

LEMMA OneSafeguard ==
  ASSUME NEW metrics, NEW step \in Int, NEW s, NEW k \in Nat, NEW result,
         s[k + 1] \in Safeguard, Taken(metrics, step, s, k, result)
  PROVE  Taken(metrics, step, s, k + 1, Guard(metrics, step, result, s[k + 1]))
<1>1. PICK state, actions :
        /\ result = [state |-> state, actions |-> actions]
        /\ actions \in Seq(ViolationAction)
        /\ ToSet(actions) = {s[i].action : i \in {j \in 1..k : Fires(metrics, step, s[j])}}
  BY DEF Taken
<1>2. PICK guard : guard = s[k + 1]
  OBVIOUS
<1>3. guard.check \in Nat /\ guard.action \in ViolationAction
  BY <1>2 DEF Safeguard
<1>4. 1..(k + 1) = 1..k \cup {k + 1}
  OBVIOUS
<1>5. CASE Fires(metrics, step, guard)
  <2>1. Guard(metrics, step, result, guard)
          = [state |-> "triggered", actions |-> Append(actions, guard.action)]
    BY <1>1, <1>3, <1>5 DEF Guard, Fires
  <2>2. Append(actions, guard.action) \in Seq(ViolationAction)
    BY <1>1, <1>3
  <2>3. ToSet(Append(actions, guard.action)) = ToSet(actions) \cup {guard.action}
    BY <1>1, <1>3, AppendedElement
  <2>4. {s[i].action : i \in {j \in 1..(k + 1) : Fires(metrics, step, s[j])}}
          = {s[i].action : i \in {j \in 1..k : Fires(metrics, step, s[j])}} \cup {guard.action}
    BY <1>2, <1>4, <1>5
  <2>. QED  BY <1>1, <1>2, <2>1, <2>2, <2>3, <2>4 DEF Taken
<1>6. CASE ~Fires(metrics, step, guard)
  <2>1. PICK new : Guard(metrics, step, result, guard) = [state |-> new, actions |-> actions]
    <3>1. [result EXCEPT !.state = "monitoring"] = [state |-> "monitoring", actions |-> actions]
      BY <1>1
    <3>2. step < guard.check <=> ~(step >= guard.check)
      BY <1>3
    <3>3. CASE guard.metric \notin DOMAIN metrics \/ step < guard.check
      BY <3>1, <3>3 DEF Guard
    <3>4. CASE ~(guard.metric \notin DOMAIN metrics \/ step < guard.check)
      <4>1. Holds(metrics[guard.metric], guard.operator, guard.threshold)
        BY <1>6, <3>2, <3>4 DEF Fires
      <4>2. Guard(metrics, step, result, guard)
              = IF result.state # "triggered" THEN [result EXCEPT !.state = "monitoring"]
                ELSE result
        BY <3>4, <4>1 DEF Guard
      <4>. QED  BY <1>1, <3>1, <4>2
    <3>. QED  BY <3>3, <3>4
  <2>2. {j \in 1..(k + 1) : Fires(metrics, step, s[j])}
          = {j \in 1..k : Fires(metrics, step, s[j])}
    BY <1>2, <1>4, <1>6
  <2>. QED  BY <1>1, <1>2, <2>1, <2>2 DEF Taken
<1>. QED  BY <1>5, <1>6

\* _apply_guardrails takes the actions of the safeguards that are violated.
LEMMA ActionsAreOfViolations ==
  ASSUME NEW metrics, NEW step \in Int, NEW s \in Seq(Safeguard)
  PROVE  LET executed == ApplyGuardrails(metrics, step, s).actions
         IN  /\ executed \in Seq(ViolationAction)
             /\ ToSet(executed)
                  = {g.action : g \in {h \in ToSet(s) : Fires(metrics, step, h)}}
<1> DEFINE n == Len(s)
           loop == SafeguardLoop(metrics, step)
<1>1. n \in Nat /\ DOMAIN s = 1..n /\ \A i \in 1..n : s[i] \in Safeguard
  OBVIOUS
<1> HIDE DEF n
<1>2. PICK it : it = Level(loop, s, n, it) /\ ApplyGuardrails(metrics, step, s) = it[1..n]
  BY <1>1, SafeguardsAreFolded
<1>3. /\ it[1..0] = [state |-> "not_applicable", actions |-> <<>>]
      /\ \A k \in Nat : k < n => it[1..(k + 1)] = Guard(metrics, step, it[1..k], s[k + 1])
  <2>1. \A a, x : Turn(loop, a, x) = Guard(metrics, step, a, x)
    BY DEF Turn, SafeguardLoop
  <2>2. loop.base = [state |-> "not_applicable", actions |-> <<>>]
    BY DEF SafeguardLoop
  <2> HIDE DEF loop
  <2>. QED  BY <1>1, <1>2, <2>1, <2>2, LevelSteps
<1> DEFINE Q == {k \in Nat : k <= n => Taken(metrics, step, s, k, it[1..k])}
<1>4. 0 \in Q
  <2>1. <<>> \in Seq(ViolationAction) /\ ToSet(<<>>) = {}
    BY DEF ToSet
  <2>2. {s[i].action : i \in {j \in 1..0 : Fires(metrics, step, s[j])}} = {}
    OBVIOUS
  <2>3. Taken(metrics, step, s, 0, it[1..0])
    BY <1>3, <2>1, <2>2 DEF Taken
  <2>. QED  BY <2>3
<1>5. ASSUME NEW k \in Nat, k \in Q PROVE k + 1 \in Q
  <2> SUFFICES ASSUME k + 1 <= n PROVE Taken(metrics, step, s, k + 1, it[1..(k + 1)])
    OBVIOUS
  <2>1. k < n /\ k <= n /\ k + 1 \in 1..n
    BY <1>1
  <2>2. Taken(metrics, step, s, k, it[1..k])
    BY <1>5, <2>1
  <2>3. s[k + 1] \in Safeguard
    BY <1>1, <2>1
  <2>. QED  BY <1>3, <2>1, <2>2, <2>3, OneSafeguard
<1>6. Taken(metrics, step, s, n, it[1..n])
  <2>1. \A k \in Q : k <= n => Taken(metrics, step, s, k, it[1..k])
    OBVIOUS
  <2> HIDE DEF Q
  <2>2. n \in Q
    BY <1>1, <1>4, <1>5, Ascent
  <2>3. n <= n
    BY <1>1
  <2>. QED  BY <2>1, <2>2, <2>3
<1>7. PICK state, actions :
        /\ it[1..n] = [state |-> state, actions |-> actions]
        /\ actions \in Seq(ViolationAction)
        /\ ToSet(actions) = {s[i].action : i \in {j \in 1..n : Fires(metrics, step, s[j])}}
  BY <1>6 DEF Taken
<1>8. {s[i].action : i \in {j \in 1..n : Fires(metrics, step, s[j])}}
        = {g.action : g \in {h \in ToSet(s) : Fires(metrics, step, h)}}
  BY <1>1 DEF ToSet
<1>9. ApplyGuardrails(metrics, step, s).actions = actions
  BY <1>2, <1>7
<1>. QED  BY <1>7, <1>8, <1>9

\* What is shown of the expected changes: whatever is said of the action is last.
LEMMA ChangesEndInLast ==
  ASSUME NEW last, NEW s \in Seq(StateChange)
  PROVE  LET changes == ApplyChanges(last, s)
         IN  /\ changes \in Seq(StateChange \cup {last})
             /\ \A i \in DOMAIN changes : changes[i].entity = "action" => changes[i] = last
<1> DEFINE n == Len(s)
           loop == ChangeLoop(last)
           C == StateChange \cup {last}
           Ends(changes) ==
             /\ changes \in Seq(C)
             /\ \A i \in DOMAIN changes : changes[i].entity = "action" => changes[i] = last
<1>1. n \in Nat /\ DOMAIN s = 1..n /\ \A i \in 1..n : s[i] \in StateChange
  OBVIOUS
<1> HIDE DEF n
<1>2. PICK it : it = Level(loop, s, n, it) /\ ApplyChanges(last, s) = it[1..n]
  BY <1>1, ChangesAreFolded
<1>3. /\ it[1..0] = <<>>
      /\ \A k \in Nat : k < n => it[1..(k + 1)] = Change(last, it[1..k], s[k + 1])
  <2>1. \A a, x : Turn(loop, a, x) = Change(last, a, x)
    BY DEF Turn, ChangeLoop
  <2>2. loop.base = <<>>
    BY DEF ChangeLoop
  <2> HIDE DEF loop
  <2>. QED  BY <1>1, <1>2, <2>1, <2>2, LevelSteps
<1> DEFINE Q == {k \in Nat : k <= n => Ends(it[1..k])}
<1>4. 0 \in Q
  <2>1. <<>> \in Seq(C) /\ DOMAIN <<>> = {}
    OBVIOUS
  <2>2. Ends(<<>>)
    BY <2>1
  <2> HIDE DEF Ends
  <2>. QED  BY <1>3, <2>2
<1>5. ASSUME NEW k \in Nat, k \in Q PROVE k + 1 \in Q
  <2> SUFFICES ASSUME k + 1 <= n PROVE Ends(it[1..(k + 1)])
    OBVIOUS
  <2>1. k < n /\ k <= n /\ k + 1 \in 1..n
    BY <1>1
  <2>2. PICK a : a = it[1..k] /\ Ends(a)
    BY <1>5, <2>1
  <2>3. PICK x : x = s[k + 1] /\ x \in StateChange
    BY <1>1, <2>1
  <2>4. it[1..(k + 1)] = Change(last, a, x)
    BY <1>3, <2>1, <2>2, <2>3
  <2>5. CASE x = last
    BY <2>2, <2>4, <2>5 DEF Change
  <2>6. CASE x # last
    <3>1. PICK y : y = IF x.entity = "action" THEN last ELSE x
      OBVIOUS
    <3>2. y \in C /\ (y.entity = "action" => y = last)
      BY <2>3, <3>1
    <3>3. Change(last, a, x) = Append(a, y)
      BY <2>6, <3>1 DEF Change
    <3>4. a \in Seq(C)
      BY <2>2
    <3>5. Ends(Append(a, y))
      <4> HIDE DEF C
      <4>1. /\ Append(a, y) \in Seq(C)
            /\ Len(a) \in Nat /\ Len(Append(a, y)) = Len(a) + 1
            /\ \A i \in 1..Len(a) : Append(a, y)[i] = a[i]
            /\ Append(a, y)[Len(a) + 1] = y
            /\ DOMAIN a = 1..Len(a) /\ DOMAIN Append(a, y) = 1..(Len(a) + 1)
        BY <3>2, <3>4
      <4>. QED  BY <2>2, <3>2, <4>1
    <3>. QED  BY <2>4, <3>3, <3>5
  <2>. QED  BY <2>5, <2>6
<1>6. Ends(it[1..n])
  <2>1. \A k \in Q : k <= n => Ends(it[1..k])
    OBVIOUS
  <2> HIDE DEF Q
  <2>2. n \in Q
    BY <1>1, <1>4, <1>5, Ascent
  <2>3. n <= n
    BY <1>1
  <2> HIDE DEF Ends
  <2>. QED  BY <2>1, <2>2, <2>3
<1>. QED  BY <1>2, <1>6

\* The status of the action of an outcome, from the safeguards that fired.
LEMMA StatusOfViolations ==
  ASSUME NEW o, o # None, NEW fired,
         o.executed \in Seq(ViolationAction), ToSet(o.executed) = {g.action : g \in fired}
  PROVE  ActionStatus(o) =
           IF fired = {} THEN "COMPLETED"
           ELSE IF \E g \in fired : g.action = "rollback" THEN "CANCELLED" ELSE "BLOCKED"
<1>1. PICK executed : executed = o.executed
  OBVIOUS
<1>2. /\ Len(executed) \in Nat /\ DOMAIN executed = 1..Len(executed)
      /\ executed = <<>> <=> Len(executed) = 0
  BY <1>1
<1>3. Contains(executed, "rollback") <=> "rollback" \in ToSet(executed)
  BY <1>2 DEF Contains, ToSet
<1>4. executed = <<>> <=> ToSet(executed) = {}
  <2>1. executed = <<>> => ToSet(executed) = {}
    BY DEF ToSet
  <2>2. executed # <<>> => executed[1] \in ToSet(executed)
    BY <1>2 DEF ToSet
  <2>. QED  BY <2>1, <2>2
<1>5. ToSet(executed) = {g.action : g \in fired}
  BY <1>1
<1>6. /\ "rollback" \in ToSet(executed) <=> \E g \in fired : g.action = "rollback"
      /\ ToSet(executed) = {} <=> fired = {}
  BY <1>5
<1>. QED  BY <1>1, <1>3, <1>4, <1>6 DEF ActionStatus

\* What is read of an outcome.
LEMMA OutcomeFields ==
  ASSUME NEW d, NEW from, NEW target, NEW o, o = OutcomeOf(d, from, target)
  PROVE  /\ o.decision = d /\ o.step = target
         /\ o.executed = ApplyGuardrails(o.metrics, target, d.safeguards).actions
  BY DEF OutcomeOf

\* Decisions are those of a Chair, and an outcome is that of its decision.
Sound(d) == d.safeguards \in Seq(Safeguard) /\ d.option \in Option \cup {None}

DecidedInv ==
  /\ run.status = "COMPLETED" => run.execution \in Executions
  /\ decision # None => Sound(decision)
  /\ outcome # None =>
       /\ outcome.step \in Nat
       /\ \E from : outcome = OutcomeOf(outcome.decision, from, outcome.step)

LEMMA CoreIsSound ==
  ASSUME NEW packet, PacketTyped(packet), NEW allowed
  PROVE  Sound(CoreDecision(packet, allowed))
<1>1. PICK d : d = ChairDecision(packet, {}, allowed)
  OBVIOUS
<1>2. PICK type : /\ d.option = IF type \in Executing THEN Preferred(packet) ELSE None
                  /\ d.safeguards = IF type \in Conditional THEN <<PowerStop(packet)>> ELSE <<>>
  BY <1>1 DEF ChairDecision
<1>3. /\ CoreDecision(packet, allowed).option = d.option
      /\ CoreDecision(packet, allowed).safeguards = d.safeguards
  BY <1>1 DEF CoreDecision, ChairDecision
<1>4. PICK guard : guard = PowerStop(packet)
  OBVIOUS
<1>5. guard.check \in Nat /\ guard.expires \in Nat
  BY <1>4, PowerStopIsAhead
<1>6. guard = [metric |-> "DDR_BANDWIDTH", operator |-> "lte", threshold |-> 2,
               check |-> guard.check, expires |-> guard.expires, action |-> "rollback"]
  BY <1>4 DEF PowerStop
<1>7. guard.metric \in Metric
  BY <1>4, PowerStopIsAhead
<1>8. guard \in Safeguard
  BY <1>5, <1>6, <1>7 DEF Safeguard, ViolationAction
<1>9. d.safeguards \in Seq(Safeguard)
  BY <1>2, <1>4, <1>8
<1>10. d.option \in Option \cup {None}
  BY <1>2, OnePreferred
<1>. QED  BY <1>3, <1>9, <1>10 DEF Sound

LEMMA DecidedStep ==
  ASSUME HistoryInv, DecidedInv, [TwinNext]_twinVars
  PROVE  DecidedInv'
<1>1. StoredStep \in Nat
  BY StepsAreNumbers DEF StoredStep, DecidedInv
<1>2. CASE GrowRecord \/ Evaluate \/ UNCHANGED twinVars
  BY <1>2 DEF GrowRecord, Evaluate, twinVars, DecidedInv
<1>3. CASE StartReview \/ EndReview
  <2>1. decision' = decision /\ outcome' = outcome
    BY <1>3 DEF StartReview, EndReview
  <2>2. run'.status = "COMPLETED" => run'.execution \in Executions
    BY <1>3 DEF StartReview, EndReview
  <2>. QED  BY <2>1, <2>2 DEF DecidedInv
<1>4. CASE Decide
  <2>1. /\ run.execution \in Executions /\ run' = run /\ outcome' = outcome
        /\ decision' = IF run.execution.chair # None THEN run.execution.chair
                       ELSE CoreDecision(Packet(StoredStep), AllowedTypes)
    BY <1>4 DEF Decide, DecidedInv
  <2>2. run.execution.chair # None => Sound(run.execution.chair)
    BY <2>1, TwinConstantsOK DEF Sound
  <2>3. Sound(CoreDecision(Packet(StoredStep), AllowedTypes))
    BY <1>1, PacketsAreTyped, CoreIsSound
  <2>4. Sound(decision')
    BY <2>1, <2>2, <2>3
  <2>. QED  BY <2>1, <2>4 DEF DecidedInv
<1>5. CASE Advance
  <2>1. PICK target \in StoredStep + 1..LastStep :
          outcome' = OutcomeOf(decision, StoredStep, target)
    BY <1>5 DEF Advance
  <2>2. run' = run /\ decision' = decision
    BY <1>5 DEF Advance
  <2>3. target \in Nat
    BY <1>1, StepsAreNumbers
  <2>4. outcome'.decision = decision /\ outcome'.step = target
    BY <2>1, OutcomeFields
  <2>5. PICK from : from = StoredStep
    OBVIOUS
  <2>6. outcome' = OutcomeOf(outcome'.decision, from, outcome'.step)
    BY <2>1, <2>4, <2>5
  <2>. QED  BY <2>2, <2>3, <2>4, <2>6 DEF DecidedInv
<1>. QED  BY <1>2, <1>3, <1>4, <1>5 DEF TwinNext

\* What the present screen shows of a decision and its outcome.
LEMMA PresentScreen ==
  ASSUME decision # None, DecidedInv
  PROVE  /\ Workspace(StoredStep).control.status = ActionStatus(outcome)
         /\ \E expected \in [Option -> Seq(StateChange)] :
              Workspace(StoredStep).observed = ObservedChanges(expected, decision, outcome)
<1> DEFINE modelled == TemplateStep # None /\ StoredStep >= TemplateStep
<1>1. PICK expected :
        expected = IF modelled THEN Transitions ELSE [p \in Option |-> <<>>]
  OBVIOUS
<1>2. expected \in [Option -> Seq(StateChange)]
  BY <1>1, TwinConstantsOK
<1>3. Workspace(StoredStep).observed = ObservedChanges(expected, decision, outcome)
  BY <1>1 DEF Workspace
<1>4. Workspace(StoredStep).control.status = ActionStatus(outcome)
  BY DEF Workspace
<1>. QED  BY <1>2, <1>3, <1>4

\* Whatever the safeguards of the Chair, the measurements of the hidden path and
\* the changes expected of the option: the action of a decision is shown as
\* cancelled or blocked exactly when one of its guardrails was due and violated.
THEOREM ViolationsHold == TwinSpec => []ViolationsStopTheAction
<1>1. TwinInit => HistoryInv /\ DecidedInv
  BY HistoryStart, TwinConstantsOK DEF TwinInit, DecidedInv
<1>2. HistoryInv /\ DecidedInv /\ [TwinNext]_twinVars => (HistoryInv /\ DecidedInv)'
  BY HistoryStep, DecidedStep
<1>3. DecidedInv => ViolationsStopTheAction
  <2> SUFFICES ASSUME DecidedInv, decision # None, outcome # None, outcome.decision = decision
               PROVE
                 LET w == Workspace(StoredStep)
                     violated == {g \in ToSet(decision.safeguards) : Violated(outcome, g)}
                     status == IF violated = {} THEN "COMPLETED"
                               ELSE IF \E g \in violated : g.action = "rollback"
                               THEN "CANCELLED" ELSE "BLOCKED"
                 IN  /\ w.control.status = status
                     /\ \A i \in DOMAIN w.observed :
                          w.observed[i].entity = "action" => w.observed[i].to = status
    BY DEF ViolationsStopTheAction
  <2>1. PICK d, o : d = decision /\ o = outcome
    OBVIOUS
  <2>2. Sound(d) /\ o # None /\ d # None /\ o.step \in Nat /\ o.step \in Int
    BY <2>1 DEF DecidedInv
  <2>3. PICK from : o = OutcomeOf(d, from, o.step)
    BY <2>1 DEF DecidedInv
  <2>4. o.executed = ApplyGuardrails(o.metrics, o.step, d.safeguards).actions
    BY <2>3, OutcomeFields
  <2> DEFINE violated == {g \in ToSet(d.safeguards) : Violated(o, g)}
             status == IF violated = {} THEN "COMPLETED"
                       ELSE IF \E g \in violated : g.action = "rollback"
                       THEN "CANCELLED" ELSE "BLOCKED"
  <2>5. violated = {g \in ToSet(d.safeguards) : Fires(o.metrics, o.step, g)}
    BY DEF Violated, Fires
  <2>6. /\ o.executed \in Seq(ViolationAction)
        /\ ToSet(o.executed) = {g.action : g \in violated}
    <3>1. PICK metrics, step, s : metrics = o.metrics /\ step = o.step /\ s = d.safeguards
      OBVIOUS
    <3>2. step \in Int /\ s \in Seq(Safeguard)
      BY <2>2, <3>1 DEF Sound
    <3>3. /\ ApplyGuardrails(metrics, step, s).actions \in Seq(ViolationAction)
          /\ ToSet(ApplyGuardrails(metrics, step, s).actions)
               = {g.action : g \in {h \in ToSet(s) : Fires(metrics, step, h)}}
      BY <3>2, ActionsAreOfViolations
    <3>. QED  BY <2>4, <2>5, <3>1, <3>3
  <2> HIDE DEF violated
  <2>7. ActionStatus(o) = status
    BY <2>2, <2>6, StatusOfViolations
  <2>8. Workspace(StoredStep).control.status = status
    BY <2>1, <2>7, PresentScreen
  <2>9. PICK expected \in [Option -> Seq(StateChange)] :
          Workspace(StoredStep).observed = ObservedChanges(expected, d, o)
    BY <2>1, PresentScreen
  <2> HIDE DEF status
  <2>10. PICK last : last = [entity |-> "action", to |-> status]
    OBVIOUS
  <2>11. PICK planned : planned = IF d.option = None THEN <<>> ELSE expected[d.option]
    OBVIOUS
  <2>12. planned \in Seq(StateChange)
    BY <2>2, <2>9, <2>11 DEF Sound
  <2>13. PICK changes : changes = ApplyChanges(last, planned)
    OBVIOUS
  <2>14. /\ changes \in Seq(StateChange \cup {last})
         /\ \A i \in DOMAIN changes : changes[i].entity = "action" => changes[i] = last
    BY <2>12, <2>13, ChangesEndInLast
  <2>15. ObservedChanges(expected, d, o)
           = IF \E i \in DOMAIN changes : changes[i].entity = "action" THEN changes
             ELSE Append(changes, last)
    BY <2>2, <2>7, <2>10, <2>11, <2>13 DEF ObservedChanges
  <2>16. ASSUME NEW i \in DOMAIN Append(changes, last),
                Append(changes, last)[i].entity = "action"
         PROVE  Append(changes, last)[i] = last
    <3>1. PICK C : C = StateChange \cup {last}
      OBVIOUS
    <3>2. changes \in Seq(C) /\ last \in C
      BY <2>14, <3>1
    <3>3. /\ Len(changes) \in Nat /\ DOMAIN changes = 1..Len(changes)
          /\ DOMAIN Append(changes, last) = 1..(Len(changes) + 1)
          /\ \A j \in 1..Len(changes) : Append(changes, last)[j] = changes[j]
          /\ Append(changes, last)[Len(changes) + 1] = last
      BY <3>2
    <3>. QED  BY <2>14, <2>16, <3>3
  <2>17. \A i \in DOMAIN ObservedChanges(expected, d, o) :
           ObservedChanges(expected, d, o)[i].entity = "action"
             => ObservedChanges(expected, d, o)[i] = last
    BY <2>14, <2>15, <2>16
  <2>18. last.to = status
    BY <2>10
  <2>. QED  BY <2>1, <2>8, <2>9, <2>17, <2>18 DEF status, violated
<1>. QED  BY <1>1, <1>2, <1>3, PTL DEF TwinSpec
=============================================================================
