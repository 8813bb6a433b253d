---------------------------- MODULE ProjectProofs ----------------------------
(***************************************************************************)
(* What holds of ProjectSituation for every project:                       *)
(*   1. the record a validator has accepted stays one it accepts;          *)
(*   2. a risk is shown with its sources at every step it is shown at, but *)
(*      for two kinds the validators let come later;                       *)
(*   3. an earlier step keeps what it shows of its own time, and the rest  *)
(*      changes only with the present it is read from.                     *)
(***************************************************************************)
EXTENDS ProjectSituation, EventChainProofs

(* 1. The record *)

\* What the validators establish when a version of the project is loaded, and
\* the ends of its log, which they give it by accepting one event at a time.
ProjectInv ==
  /\ currentStep \in Nat
  /\ DOMAIN now = Entity /\ \A e \in Entity : now[e] \in Values[e]
  /\ LogOK(events) /\ HasEnds(events) /\ \A v \in events : v.id \in EventId
  /\ record \subseteq Object /\ \A x \in record : since[x] \in Nat
  /\ RecordOK(currentStep, now, events, since, record)

LEMMA ProjectStart == Init => ProjectInv
<1> SUFFICES ASSUME Init PROVE ProjectInv
  OBVIOUS
<1>1. /\ DOMAIN now = Entity /\ \A e \in Entity : now[e] \in Values[e]
      /\ LogOK(events) /\ HasEnds(events) /\ \A v \in events : v.id \in EventId
  BY ProjectConstantsOK, EmptyLog DEF Init
<1>2. record \subseteq Object /\ \A x \in record : since[x] \in Nat
  BY ProjectConstantsOK DEF Init
<1>3. currentStep \in Nat /\ RecordOK(currentStep, now, events, since, record)
  BY DEF Init
<1>. QED  BY <1>1, <1>2, <1>3 DEF ProjectInv

\* An event the validators accept is new, and it changes the state it starts from.
Recorded(v) ==
  /\ v.id \in EventId /\ v.id \in Nat /\ v.observed \in Nat
  /\ v.id \notin {u.id : u \in events} /\ v \notin events
  /\ events' = events \cup {v}
  /\ \A e \in Entity :
       IF e \in DOMAIN v.changes
       THEN /\ v.changes[e].before = now[e] /\ v.changes[e].after = now'[e]
            /\ now[e] # now'[e] /\ now'[e] \in Values[e]
       ELSE now[e] = now'[e]

LEMMA ObserveRecords ==
  ASSUME ProjectInv, Observe
  PROVE  /\ \E v : Recorded(v)
         /\ DOMAIN now' = Entity
         /\ RecordOK(currentStep, now', events', since, record)
         /\ UNCHANGED <<currentStep, since, record>>
<1>1. PICK id \in EventId \ {v.id : v \in events}, s \in 0..currentStep, x \in Entity :
        \E before \in {now[x]}, after \in Values[x] :
          LET v == [id |-> id, effective |-> IF s = 0 THEN 0 ELSE s - 1, observed |-> s,
                    changes |-> [y \in {x} |-> [before |-> before, after |-> after]]]
          IN  /\ x \in Object => x \in record
              /\ events' = events \cup {v}
              /\ now' = [now EXCEPT ![x] = after]
              /\ RecordOK(currentStep, now', events', since, record)
              /\ UNCHANGED <<currentStep, since, record>>
  BY DEF Observe
<1>2. PICK after \in Values[x] :
        LET v == [id |-> id, effective |-> IF s = 0 THEN 0 ELSE s - 1, observed |-> s,
                  changes |-> [y \in {x} |-> [before |-> now[x], after |-> after]]]
        IN  /\ events' = events \cup {v}
            /\ now' = [now EXCEPT ![x] = after]
            /\ RecordOK(currentStep, now', events', since, record)
            /\ UNCHANGED <<currentStep, since, record>>
  BY <1>1
<1>3. PICK v : v = [id |-> id, effective |-> IF s = 0 THEN 0 ELSE s - 1, observed |-> s,
                    changes |-> [y \in {x} |-> [before |-> now[x], after |-> after]]]
  OBVIOUS
<1>4. /\ events' = events \cup {v}
      /\ now' = [now EXCEPT ![x] = after]
      /\ RecordOK(currentStep, now', events', since, record)
      /\ UNCHANGED <<currentStep, since, record>>
  BY <1>2, <1>3
<1>5. v.id \in EventId /\ v.id \in Nat /\ v.observed \in Nat
  <2>1. v.id = id /\ v.observed = s /\ currentStep \in Nat
    BY <1>3 DEF ProjectInv
  <2>2. EventId \subseteq Nat
    BY ProjectConstantsOK
  <2>. QED  BY <2>1, <2>2
<1>6. v.id \notin {u.id : u \in events}
  BY <1>3
<1>7. DOMAIN v.changes = {x} /\ v.changes[x].before = now[x] /\ v.changes[x].after = after
  BY <1>3
<1>8. DOMAIN now = Entity
  BY DEF ProjectInv
<1>9. EventOK(v)
  BY <1>4 DEF RecordOK, EventsOK
<1>10. now[x] # after
  BY <1>7, <1>9 DEF EventOK
<1>11. ASSUME NEW e \in Entity
       PROVE  IF e \in DOMAIN v.changes
              THEN /\ v.changes[e].before = now[e] /\ v.changes[e].after = now'[e]
                   /\ now[e] # now'[e] /\ now'[e] \in Values[e]
              ELSE now[e] = now'[e]
  <2>1. CASE e = x
    BY <1>4, <1>7, <1>8, <1>10, <2>1
  <2>2. CASE e # x
    BY <1>4, <1>7, <1>8, <2>2
  <2>. QED  BY <2>1, <2>2
<1>12. Recorded(v)
  BY <1>4, <1>5, <1>6, <1>11 DEF Recorded
<1>13. DOMAIN now' = Entity
  BY <1>4, <1>8
<1>. QED  BY <1>4, <1>12, <1>13

\* An object is introduced with the sources of other projects it needs.
LEMMA IntroducedLater ==
  ASSUME ProjectInv, Introduce
  PROVE  /\ record' \subseteq Object /\ record \subseteq record'
         /\ \A y \in record' : since'[y] \in Nat
         /\ \A y \in record : since'[y] = since[y]
         /\ RecordOK(currentStep, now, events, since', record')
         /\ UNCHANGED <<currentStep, now, events>>
<1>1. PICK x \in Object \ record, s \in 0..currentStep :
        LET new == {x} \cup (IF x \in Risk THEN {c \in RestsOn[x] \cap Cross : c \notin record} ELSE {})
        IN  \E t \in 0..currentStep :
              /\ since' = [y \in Object |-> IF y = x THEN s ELSE IF y \in new THEN t ELSE since[y]]
              /\ record' = record \cup new
              /\ RecordOK(currentStep, now, events, since', record')
              /\ UNCHANGED <<currentStep, now, events>>
  BY DEF Introduce
<1>2. PICK new : new = {x} \cup (IF x \in Risk THEN {c \in RestsOn[x] \cap Cross : c \notin record}
                                 ELSE {})
  OBVIOUS
<1>3. PICK t \in 0..currentStep :
        /\ since' = [y \in Object |-> IF y = x THEN s ELSE IF y \in new THEN t ELSE since[y]]
        /\ record' = record \cup new
        /\ RecordOK(currentStep, now, events, since', record')
        /\ UNCHANGED <<currentStep, now, events>>
  BY <1>1, <1>2
<1>4. new \subseteq Object /\ new \cap record = {}
  BY <1>2 DEF Object
<1>5. currentStep \in Nat /\ record \subseteq Object /\ \A y \in record : since[y] \in Nat
  BY DEF ProjectInv
<1>6. s \in Nat /\ t \in Nat
  BY <1>5
<1>7. \A y \in record : since'[y] = since[y]
  BY <1>3, <1>4, <1>5
<1>8. \A y \in new : since'[y] \in Nat
  BY <1>3, <1>4, <1>6
<1>. QED  BY <1>3, <1>4, <1>5, <1>7, <1>8

LEMMA RecordOutlastsStep ==
  ASSUME ProjectInv, PassStep
  PROVE  RecordOK(currentStep', now, events, since, record)
<1>1. currentStep \in Nat /\ currentStep' = currentStep + 1
  BY DEF PassStep, ProjectInv
<1>2. \A x \in record : since[x] <= currentStep'
  BY <1>1 DEF ProjectInv, RecordOK
<1>3. ASSUME NEW e \in record \cap Evidence, now[e].available # None
      PROVE  now[e].available <= currentStep'
  <2>1. e \in Entity /\ now[e] \in Values[e]
    BY DEF Entity, ProjectInv
  <2>2. now[e].available \in Nat
    BY <1>3, <2>1, ProjectConstantsOK
  <2>3. now[e].available <= currentStep
    BY <1>3 DEF ProjectInv, RecordOK
  <2>. QED  BY <1>1, <2>2, <2>3
<1>4. \A v \in events : v.observed <= currentStep'
  <2>1. \A v \in events : v.observed \in Nat /\ v.observed <= currentStep
    BY DEF ProjectInv, LogOK, RecordOK, EventsOK
  <2>. QED  BY <1>1, <2>1
<1>5. EventsOK(currentStep', now, events, record)
  BY <1>4 DEF ProjectInv, RecordOK, EventsOK
<1>. QED  BY <1>2, <1>3, <1>5 DEF ProjectInv, RecordOK

LEMMA ProjectStep == ProjectInv /\ [Next]_vars => ProjectInv'
<1> SUFFICES ASSUME ProjectInv, [Next]_vars PROVE ProjectInv'
  OBVIOUS
<1>1. CASE Observe
  <2>1. PICK v : Recorded(v)
    BY <1>1, ObserveRecords
  <2>2. /\ DOMAIN now' = Entity /\ RecordOK(currentStep, now', events', since, record)
        /\ UNCHANGED <<currentStep, since, record>>
    BY <1>1, ObserveRecords
  <2>3. LogOK(events') /\ HasEnds(events') /\ \A u \in events' : u.id \in EventId
    BY <2>1, LogGrows DEF Recorded, ProjectInv
  <2>4. ASSUME NEW e \in Entity PROVE now'[e] \in Values[e]
    BY <2>1 DEF Recorded, ProjectInv
  <2>. QED  BY <2>2, <2>3, <2>4 DEF ProjectInv
<1>2. CASE Introduce
  BY <1>2, IntroducedLater DEF ProjectInv
<1>3. CASE PassStep
  <2>1. RecordOK(currentStep', now, events, since, record)
    BY <1>3, RecordOutlastsStep
  <2>2. currentStep' \in Nat /\ UNCHANGED <<now, events, since, record>>
    BY <1>3 DEF PassStep, ProjectInv
  <2>. QED  BY <2>1, <2>2 DEF ProjectInv
<1>4. CASE UNCHANGED vars
  BY <1>4 DEF vars, ProjectInv
<1>. QED  BY <1>1, <1>2, <1>3, <1>4 DEF Next

\* Every version of a project passes its validators again.
THEOREM ProjectHolds == Spec => []ProjectInv
<1>. QED  BY ProjectStart, ProjectStep, PTL DEF Spec

-----------------------------------------------------------------------------
(* 2. The sources of a risk *)

\* What is in the record at a step is there with what it was identified from,
\* but for two kinds of source.
LEMMA SourcesAreKnown ==
  ASSUME ProjectInv, NEW s \in Nat, NEW r \in Known(s) \cap Risk
  PROVE  /\ RestsOn[r] \cap Issue \subseteq Known(s)
         /\ \A i \in RestsOn[r] \cap EventId : \E v \in events : v.id = i /\ v.observed <= s
         /\ \A e \in RestsOn[r] \cap Evidence :
              e \notin Known(s) => since[e] > s /\ since[e] > now[e].available
         /\ \A c \in RestsOn[r] \cap Cross :
              c \notin Known(s) => since[c] > s /\ r \notin Targets[c]
<1>1. r \in record /\ since[r] <= s /\ \A x \in record : since[x] \in Nat
  BY DEF Known, ProjectInv
<1>2. SourcesOK(now, events, since, record)
  BY DEF ProjectInv, RecordOK
<1>3. ASSUME NEW i \in RestsOn[r] \cap Issue PROVE i \in Known(s)
  <2>1. i \in record /\ since[r] >= since[i]
    BY <1>1, <1>2 DEF SourcesOK
  <2>. QED  BY <1>1, <2>1 DEF Known
<1>4. ASSUME NEW i \in RestsOn[r] \cap EventId
      PROVE  \E v \in events : v.id = i /\ v.observed <= s
  <2>1. PICK v \in events : v.id = i /\ since[r] >= v.observed
    BY <1>1, <1>2 DEF SourcesOK
  <2>2. v.observed \in Nat
    BY DEF ProjectInv, LogOK
  <2>. QED  BY <1>1, <2>1, <2>2
<1>5. ASSUME NEW e \in RestsOn[r] \cap Evidence, e \notin Known(s)
      PROVE  since[e] > s /\ since[e] > now[e].available
  <2>1. e \in record /\ Grounded(r, e, now, since)
    BY <1>1, <1>2 DEF SourcesOK
  <2>2. since[e] > s
    BY <1>1, <1>5, <2>1 DEF Known
  <2>3. now[e].available # None /\ since[r] >= now[e].available
    BY <2>1 DEF Grounded
  <2>4. now[e].available \in Nat
    <3>1. now[e] \in Values[e]
      BY DEF ProjectInv, Entity
    <3>. QED  BY <2>3, <3>1, ProjectConstantsOK
  <2>. QED  BY <1>1, <2>1, <2>2, <2>3, <2>4
<1>6. ASSUME NEW c \in RestsOn[r] \cap Cross, c \notin Known(s)
      PROVE  since[c] > s /\ r \notin Targets[c]
  <2>1. c \in record
    BY <1>1, <1>2 DEF SourcesOK
  <2>2. since[c] > s
    BY <1>1, <1>6, <2>1 DEF Known
  <2>3. r \in Targets[c] => since[r] >= since[c]
    BY <1>2, <2>1 DEF SourcesOK
  <2>. QED  BY <1>1, <2>1, <2>2, <2>3
<1>. QED  BY <1>3, <1>4, <1>5, <1>6

LEMMA AlertsAreShown ==
  ASSUME NEW h
  PROVE  Attention(h)[2] \subseteq DOMAIN h.state
BY DEF Attention, With, Visible

LEMMA SourcesAreShown ==
  ASSUME ProjectInv, NEW s \in Nat, NEW r \in Visible(History(s), Risk),
         NEW x \in RestsOn[r], x \notin SourcesShown(RiskTrace(History(s), r))
  PROVE  /\ x \in Evidence \cup Cross /\ since[x] > s
         /\ x \in Evidence => since[x] > now[x].available
         /\ x \in Cross => r \notin Targets[x]
<1>1. PICK h : h = History(s)
  OBVIOUS
<1>2. /\ DOMAIN h.state = (Work \cup Milestone) \cup (Known(s) \cap Entity)
      /\ h.events = {v.id : v \in {u \in events : u.observed <= s}}
      /\ h.cross = Known(s) \cap Cross
  BY <1>1 DEF History
<1>3. PICK trace : trace = RiskTrace(h, r)
  OBVIOUS
<1>4. /\ DOMAIN trace.issues = RestsOn[r] \cap Visible(h, Issue)
      /\ trace.events = RestsOn[r] \cap h.events
      /\ DOMAIN trace.evidence = RestsOn[r] \cap Visible(h, Evidence)
      /\ trace.cross = RestsOn[r] \cap h.cross
  BY <1>3 DEF RiskTrace
<1>5. r \in Risk /\ r \in Known(s)
  <2>1. r \in Risk /\ r \in DOMAIN h.state
    BY <1>1 DEF Visible
  <2>. QED  BY <1>2, <2>1, ProjectConstantsOK
<1>6. x \notin SourcesShown(trace)
  BY <1>1, <1>3
<1>7. /\ RestsOn[r] \cap Issue \subseteq Known(s)
      /\ \A i \in RestsOn[r] \cap EventId : \E v \in events : v.id = i /\ v.observed <= s
      /\ \A e \in RestsOn[r] \cap Evidence :
           e \notin Known(s) => since[e] > s /\ since[e] > now[e].available
      /\ \A c \in RestsOn[r] \cap Cross :
           c \notin Known(s) => since[c] > s /\ r \notin Targets[c]
  BY <1>5, SourcesAreKnown
<1>8. x \in Issue \cup EventId \cup Evidence \cup Cross
  BY <1>5, ProjectConstantsOK DEF ProvenanceOK
<1>9. x \notin Issue
  <2>1. ASSUME x \in Issue PROVE x \in DOMAIN trace.issues
    BY <1>2, <1>4, <1>7, <2>1 DEF Visible, Entity
  <2>. QED  BY <1>6, <2>1 DEF SourcesShown
<1>10. x \notin EventId
  <2>1. ASSUME x \in EventId PROVE x \in trace.events
    BY <1>2, <1>4, <1>7, <2>1
  <2>. QED  BY <1>6, <2>1 DEF SourcesShown
<1>11. x \in Evidence => x \notin Known(s)
  <2>1. ASSUME x \in Evidence, x \in Known(s) PROVE x \in DOMAIN trace.evidence
    BY <1>2, <1>4, <2>1 DEF Visible, Entity
  <2>. QED  BY <1>6, <2>1 DEF SourcesShown
<1>12. x \in Cross => x \notin Known(s)
  <2>1. ASSUME x \in Cross, x \in Known(s) PROVE x \in trace.cross
    BY <1>2, <1>4, <2>1
  <2>. QED  BY <1>6, <2>1 DEF SourcesShown
<1>13. x \in Evidence => since[x] > s /\ since[x] > now[x].available
  BY <1>7, <1>11
<1>14. x \in Cross => since[x] > s /\ r \notin Targets[x]
  BY <1>7, <1>12
<1>. QED  BY <1>8, <1>9, <1>10, <1>13, <1>14

\* At every step a risk is shown at, its detail shows each source its summary
\* names, save evidence that was asked for only after it was there, and lessons
\* that do not name the risk as their target: those may come after the step.
THEOREM RisksShow == Spec => []RisksShowTheirSources
<1>1. ProjectInv => RisksShowTheirSources
  <2> SUFFICES ASSUME ProjectInv, NEW s \in 0..currentStep
               PROVE  LET h == History(s)
                      IN  /\ Attention(h)[2] \subseteq DOMAIN h.state
                          /\ \A r \in Visible(h, Risk) :
                               LET detail == RiskDetail(h, r)
                               IN  \A x \in detail.risk.sources \ SourcesShown(detail.trace) :
                                     /\ x \in Evidence \cup Cross /\ since[x] > s
                                     /\ x \in Evidence => since[x] > now[x].available
                                     /\ x \in Cross => r \notin Targets[x]
    BY DEF RisksShowTheirSources
  <2>1. s \in Nat
    BY DEF ProjectInv
  <2>2. Attention(History(s))[2] \subseteq DOMAIN History(s).state
    BY AlertsAreShown
  <2>3. \A h, r : /\ RiskDetail(h, r).risk.sources = RestsOn[r]
                  /\ RiskDetail(h, r).trace = RiskTrace(h, r)
    BY DEF RiskDetail, RiskSummary
  <2>4. ASSUME NEW r \in Visible(History(s), Risk),
               NEW x \in RestsOn[r] \ SourcesShown(RiskTrace(History(s), r))
        PROVE  /\ x \in Evidence \cup Cross /\ since[x] > s
               /\ x \in Evidence => since[x] > now[x].available
               /\ x \in Cross => r \notin Targets[x]
    BY <2>1, SourcesAreShown
  <2>. QED  BY <2>2, <2>3, <2>4
<1>. QED  BY <1>1, ProjectHolds, PTL

-----------------------------------------------------------------------------
(* 3. The past *)

\* A step that tells nothing of s leaves the states of s as they were.
LEMMA StatesOfThePastStay ==
  ASSUME ProjectInv, ProjectInv', [Next]_vars, NEW s \in Nat, TellsNothingOf(s),
         NEW e \in Entity
  PROVE  TakenBack(events', e, s, now'[e]) = TakenBack(events, e, s, now[e])
<1>1. CASE Observe
  <2>1. PICK v : Recorded(v)
    BY <1>1, ObserveRecords
  <2>2. v.observed > s
    BY <2>1 DEF Recorded, TellsNothingOf
  <2>3. LeadsTo(events, e, now[e]) /\ LogOK(events) /\ HasEnds(events)
    BY DEF ProjectInv, RecordOK, EventsOK
  <2>4. LeadsTo(events', e, now'[e])
    BY DEF ProjectInv, RecordOK, EventsOK
  <2>. QED  BY <2>1, <2>2, <2>3, <2>4, PastStatesStay DEF Recorded
<1>2. CASE UNCHANGED <<now, events>>
  BY <1>2
<1>. QED  BY <1>1, <1>2 DEF Next, Introduce, PassStep, vars

LEMMA EventsOfThePastStay ==
  ASSUME ProjectInv, [Next]_vars, NEW s \in Nat, TellsNothingOf(s)
  PROVE  {v \in events' : v.observed <= s} = {v \in events : v.observed <= s}
<1>1. CASE Observe
  <2>1. PICK v : Recorded(v)
    BY <1>1, ObserveRecords
  <2>2. v.observed > s /\ v.observed \in Nat
    BY <2>1 DEF Recorded, TellsNothingOf
  <2>. QED  BY <2>1, <2>2 DEF Recorded
<1>2. CASE UNCHANGED <<now, events>>
  BY <1>2
<1>. QED  BY <1>1, <1>2 DEF Next, Introduce, PassStep, vars

LEMMA ObjectsOfThePastStay ==
  ASSUME ProjectInv, [Next]_vars, NEW s \in Nat, TellsNothingOf(s)
  PROVE  Known(s)' = Known(s)
<1>1. CASE Introduce
  <2>1. /\ record' \subseteq Object /\ record \subseteq record'
        /\ \A y \in record' : since'[y] \in Nat
        /\ \A y \in record : since'[y] = since[y]
    BY <1>1, IntroducedLater
  <2>2. \A y \in record' \ record : ~(since'[y] <= s)
    BY <2>1 DEF TellsNothingOf
  <2>. QED  BY <2>1, <2>2 DEF Known
<1>2. CASE UNCHANGED <<since, record>>
  BY <1>2 DEF Known
<1>. QED  BY <1>1, <1>2 DEF Next, Observe, PassStep, vars

\* Histories that agree, but for the evidence received so far.
Alike(g, h) ==
  /\ g.state = h.state /\ g.events = h.events
  /\ g.claims = h.claims /\ g.cases = h.cases /\ g.cross = h.cross

LEMMA HistoryOfThePastStays ==
  ASSUME ProjectInv, ProjectInv', [Next]_vars, NEW s \in Nat, TellsNothingOf(s)
  PROVE  Alike(History(s)', History(s))
<1>1. \A e \in Entity : TakenBack(events', e, s, now'[e]) = TakenBack(events, e, s, now[e])
  BY StatesOfThePastStay
<1>2. {v \in events' : v.observed <= s} = {v \in events : v.observed <= s}
  BY EventsOfThePastStay
<1>3. Known(s)' = Known(s)
  BY ObjectsOfThePastStay
<1>4. /\ History(s)'.events = History(s).events
      /\ History(s)'.claims = History(s).claims
      /\ History(s)'.cases = History(s).cases
      /\ History(s)'.cross = History(s).cross
  BY <1>2, <1>3 DEF History
<1>5. History(s)'.state = History(s).state
  <2>1. [e \in Entity |-> TakenBack(events, e, s, now[e])]' =
          [e \in Entity |-> TakenBack(events, e, s, now[e])]
    BY <1>1
  <2>. QED  BY <1>3, <2>1 DEF History
<1>. QED  BY <1>4, <1>5 DEF Alike

LEMMA AlikeIsShownAlike ==
  ASSUME NEW g, NEW h, Alike(g, h)
  PROVE  /\ Attention(g) = Attention(h)
         /\ \A kind : Visible(g, kind) = Visible(h, kind)
         /\ \A t \in Track : TrackSituation(g, t) = TrackSituation(h, t)
         /\ \A r : RiskTrace(g, r) = RiskTrace(h, r)
<1>1. /\ g.state = h.state /\ g.events = h.events /\ g.cases = h.cases /\ g.cross = h.cross
  BY DEF Alike
<1>2. \A kind : Visible(g, kind) = Visible(h, kind)
  BY <1>1 DEF Visible
<1>3. \A kind, status : With(g, kind, status) = With(h, kind, status)
  BY <1>1, <1>2 DEF With
<1>4. Attention(g) = Attention(h)
  <2> DEFINE active(x) == {r \in Visible(x, Risk) : x.state[r].status # "CLOSED"}
             level(x, l) == {r \in active(x) : RiskLevel(r, x.state[r].status) = l}
             blocked(x) == With(x, Work, "BLOCKED")
             slipping(x) == With(x, Milestone, "AT_RISK")
             late(x) == With(x, Evidence, "LATE")
  <2>1. active(g) = active(h)
    BY <1>1, <1>2
  <2>2. \A l : level(g, l) = level(h, l)
    BY <1>1, <2>1
  <2>3. blocked(g) = blocked(h) /\ slipping(g) = slipping(h) /\ late(g) = late(h)
    BY <1>3
  <2>4. \A x : Attention(x) =
          IF blocked(x) # {} THEN <<"BLOCKED", blocked(x)>>
          ELSE IF level(x, "CRITICAL") # {} THEN <<"AT_RISK", level(x, "CRITICAL")>>
          ELSE IF level(x, "HIGH") \cup slipping(x) # {}
               THEN <<"AT_RISK", level(x, "HIGH") \cup slipping(x)>>
          ELSE IF late(x) # {} THEN <<"WATCH", late(x)>>
          ELSE IF active(x) # {} THEN <<"WATCH", active(x)>>
          ELSE <<"ON_TRACK", {}>>
    BY DEF Attention
  <2> HIDE DEF active, level, blocked, slipping, late
  <2>. QED  BY <2>1, <2>2, <2>3, <2>4
<1>5. \A t \in Track : TrackSituation(g, t) = TrackSituation(h, t)
  BY <1>1 DEF TrackSituation
<1>6. ASSUME NEW r PROVE RiskTrace(g, r) = RiskTrace(h, r)
  <2>1. \A S, T : S = T => [i \in S |-> g.state[i]] = [i \in T |-> h.state[i]]
    BY <1>1
  <2>2. [m \in Affects[r] |-> g.state[m].status] = [m \in Affects[r] |-> h.state[m].status]
    BY <1>1
  <2>3. /\ RestsOn[r] \cap Visible(g, Issue) = RestsOn[r] \cap Visible(h, Issue)
        /\ RestsOn[r] \cap Visible(g, Evidence) = RestsOn[r] \cap Visible(h, Evidence)
        /\ Treatment[r] \cap Visible(g, Act) = Treatment[r] \cap Visible(h, Act)
    BY <1>2
  <2>4. /\ [i \in RestsOn[r] \cap Visible(g, Issue) |-> g.state[i]] =
             [i \in RestsOn[r] \cap Visible(h, Issue) |-> h.state[i]]
        /\ [e \in RestsOn[r] \cap Visible(g, Evidence) |-> g.state[e]] =
             [e \in RestsOn[r] \cap Visible(h, Evidence) |-> h.state[e]]
        /\ [a \in Treatment[r] \cap Visible(g, Act) |-> g.state[a]] =
             [a \in Treatment[r] \cap Visible(h, Act) |-> h.state[a]]
    BY <2>1, <2>3
  <2>. QED  BY <1>1, <2>2, <2>4 DEF RiskTrace
<1>. QED  BY <1>2, <1>4, <1>5, <1>6

\* The two screens of a step, with the parts of a summary that last.
LEMMA ScreensOfThePastStay ==
  ASSUME ProjectInv, ProjectInv', [Next]_vars, NEW s \in Nat, TellsNothingOf(s)
  PROVE  Kept(Screens(s)') = Kept(Screens(s))
<1>1. PICK h : h = History(s)
  OBVIOUS
<1>2. PICK g : g = History(s)'
  OBVIOUS
<1>3. Alike(g, h)
  BY <1>1, <1>2, HistoryOfThePastStays
<1>4. /\ Attention(g) = Attention(h)
      /\ \A kind : Visible(g, kind) = Visible(h, kind)
      /\ \A t \in Track : TrackSituation(g, t) = TrackSituation(h, t)
      /\ \A r : RiskTrace(g, r) = RiskTrace(h, r)
      /\ g.state = h.state /\ g.cases = h.cases
  BY <1>3, AlikeIsShownAlike DEF Alike
<1>5. Overview(s)' = Overview(s)
  BY <1>1, <1>2, <1>4 DEF Overview
<1>6. Timeline(s)' = Timeline(s)
  <2>1. {v \in events' : v.observed <= s} = {v \in events : v.observed <= s}
    BY EventsOfThePastStay
  <2>. QED  BY <1>1, <1>2, <1>4, <2>1 DEF Timeline
<1>7. Screens(s)'.traces = Screens(s).traces
  BY <1>1, <1>2, <1>4 DEF Screens
<1>8. Lasting(RiskList(s)') = Lasting(RiskList(s))
  <2> DEFINE row(q) ==
        [f \in {"status", "level", "sources", "affected", "cases", "actions"} |-> q[f]]
  <2>1. DOMAIN RiskList(s) = Visible(h, Risk) /\ DOMAIN RiskList(s)' = Visible(g, Risk)
    BY <1>1, <1>2 DEF RiskList
  <2>2. ASSUME NEW p, NEW q, p.status = q.status, p.level = q.level, p.sources = q.sources,
               p.affected = q.affected, p.cases = q.cases, p.actions = q.actions
        PROVE  row(p) = row(q)
    BY <2>2
  <2>3. ASSUME NEW r \in Visible(h, Risk) PROVE row(RiskList(s)'[r]) = row(RiskList(s)[r])
    <3>1. PICK q : q = RiskList(s)[r]
      OBVIOUS
    <3>2. PICK p : p = RiskList(s)'[r]
      OBVIOUS
    <3>3. q = RiskSummary(h, r)
      BY <1>1, <3>1 DEF RiskList
    <3>4. /\ q.status = h.state[r].status /\ q.level = RiskLevel(r, h.state[r].status)
          /\ q.sources = RestsOn[r] /\ q.affected = Affects[r]
          /\ q.cases = Treatment[r] \cap h.cases /\ q.actions = Treatment[r] \cap Visible(h, Act)
      BY <3>3 DEF RiskSummary
    <3>5. p = RiskSummary(History(s), r)'
      BY <1>2, <1>4, <3>2 DEF RiskList
    <3>6. /\ p.status = g.state[r].status
          /\ p.level = RiskLevel(r, History(s)'.state[r].status)
          /\ p.sources = RestsOn[r] /\ p.affected = Affects[r]
          /\ p.cases = Treatment[r] \cap g.cases
          /\ p.actions = Treatment[r] \cap Visible(History(s)', Act)
      BY <1>2, <3>5 DEF RiskSummary, RiskLevel, Visible
    <3>7. /\ p.status = q.status /\ p.level = q.level /\ p.sources = q.sources
          /\ p.affected = q.affected /\ p.cases = q.cases /\ p.actions = q.actions
      BY <1>2, <1>4, <3>4, <3>6
    <3> HIDE DEF row
    <3>. QED  BY <2>2, <3>1, <3>2, <3>7
  <2> HIDE DEF row
  <2>4. Lasting(RiskList(s)') = [r \in DOMAIN RiskList(s)' |-> row(RiskList(s)'[r])]
    BY DEF Lasting, row
  <2>5. Lasting(RiskList(s)) = [r \in DOMAIN RiskList(s) |-> row(RiskList(s)[r])]
    BY DEF Lasting, row
  <2>. QED  BY <1>4, <2>1, <2>3, <2>4, <2>5
<1>9. /\ Screens(s).situation.overview = Overview(s)
      /\ Screens(s)'.situation.overview = Overview(s)'
      /\ Screens(s).situation.risks = RiskList(s)
      /\ Screens(s)'.situation.risks = RiskList(s)'
      /\ Screens(s).timeline = Timeline(s) /\ Screens(s)'.timeline = Timeline(s)'
  BY DEF Screens, Situation
<1>. QED  BY <1>5, <1>6, <1>7, <1>8, <1>9 DEF Kept

\* A rank is computed from the history and from the dates of the present.
LEMMA RanksFollowTheDates ==
  ASSUME ProjectInv, ProjectInv', [Next]_vars, NEW s \in Nat, TellsNothingOf(s),
         UNCHANGED Dates
  PROVE  Ranks(History(s))' = Ranks(History(s))
<1>1. PICK h : h = History(s)
  OBVIOUS
<1>2. PICK g : g = History(s)'
  OBVIOUS
<1>3. g.state = h.state /\ Visible(g, Risk) = Visible(h, Risk)
  BY <1>1, <1>2, HistoryOfThePastStays, AlikeIsShownAlike DEF Alike
<1>4. currentStep' = currentStep /\ \A m \in Milestone : now'[m].planned = now[m].planned
  <2>1. \A m \in Milestone : [x \in Milestone |-> now[x].planned]'[m] = [x \in Milestone |-> now[x].planned][m]
    BY DEF Dates
  <2>. QED  BY <2>1 DEF Dates
<1>5. ASSUME NEW r PROVE NearestImpact(r)' = NearestImpact(r)
  <2>1. PICK planned : planned = {now[m].planned : m \in Affects[r] \cap Milestone}
    OBVIOUS
  <2>2. planned = {now[m].planned : m \in Affects[r] \cap Milestone}'
    BY <1>4, <2>1
  <2>3. NearestImpact(r) = IF planned = {} THEN currentStep + 999 ELSE Min(planned)
    BY <2>1 DEF NearestImpact
  <2>4. NearestImpact(r)' = IF planned = {} THEN currentStep' + 999 ELSE Min(planned)
    BY <2>2 DEF NearestImpact, Min
  <2>. QED  BY <1>4, <2>3, <2>4
<1>6. Ranks(h) = [r \in Visible(h, Risk) |->
                    1 + Cardinality({q \in Visible(h, Risk) :
                          Before(RiskKey(q, h.state[q].status), RiskKey(r, h.state[r].status))})]
  BY DEF Ranks
<1>7. Ranks(History(s))' =
        [r \in Visible(g, Risk) |->
           1 + Cardinality({q \in Visible(g, Risk) :
                 Before(RiskKey(q, g.state[q].status), RiskKey(r, g.state[r].status))})]
  BY <1>2, <1>5 DEF Ranks, Visible, RiskKey
<1>. QED  BY <1>1, <1>3, <1>6, <1>7

\* The missing evidence is computed from the history and from the actions of the present.
LEMMA MissingFollowsTheActs ==
  ASSUME ProjectInv, ProjectInv', [Next]_vars, NEW s \in Nat, TellsNothingOf(s),
         UNCHANGED Acts, NEW r
  PROVE  MissingEvidence(History(s), r)' = MissingEvidence(History(s), r)
<1>1. History(s)'.state = History(s).state
  BY HistoryOfThePastStays DEF Alike
<1>2. Treatment[r] \cap Act \cap record' = Treatment[r] \cap Act \cap record
  BY DEF Acts
<1>. QED  BY <1>1, <1>2 DEF MissingEvidence

\* A source of evidence is shown for what was received then and is received now.
LEMMA SourcesFollowWhatIsReceived ==
  ASSUME ProjectInv, ProjectInv', [Next]_vars, NEW s \in Nat, TellsNothingOf(s),
         UNCHANGED Received
  PROVE  History(s).received' = History(s).received
<1>1. Known(s)' = Known(s)
  BY ObjectsOfThePastStay
<1>2. \A e \in Evidence : TakenBack(events', e, s, now'[e]) = TakenBack(events, e, s, now[e])
  BY StatesOfThePastStay DEF Entity
<1>3. \A e \in Evidence : now'[e].status = "RECEIVED" <=> now[e].status = "RECEIVED"
  BY DEF Received
<1>4. History(s).received =
        {e \in Known(s) \cap Evidence :
           /\ TakenBack(events, e, s, now[e]).status = "RECEIVED" /\ now[e].status = "RECEIVED"
           /\ TakenBack(events, e, s, now[e]).available # None
           /\ TakenBack(events, e, s, now[e]).available <= s}
  BY DEF History, Entity
<1>5. History(s).received' =
        {e \in Known(s)' \cap Evidence :
           /\ TakenBack(events', e, s, now'[e]).status = "RECEIVED" /\ now'[e].status = "RECEIVED"
           /\ TakenBack(events', e, s, now'[e]).available # None
           /\ TakenBack(events', e, s, now'[e]).available <= s}
  BY DEF History, Entity
<1>. QED  BY <1>1, <1>2, <1>3, <1>4, <1>5

\* Whatever a step of the project learns or opens after s, the situation, the
\* timeline and the risk details of s stay as they were, but for the ranks, the
\* missing evidence and the sources of evidence: those stay while the dates,
\* the actions and the evidence received of the present do.
THEOREM PastSituationHolds == Spec => PastSituationIsClosed
<1>1. ASSUME ProjectInv, ProjectInv', [Next]_vars, NEW s \in 0..currentStep, TellsNothingOf(s)
      PROVE  AsTheyWere(Screens(s), Screens(s)')
  <2>1. s \in Nat
    BY <1>1 DEF ProjectInv
  <2>2. Kept(Screens(s)') = Kept(Screens(s))
    BY <1>1, <2>1, ScreensOfThePastStay
  <2>3. DOMAIN RiskList(s)' = DOMAIN RiskList(s)
    <3>1. Visible(History(s)', Risk) = Visible(History(s), Risk)
      BY <1>1, <2>1, HistoryOfThePastStays, AlikeIsShownAlike
    <3>. QED  BY <3>1 DEF RiskList, Visible
  <2>4. /\ Screens(s).situation.risks = RiskList(s)
        /\ Screens(s)'.situation.risks = RiskList(s)'
        /\ Screens(s).situation.refs = History(s).received
        /\ Screens(s)'.situation.refs = History(s).received'
    BY DEF Screens, Situation
  <2>5. ASSUME UNCHANGED Dates PROVE Column(Screens(s)', "rank") = Column(Screens(s), "rank")
    <3>1. Ranks(History(s))' = Ranks(History(s))
      BY <1>1, <2>1, <2>5, RanksFollowTheDates
    <3>2. \A r \in DOMAIN RiskList(s) : RiskList(s)[r].rank = Ranks(History(s))[r]
      BY DEF RiskList, RiskSummary
    <3>3. \A r \in DOMAIN RiskList(s)' : RiskList(s)'[r].rank = Ranks(History(s))'[r]
      BY DEF RiskList, RiskSummary
    <3>. QED  BY <2>3, <2>4, <3>1, <3>2, <3>3 DEF Column
  <2>6. ASSUME UNCHANGED Acts PROVE Column(Screens(s)', "missing") = Column(Screens(s), "missing")
    <3>1. \A r : MissingEvidence(History(s), r)' = MissingEvidence(History(s), r)
      BY <1>1, <2>1, <2>6, MissingFollowsTheActs
    <3>2. \A r \in DOMAIN RiskList(s) : RiskList(s)[r].missing = MissingEvidence(History(s), r)
      BY DEF RiskList, RiskSummary
    <3>3. \A r \in DOMAIN RiskList(s)' : RiskList(s)'[r].missing = MissingEvidence(History(s), r)'
      BY DEF RiskList, RiskSummary
    <3>. QED  BY <2>3, <2>4, <3>1, <3>2, <3>3 DEF Column
  <2>7. ASSUME UNCHANGED Received
        PROVE  Screens(s)'.situation.refs = Screens(s).situation.refs
    BY <1>1, <2>1, <2>4, <2>7, SourcesFollowWhatIsReceived
  <2>. QED  BY <2>2, <2>5, <2>6, <2>7 DEF AsTheyWere
<1>2. ProjectInv /\ ProjectInv' /\ [Next]_vars =>
        [\A s \in 0..currentStep :
           TellsNothingOf(s) =>
             \A before \in {Screens(s)}, after \in {Screens(s)'} : AsTheyWere(before, after)]_vars
  BY <1>1
<1>. QED  BY <1>2, ProjectHolds, PTL DEF Spec, PastSituationIsClosed
=============================================================================
