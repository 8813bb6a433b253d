-------------------------- MODULE EventChainProofs --------------------------
(***************************************************************************)
(* What holds of EventChain for every log: that rewinding a record and     *)
(* replaying its events give the same states, and that an event which a    *)
(* record accepts does not change what was known before it was observed.   *)
(*                                                                         *)
(* Earliest and Latest choose an end of a set of events; a log has them    *)
(* for all its parts because it grew by one event at a time (LogGrows).    *)
(***************************************************************************)
EXTENDS EventChain, TLAPS

\* The ids of events are numbers, one for each.
LogOK(log) ==
  /\ \A v \in log : v.id \in Nat /\ v.observed \in Nat
  /\ \A u, v \in log : u.id = v.id => u = v

\* Every part of the log has an earliest and a latest event.
HasEnds(log) ==
  \A part \in SUBSET log : part # {} =>
    /\ \E v \in part : \A u \in part : ~Precedes(u, v)
    /\ \E v \in part : \A u \in part : ~Precedes(v, u)

-----------------------------------------------------------------------------
\* Precedes is a strict total order of the events of a log.
LEMMA PrecedesIsOrder ==
  ASSUME NEW log, LogOK(log)
  PROVE  /\ \A v \in log : ~Precedes(v, v)
         /\ \A u, v, x \in log : Precedes(u, v) /\ Precedes(v, x) => Precedes(u, x)
         /\ \A u, v \in log : Precedes(u, v) => ~Precedes(v, u)
         /\ \A u, v \in log : u # v => Precedes(u, v) \/ Precedes(v, u)
<1>1. \A v \in log : v.id \in Nat /\ v.observed \in Nat
  BY DEF LogOK
<1>2. \A u, v \in log : u # v => u.id # v.id
  BY DEF LogOK
<1>3. \A v \in log : ~Precedes(v, v)
  BY <1>1 DEF Precedes
<1>4. \A u, v, x \in log : Precedes(u, v) /\ Precedes(v, x) => Precedes(u, x)
  BY <1>1 DEF Precedes
<1>5. \A u, v \in log : u # v => Precedes(u, v) \/ Precedes(v, u)
  BY <1>1, <1>2 DEF Precedes
<1>6. \A u, v \in log : Precedes(u, v) => ~Precedes(v, u)
  BY <1>3, <1>4
<1>. QED  BY <1>3, <1>4, <1>5, <1>6

\* The ends of a part of the log are what Earliest and Latest choose.
LEMMA EndsOfPart ==
  ASSUME NEW log, LogOK(log), HasEnds(log), NEW part, part \subseteq log, part # {}
  PROVE  /\ Earliest(part) \in part
         /\ \A u \in part : u # Earliest(part) => Precedes(Earliest(part), u)
         /\ Latest(part) \in part
         /\ \A u \in part : u # Latest(part) => Precedes(u, Latest(part))
<1>1. \E v \in part : \A u \in part : ~Precedes(u, v)
  BY DEF HasEnds
<1>2. \E v \in part : \A u \in part : ~Precedes(v, u)
  BY DEF HasEnds
<1>3. Earliest(part) \in part /\ \A u \in part : ~Precedes(u, Earliest(part))
  BY <1>1 DEF Earliest
<1>4. Latest(part) \in part /\ \A u \in part : ~Precedes(Latest(part), u)
  BY <1>2 DEF Latest
<1>5. \A u, v \in part : u # v => Precedes(u, v) \/ Precedes(v, u)
  BY PrecedesIsOrder
<1>. QED  BY <1>3, <1>4, <1>5

\* There is one earliest and one latest event.
LEMMA EndsAreUnique ==
  ASSUME NEW log, LogOK(log), HasEnds(log), NEW part, part \subseteq log, NEW v \in part
  PROVE  /\ (\A u \in part : u # v => Precedes(v, u)) => Earliest(part) = v
         /\ (\A u \in part : u # v => Precedes(u, v)) => Latest(part) = v
<1>1. part # {} /\ v \in log
  OBVIOUS
<1>2. /\ Earliest(part) \in part
      /\ \A u \in part : u # Earliest(part) => Precedes(Earliest(part), u)
      /\ Latest(part) \in part
      /\ \A u \in part : u # Latest(part) => Precedes(u, Latest(part))
  BY <1>1, EndsOfPart
<1>3. \A x, y \in part : Precedes(x, y) => ~Precedes(y, x)
  BY PrecedesIsOrder
<1>. QED  BY <1>2, <1>3

\* A log that grows by one event keeps its ends.
LEMMA LogGrows ==
  ASSUME NEW log, LogOK(log), HasEnds(log), NEW v, v.id \in Nat, v.observed \in Nat,
         v.id \notin {u.id : u \in log}
  PROVE  LogOK(log \cup {v}) /\ HasEnds(log \cup {v})
<1>1. LogOK(log \cup {v})
  BY DEF LogOK
<1>2. ASSUME NEW part \in SUBSET (log \cup {v}), part # {}
      PROVE  /\ \E x \in part : \A u \in part : ~Precedes(u, x)
             /\ \E x \in part : \A u \in part : ~Precedes(x, u)
  <2> DEFINE rest == part \ {v}
  <2>1. /\ \A x \in part : ~Precedes(x, x)
        /\ \A x, y, z \in part : Precedes(x, y) /\ Precedes(y, z) => Precedes(x, z)
        /\ \A x, y \in part : Precedes(x, y) => ~Precedes(y, x)
        /\ \A x, y \in part : x # y => Precedes(x, y) \/ Precedes(y, x)
    BY <1>1, PrecedesIsOrder
  <2>2. rest \subseteq log
    OBVIOUS
  <2>3. CASE rest = {}
    <3>1. part = {v}
      BY <1>2, <2>3
    <3>. QED  BY <2>1, <3>1
  <2>4. CASE rest # {}
    <3>1. PICK a \in rest : \A u \in rest : ~Precedes(u, a)
      BY <2>2, <2>4 DEF HasEnds
    <3>2. PICK b \in rest : \A u \in rest : ~Precedes(b, u)
      BY <2>2, <2>4 DEF HasEnds
    <3>3. a \in part /\ b \in part /\ \A u \in part : u \in rest \/ u = v
      OBVIOUS
    <3>4. \E x \in part : \A u \in part : ~Precedes(u, x)
      <4>1. CASE v \in part /\ Precedes(v, a)
        <5>1. \A u \in part : ~Precedes(u, v)
          BY <2>1, <3>1, <3>3, <4>1
        <5>. QED  BY <4>1, <5>1
      <4>2. CASE ~(v \in part /\ Precedes(v, a))
        BY <3>1, <3>3, <4>2
      <4>. QED  BY <4>1, <4>2
    <3>5. \E x \in part : \A u \in part : ~Precedes(x, u)
      <4>1. CASE v \in part /\ Precedes(b, v)
        <5>1. \A u \in part : ~Precedes(v, u)
          BY <2>1, <3>2, <3>3, <4>1
        <5>. QED  BY <4>1, <5>1
      <4>2. CASE ~(v \in part /\ Precedes(b, v))
        BY <3>2, <3>3, <4>2
      <4>. QED  BY <4>1, <4>2
    <3>. QED  BY <3>4, <3>5
  <2>. QED  BY <2>3, <2>4
<1>. QED  BY <1>1, <1>2 DEF HasEnds

LEMMA EmptyLog == LogOK({}) /\ HasEnds({})
  BY DEF LogOK, HasEnds

-----------------------------------------------------------------------------
\* Taking back what was observed after s, from the current state, gives what
\* replaying the events observed by s gives.
THEOREM RewindingIsReplaying ==
  ASSUME NEW log, LogOK(log), HasEnds(log), NEW e, NEW x, NEW s \in Nat,
         Continuous(log, e), LeadsTo(log, e, x)
  PROVE  TakenBack(log, e, s, x) = Replayed(log, e, s, x)
<1> DEFINE chain == Chain(log, e)
           later == {v \in chain : v.observed > s}
           seen == {v \in chain : v.observed <= s}
<1>1. /\ chain \subseteq log /\ later \subseteq log /\ seen \subseteq log
      /\ \A v \in chain : v \in later <=> v \notin seen
  BY DEF Chain, LogOK
<1>2. CASE later = {}
  <2>1. seen = chain
    BY <1>1, <1>2
  <2>2. TakenBack(log, e, s, x) = x
    BY <1>2 DEF TakenBack
  <2>3. Replayed(log, e, s, x) = IF chain # {} THEN Latest(chain).changes[e].after ELSE x
    BY <2>1 DEF Replayed
  <2>. QED  BY <2>2, <2>3 DEF LeadsTo
<1>3. CASE later # {} /\ seen = {}
  <2>1. later = chain
    BY <1>1, <1>3
  <2>2. TakenBack(log, e, s, x) = Earliest(chain).changes[e].before
    BY <1>3, <2>1 DEF TakenBack
  <2>3. Replayed(log, e, s, x) = Earliest(chain).changes[e].before
    BY <1>3, <2>1 DEF Replayed
  <2>. QED  BY <2>2, <2>3
<1>4. CASE later # {} /\ seen # {}
  <2> DEFINE u == Latest(seen)
             v == Earliest(later)
  <2>1. /\ v \in later /\ \A y \in later : y # v => Precedes(v, y)
        /\ u \in seen /\ \A y \in seen : y # u => Precedes(y, u)
    BY <1>1, <1>4, EndsOfPart
  <2>2. Precedes(u, v)
    BY <2>1 DEF Precedes, LogOK, Chain
  <2>3. ASSUME NEW y \in chain, Precedes(u, y), Precedes(y, v) PROVE FALSE
    <3>1. /\ \A z \in log : ~Precedes(z, z)
          /\ \A w, z \in log : Precedes(w, z) => ~Precedes(z, w)
      BY PrecedesIsOrder
    <3>. QED  BY <1>1, <2>1, <2>3, <3>1
  <2>4. Follows(chain, u, v)
    BY <2>2, <2>3 DEF Follows
  <2>5. u.changes[e].after = v.changes[e].before
    BY <2>1, <2>4 DEF Continuous
  <2>6. TakenBack(log, e, s, x) = v.changes[e].before
    BY <1>4 DEF TakenBack
  <2>7. Replayed(log, e, s, x) = u.changes[e].after
    BY <1>4 DEF Replayed
  <2>. QED  BY <2>5, <2>6, <2>7
<1>. QED  BY <1>2, <1>3, <1>4

\* A log that is still continuous and still leads to the current states after
\* an event v was added can only have been extended at the end of v's chains:
\* v starts from what was the current state, and changes it.
LEMMA AddedLast ==
  ASSUME NEW log, LogOK(log), HasEnds(log), NEW v, v.id \in Nat, v.observed \in Nat,
         v.id \notin {u.id : u \in log}, NEW e, NEW x,
         e \in DOMAIN v.changes, v.changes[e].before = x, v.changes[e].after # x,
         LeadsTo(log, e, x), LeadsTo(log \cup {v}, e, v.changes[e].after)
  PROVE  \A u \in Chain(log, e) : Precedes(u, v)
<1> DEFINE more == log \cup {v}
           old == Chain(log, e)
           chain == Chain(more, e)
<1>1. LogOK(more) /\ HasEnds(more)
  BY LogGrows
<1>2. /\ chain = old \cup {v} /\ chain \subseteq more /\ chain # {}
      /\ old \subseteq log /\ v \notin old
  BY DEF Chain
<1>3. /\ Latest(chain) \in chain
      /\ \A u \in chain : u # Latest(chain) => Precedes(u, Latest(chain))
  BY <1>1, <1>2, EndsOfPart
<1>4. CASE Latest(chain) = v
  BY <1>2, <1>3, <1>4
<1>5. CASE Latest(chain) # v
  <2>1. Latest(chain) \in old
    BY <1>2, <1>3, <1>5
  <2>2. \A u \in old : u # Latest(chain) => Precedes(u, Latest(chain))
    BY <1>2, <1>3
  <2>3. Latest(old) = Latest(chain)
    BY <1>2, <2>1, <2>2, EndsAreUnique
  <2>4. Latest(old).changes[e].after = x
    BY <2>1 DEF LeadsTo
  <2>5. Latest(chain).changes[e].after = v.changes[e].after
    BY <1>2 DEF LeadsTo
  <2>. QED  BY <2>3, <2>4, <2>5
<1>. QED  BY <1>4, <1>5

\* An event that is not observed by s changes nothing that was known at s.
THEOREM PastStatesStay ==
  ASSUME NEW log, LogOK(log), HasEnds(log), NEW v, v.id \in Nat, v.observed \in Nat,
         v.id \notin {u.id : u \in log}, NEW e, NEW x, NEW y, NEW s \in Nat, v.observed > s,
         LeadsTo(log, e, x), LeadsTo(log \cup {v}, e, y),
         IF e \in DOMAIN v.changes
         THEN v.changes[e].before = x /\ v.changes[e].after = y /\ x # y
         ELSE x = y
  PROVE  TakenBack(log \cup {v}, e, s, y) = TakenBack(log, e, s, x)
<1> DEFINE more == log \cup {v}
           later == {u \in Chain(log, e) : u.observed > s}
           laterNow == {u \in Chain(more, e) : u.observed > s}
<1>1. LogOK(more) /\ HasEnds(more)
  BY LogGrows
<1>2. CASE e \notin DOMAIN v.changes
  <2>1. Chain(more, e) = Chain(log, e)
    BY <1>2 DEF Chain
  <2>. QED  BY <1>2, <2>1 DEF TakenBack
<1>3. CASE e \in DOMAIN v.changes
  <2>1. laterNow = later \cup {v} /\ later \subseteq log /\ laterNow \subseteq more
    BY <1>3 DEF Chain
  <2>2. \A u \in Chain(log, e) : Precedes(u, v)
    BY <1>3, AddedLast
  <2>3. TakenBack(more, e, s, y) = Earliest(laterNow).changes[e].before
    BY <2>1 DEF TakenBack
  <2>4. CASE later = {}
    <3>1. laterNow = {v}
      BY <2>1, <2>4
    <3>2. Earliest(laterNow) = v
      BY <1>1, <2>1, <3>1, EndsOfPart
    <3>3. TakenBack(log, e, s, x) = x
      BY <2>4 DEF TakenBack
    <3>. QED  BY <1>3, <2>3, <3>2, <3>3
  <2>5. CASE later # {}
    <3>1. /\ Earliest(later) \in later
          /\ \A u \in later : u # Earliest(later) => Precedes(Earliest(later), u)
      BY <2>1, <2>5, EndsOfPart
    <3>2. Precedes(Earliest(later), v)
      BY <2>2, <3>1
    <3>3. Earliest(laterNow) = Earliest(later)
      <4>1. Earliest(later) \in laterNow
        BY <2>1, <3>1
      <4>2. \A u \in laterNow : u # Earliest(later) => Precedes(Earliest(later), u)
        BY <2>1, <3>1, <3>2
      <4>. QED  BY <1>1, <2>1, <4>1, <4>2, EndsAreUnique
    <3>4. TakenBack(log, e, s, x) = Earliest(later).changes[e].before
      BY <2>5 DEF TakenBack
    <3>. QED  BY <2>3, <3>3, <3>4
  <2>. QED  BY <2>4, <2>5
<1>. QED  BY <1>2, <1>3
=============================================================================
