----------------------------- MODULE EventChain -----------------------------
(***************************************************************************)
(* The events of a record, whatever they change: a case and a project keep *)
(* the current state of their entities and the events that led to it, and  *)
(* rewind it with the same algorithm.                                      *)
(*                                                                         *)
(* An event is a record of an id, the steps it became true and was         *)
(* observed at, and the changes it made: a function from the entities it   *)
(* touches to the states before and after.  The ids are numbers, compared  *)
(* as their strings are.                                                   *)
(***************************************************************************)
EXTENDS Naturals

\* key=(observed_at_step, event_id)
Precedes(u, v) ==
  u.observed < v.observed \/ (u.observed = v.observed /\ u.id < v.id)

Chain(log, e) == {v \in log : e \in DOMAIN v.changes}
Earliest(chain) == CHOOSE v \in chain : \A u \in chain : ~Precedes(u, v)
Latest(chain) == CHOOSE v \in chain : \A u \in chain : ~Precedes(v, u)
Follows(chain, u, v) ==
  Precedes(u, v) /\ \A x \in chain : ~(Precedes(u, x) /\ Precedes(x, v))

\* Each change of an entity starts where the one before it ended.
Continuous(log, e) ==
  \A u, v \in Chain(log, e) :
    Follows(Chain(log, e), u, v) => u.changes[e].after = v.changes[e].before

\* The last change of an entity led to state x.
LeadsTo(log, e, x) ==
  Chain(log, e) # {} => Latest(Chain(log, e)).changes[e].after = x

\* The state of an entity at s, from its current state x: the changes observed
\* after s are taken back, the latest first, so that the earliest of them is
\* taken back last.
TakenBack(log, e, s, x) ==
  LET later == {v \in Chain(log, e) : v.observed > s}
  IN  IF later = {} THEN x ELSE Earliest(later).changes[e].before

\* The same state, from the events observed by s.
Replayed(log, e, s, x) ==
  LET chain == Chain(log, e)
      seen == {v \in chain : v.observed <= s}
  IN  IF seen # {} THEN Latest(seen).changes[e].after
      ELSE IF chain # {} THEN Earliest(chain).changes[e].before ELSE x
=============================================================================
