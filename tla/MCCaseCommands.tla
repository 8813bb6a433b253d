--------------------------- MODULE MCCaseCommands ---------------------------
(***************************************************************************)
(* Instances of CaseCommands for TLC.                                      *)
(***************************************************************************)
EXTENDS CaseCommands, TLC

CONSTANTS k1, k2, k3, d1, d2, a, b

\* d1 selects an option, d2 asks for more evidence.
MCChosen == d1 :> a @@ d2 :> None

Empty ==
  [kind |-> "reveal", key |-> k1, match |-> 1, dossier |-> None,
   from |-> 0, to |-> 0, adoption |-> None, option |-> None]

Deciding(k, m, d) ==
  [Empty EXCEPT !.kind = "decide", !.key = k, !.match = m, !.dossier = d]
Advancing(k, m, d, x, y) ==
  [Empty EXCEPT !.kind = "advance", !.key = k, !.match = m, !.dossier = d,
                !.from = x, !.to = y]
Evaluating(k, m) == [Empty EXCEPT !.kind = "evaluate", !.key = k, !.match = m]
Answering(k, m, o) ==
  [Empty EXCEPT !.kind = "initial", !.key = k, !.match = m, !.option = o]
Revealing(k, m) == [Empty EXCEPT !.key = k, !.match = m]
Concluding(k, m, w, o) ==
  [Empty EXCEPT !.kind = "final", !.key = k, !.match = m, !.adoption = w, !.option = o]

\* Two commands for most kinds, with keys that are used again for another
\* content or another kind, and with versions that are outdated.
MCCommands ==
  {Deciding(k1, 1, d1), Deciding(k1, 1, d2), Deciding(k2, 2, d2),
   Advancing(k1, 1, None, 0, 1), Advancing(k2, 1, d1, 0, 2), Advancing(k2, 2, None, 1, 2),
   Evaluating(k1, 2), Evaluating(k1, 3),
   Answering(k1, 1, a), Answering(k1, 1, b),
   Revealing(k2, 1), Revealing(k2, 2),
   Concluding(k3, 1, "accept", a), Concluding(k2, 2, "accept", b)}

Symmetry == Permutations(Client)
=============================================================================
