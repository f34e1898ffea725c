------------------------------ MODULE MCDrain ------------------------------
(***************************************************************************)
(* Backlogs of three tasks for TLC: every status, every dependency on the  *)
(* other two and on a task that is not in the file, two authorships and    *)
(* two priority patterns.                                                  *)
(***************************************************************************)
EXTENDS LintDrain, FiniteSets

Ids == <<"A", "B", "C">>
Statuses == {"ready", "proposed", "done", "blocked"}
Authors == {<<"owner", "owner", "kelix">>, <<"kelix", "owner", "owner">>}
Priorities == {<<1, 1, 2>>, <<2, 1, 1>>}

MCBacklogs ==
  { [i \in 1..3 |-> [id |-> Ids[i], status |-> st[i], by |-> by[i],
                     deps |-> deps[i], phase |-> "", prio |-> prio[i], reqs |-> {}]] :
      st \in [1..3 -> Statuses],
      by \in Authors,
      prio \in Priorities,
      deps \in {d \in [1..3 -> SUBSET {"A", "B", "C", "gone"}] :
                  \A i \in 1..3 : Ids[i] \notin d[i] /\ Cardinality(d[i]) <= 2} }

MCClosed == {ts \in MCBacklogs : DoneClosed(ts)}
=============================================================================
