---------------------------- MODULE MCUsRecovery ----------------------------
(* Model-checking instances of UsRecovery.  us_recovery has a week of one day, so that with
   six session ages a hole outside the weekly overlap can outlive a calm week and the two
   days after it; it is restricted to histories in which few past sessions are in trouble at
   a time. *)
EXTENDS UsRecovery, FiniteSets

Past     == Ages \ {0}
Troubled == {a \in Past : provider[a] # "good"}
Holes    == {a \in Past : ~bars[a]}

\* All past sessions but at most one are in the set, or at most one is.
OneApart(sessions) == Cardinality(sessions) <= 1 \/ Cardinality(Past \ sessions) <= 1

\* Daily: at most two past sessions the provider answers badly, at most two whose bars are
\* missing in a store that has the others, or one stored in a store that has none, and one
\* apart from the others by its coverage row.  Minute, of which the properties of this run say
\* nothing: the provider answers well and all past sessions are stored and covered, or none is.
FewInTrouble ==
  /\ Cardinality(Troubled) <= 2
  /\ IF resolution = "daily"
     THEN /\ OneApart(Holes) \/ Cardinality(Holes) = 2
          /\ \A v \in {"none", "gap"} : OneApart({a \in Past : cov[a] = v})
     ELSE /\ Troubled = {} /\ Holes \in {{}, Past} /\ calm = 0
          /\ \A a, b \in Past : cov[a] = cov[b]
=============================================================================
