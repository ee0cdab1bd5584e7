---------------------------- MODULE MigrationLog ----------------------------
(* What a forward-only migration runner promises, whoever runs it, however often and
   wherever a run breaks off: the statements of a migration are executed in the order of
   its file, not before every earlier migration is complete, nothing executed is taken
   back, and a migration is recorded as succeeded only when it is complete. *)
EXTENDS Integers

CONSTANTS
  Migrations,   \* migrations of all phases
  Earlier,      \* Earlier[m]: the migrations that come before m
  Statements    \* statements of a migration

VARIABLES
  executed,     \* executed[m]: the statements of m that were executed at least once
  recorded      \* migrations the journal calls succeeded

vars == <<executed, recorded>>

Complete(m) == executed[m] = 1 .. Statements

Init ==
  /\ executed = [m \in Migrations |-> {}]
  /\ recorded = {}

\* A statement may be executed again: migrations are retried from their first statement.
Execute(m, k) ==
  /\ \A n \in Earlier[m] : Complete(n)
  /\ 1 .. (k - 1) \subseteq executed[m]
  /\ executed' = [executed EXCEPT ![m] = @ \cup {k}]
  /\ UNCHANGED recorded

Record(m) ==
  /\ Complete(m)
  /\ recorded' = recorded \cup {m}
  /\ UNCHANGED executed

\* A migration that is begun again or fails is recorded as such until it succeeds.
Withdraw(m) ==
  /\ recorded' = recorded \ {m}
  /\ UNCHANGED executed

Next ==
  \E m \in Migrations :
    Record(m) \/ Withdraw(m) \/ \E k \in 1 .. Statements : Execute(m, k)

Spec == Init /\ [][Next]_vars

=============================================================================
