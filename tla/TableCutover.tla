---------------------------- MODULE TableCutover ----------------------------
(***************************************************************************)
(* The exchange of the operational tables of ClickHouse v2 for the ones    *)
(* with canonical keys (scripts/cutover_clickhouse_v2.py).  The wave 9      *)
(* backfill copies each table into its replacement; the script compares    *)
(* the two and exchanges their names, table after table.  Nothing locks    *)
(* out a second invocation, nor a writer that was not stopped.             *)
(*                                                                         *)
(* The writes to a table are counted: a copy holds the writes up to its     *)
(* number.                                                                 *)
(***************************************************************************)
EXTENDS Integers

CONSTANTS
  Operators,  \* invocations of the script that may overlap
  Tables,     \* how many operational tables there are
  MaxWrites   \* bound on the writes to a table

TableAssumption == Tables \in Nat \ {0} /\ MaxWrites \in Nat

VARIABLES
  canonical,  \* canonical[t]: the public name of t has the canonical key
  holds,      \* holds[t]: the last write under the public name and under the replacement's
  written,    \* written[t]: the writes to t so far
  process,    \* the invocations of the script
  exposed     \* history: t was written after it was compared and before it was exchanged

vars == <<canonical, holds, written, process, exposed>>

Table == 1 .. Tables
Names == {"public", "replacement"}
Idle  == [pc |-> "idle", at |-> 1, seen |-> {}, exchange |-> FALSE]

TypeOK ==
  /\ canonical \in [Table -> BOOLEAN]
  /\ holds \in [Table -> [Names -> 0 .. MaxWrites]]
  /\ written \in [Table -> 0 .. MaxWrites]
  /\ process \in [Operators -> [pc : {"idle", "layout", "compare", "exchange", "confirm"},
                                at : Table, seen : SUBSET Table, exchange : BOOLEAN]]
  /\ exposed \in [Table -> BOOLEAN]

At(o, pc) == process[o].pc = pc
Last(o)   == process[o].at = Tables

-----------------------------------------------------------------------------
(* cutover_clickhouse_v2.py *)

\* check, or exchange --yes.
Invoke(o) ==
  /\ At(o, "idle")
  /\ \E exchange \in BOOLEAN :
       process' = [process EXCEPT ![o] = [Idle EXCEPT !.pc = "layout", !.exchange = exchange]]
  /\ UNCHANGED <<canonical, holds, written, exposed>>

\* validate reads one layout after the other.
ReadLayout(o) ==
  /\ At(o, "layout") \/ At(o, "confirm")
  /\ LET my   == process[o]
         seen == my.seen \cup {t \in {my.at} : canonical[t]}
     IN  process' = [process EXCEPT ![o] =
           IF ~Last(o) THEN [my EXCEPT !.at = my.at + 1, !.seen = seen]
           ELSE IF seen = {} /\ At(o, "layout") THEN [my EXCEPT !.pc = "compare", !.at = 1]
           ELSE Idle]   \* already active, confirmed, or a mixed layout raises
  /\ UNCHANGED <<canonical, holds, written, exposed>>

CountedCopy(t) == TRUE
ExactCopy(t) == holds[t]["public"] = holds[t]["replacement"]

\* The counts and the differences of one table.
Compare(o) ==
  LET my == process[o] IN
  /\ At(o, "compare")
  /\ process' = [process EXCEPT ![o] =
       IF ~ExactCopy(my.at) THEN Idle
       ELSE IF ~Last(o) THEN [my EXCEPT !.at = my.at + 1]
       ELSE IF my.exchange THEN [my EXCEPT !.pc = "exchange", !.at = 1] ELSE Idle]
  /\ UNCHANGED <<canonical, holds, written, exposed>>

\* EXCHANGE TABLES, one statement per table.
Exchange(o) ==
  LET my == process[o]
      t  == my.at
  IN
  /\ At(o, "exchange")
  /\ canonical' = [canonical EXCEPT ![t] = ~@]
  /\ holds' = [holds EXCEPT ![t] = [public |-> @["replacement"], replacement |-> @["public"]]]
  /\ process' = [process EXCEPT ![o] =
       IF Last(o) THEN [Idle EXCEPT !.pc = "confirm"] ELSE [my EXCEPT !.at = my.at + 1]]
  /\ UNCHANGED <<written, exposed>>

\* A statement fails or the process dies: what has been exchanged stays exchanged.
Abort(o) ==
  /\ ~At(o, "idle")
  /\ process' = [process EXCEPT ![o] = Idle]
  /\ UNCHANGED <<canonical, holds, written, exposed>>

-----------------------------------------------------------------------------
(* wave_09_backfill_application_cutover.sql, one INSERT per table; the latest row wins. *)

Backfill(t) ==
  /\ holds' = [holds EXCEPT ![t]["replacement"] = IF @ < holds[t]["public"] THEN holds[t]["public"] ELSE @]
  /\ UNCHANGED <<canonical, written, process, exposed>>

\* t has been compared by o and not yet exchanged.
Compared(o, t) ==
  \/ At(o, "compare") /\ t < process[o].at
  \/ At(o, "exchange") /\ t >= process[o].at

\* A collector that was not stopped writes under the public name.
Write(t) ==
  /\ written[t] < MaxWrites
  /\ written' = [written EXCEPT ![t] = @ + 1]
  /\ holds' = [holds EXCEPT ![t]["public"] = written[t] + 1]
  /\ exposed' = [exposed EXCEPT ![t] = @ \/ \E o \in Operators : Compared(o, t)]
  /\ UNCHANGED <<canonical, process>>

-----------------------------------------------------------------------------
Init ==
  /\ canonical = [t \in Table |-> FALSE]
  /\ holds = [t \in Table |-> [n \in Names |-> 0]]
  /\ written = [t \in Table |-> 0]
  /\ process = [o \in Operators |-> Idle]
  /\ exposed = [t \in Table |-> FALSE]

Next ==
  \/ \E o \in Operators : Invoke(o) \/ ReadLayout(o) \/ Compare(o) \/ Exchange(o) \/ Abort(o)
  \/ \E t \in Table : Backfill(t) \/ Write(t)

Spec == Init /\ [][Next]_vars

-----------------------------------------------------------------------------
(* Properties. *)

\* scripts/cutover_clickhouse_v2.py:1 "Validate and exchange the three canonical-keyed v2
\* operational tables": whatever invocations overlap, die half way or are repeated, an exchange
\* hides no row, unless a collector wrote to the table between its comparison and its exchange.
ExchangeHidesNothing ==
  \A t \in Table : holds[t]["public"] = written[t] \/ exposed[t]

=============================================================================
