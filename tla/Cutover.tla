------------------------------- MODULE Cutover -------------------------------
(***************************************************************************)
(* The commands of the move of the collection to ClickHouse v2, in the      *)
(* order of docs/operations/clickhouse-v2-data-completion.md: the review of *)
(* the political corrections and the wave 4 backfill, the exchange of the   *)
(* operational tables, and the release that activates the v2 writers.  They *)
(* share no state that any of the three modules holds, so that a behaviour  *)
(* of all is a behaviour of each: the command is chosen once and the others *)
(* rest.                                                                   *)
(***************************************************************************)
EXTENDS ReleaseDeploy

CONSTANTS Trades, Filings, Legislator, MaxRev, Rewritten, Tables, MaxWrites

VARIABLES
  command,                                               \* the command that runs
  rev, matched, sourced, crosswalk, review, facts,
  backfill, moved, complete,                             \* CorrectionReview
  canonical, holds, written, process, exposed            \* TableCutover

Corrections == INSTANCE CorrectionReview
Exchange    == INSTANCE TableCutover WITH Operators <- Scripts

ASSUME CutoverAssumption == Corrections!ReviewAssumption /\ Exchange!TableAssumption

reviewVars   == <<rev, matched, sourced, crosswalk, review, facts, backfill, moved, complete>>
exchangeVars == <<canonical, holds, written, process, exposed>>
allVars      == <<vars, reviewVars, exchangeVars, command>>

\* What a PDF supports and whether rows carry a bioguide is open only where they are reviewed.
CutoverInit ==
  /\ Init /\ Corrections!Init /\ Exchange!Init
  /\ command \in {"review", "exchange", "release"}
  /\ command # "review" => matched = {} /\ ~sourced

Review(A)   == command = "review" /\ A /\ UNCHANGED <<vars, exchangeVars, command>>
Swap(A)     == command = "exchange" /\ A /\ UNCHANGED <<vars, reviewVars, command>>
Activate(A) == command = "release" /\ A /\ UNCHANGED <<reviewVars, exchangeVars, command>>

CutoverNext == Review(Corrections!Next) \/ Swap(Exchange!Next) \/ Activate(Next)

CutoverSpec == CutoverInit /\ [][CutoverNext]_allVars

-----------------------------------------------------------------------------
(* Properties. *)

\* docs/operations/clickhouse-v2-data-completion.md:21 "refuses changes to previously
\* approved semantic corrections": whatever is rewritten, restaged, enriched or half
\* approved, a loaded fact keeps its decision.
FactKept == Corrections!FactKept

\* A backfill that succeeds has loaded every row by its approved correction, although it
\* validates before it takes the lock (scripts/migrate_clickhouse_v2.py:448).
SuccessIsLoaded == Corrections!SuccessIsLoaded

\* An exchange of the operational tables hides no row that its comparison had seen
\* (scripts/cutover_clickhouse_v2.py).
ExchangeHidesNothing == Exchange!ExchangeHidesNothing

=============================================================================
