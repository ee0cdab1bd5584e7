------------------------------- MODULE ReadApi -------------------------------
(***************************************************************************)
(* The read API: the threads that share the answers of the data catalog, a  *)
(* client that reads a list page by page, and the pages that judge a market *)
(* session.  Lists and verdicts are served without anything shared, so that *)
(* a behaviour of all is a behaviour of each: what is served is chosen once *)
(* and the others rest.                                                    *)
(***************************************************************************)
EXTENDS CatalogService

CONSTANTS Rows, Top, Limit, Series, Close, Stale

VARIABLES
  served,
  list, key, walk, cursor, times, moved, day,                               \* ReadPages
  market, clock, listed, bars, counted, fed, page, step, at, asked, seen    \* ReadStatus

Walks  == INSTANCE ReadPages
Status == INSTANCE ReadStatus

ASSUME ApiAssumption == Walks!PagesAssumption /\ Status!StatusAssumption

walkVars   == <<list, key, walk, cursor, times, moved, day>>
statusVars == <<market, clock, listed, bars, counted, fed, page, step, at, asked, seen>>
apiVars    == <<vars, walkVars, statusVars, served>>

\* Which list is read and which market is judged is open only where it matters.
ApiInit ==
  /\ served \in {"catalog", "lists", "status"}
  /\ Init /\ Walks!Init /\ Status!Init
  /\ served # "lists" => list = Walks!IndiaCandles /\ key = [r \in Rows |-> 0]
  /\ served # "status" => market = "IN"

Catalog(A) == served = "catalog" /\ A /\ UNCHANGED <<walkVars, statusVars, served>>
Walk(A)    == served = "lists" /\ A /\ UNCHANGED <<vars, statusVars, served>>
Judge(A)   == served = "status" /\ A /\ UNCHANGED <<vars, walkVars, served>>

ApiNext == Catalog(Next) \/ Walk(Walks!Next) \/ Judge(Status!Next)

\* The fairness of CatalogService.
ApiFairness ==
  \A r \in Readers : WF_apiVars(Catalog(Proceed(r))) /\ SF_apiVars(Catalog(Lock(r)))

ApiSpec == ApiInit /\ [][ApiNext]_apiVars /\ ApiFairness

-----------------------------------------------------------------------------
(* Properties. *)

\* A client that follows a cursor gets every row that stays as it is exactly once, and one that
\* counts offsets misses none of a list that only grows (api/india.py, us.py, political.py).
WalksComplete == Walks!WalksComplete

\* A page that reads the clock first reports no lack that is none, and a US series that is
\* called complete is (api/india_observability.py, india_hub.py, us.py).
VerdictsHold == Status!VerdictsHold

=============================================================================
