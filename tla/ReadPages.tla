------------------------------ MODULE ReadPages ------------------------------
(***************************************************************************)
(* The lists of the API that a client reads page by page, while the jobs    *)
(* write the rows that are listed.  A cursor names the last row that was    *)
(* answered and is opaque to the client; an offset is a number the client   *)
(* counts up.  Either way each page is one query, and nothing of the walk   *)
(* is kept at the server.                                                   *)
(*                                                                         *)
(* Rows are numbered by the last part of their sort key (the canonical      *)
(* identifiers) and pages are taken in ascending order: newest first is the *)
(* same with the order turned around.                                       *)
(***************************************************************************)
EXTENDS Integers, FiniteSets

CONSTANTS
  Rows,   \* a finite set of numbers: the unique last part of the sort key
  Top,    \* keys are 1 .. Top
  Limit,  \* rows of a page
  None    \* no cursor

PagesAssumption ==
  /\ Rows \subseteq Nat /\ IsFiniteSet(Rows)
  /\ Top \in Nat \ {0} /\ Limit \in Nat \ {0}
  /\ None \notin Nat \X Nat

VARIABLES
  list,    \* the list that is read
  key,     \* key[r]: what r is sorted by before its number, 0 when the list has no r
  walk,    \* "reading", "done" or "refused"
  cursor,  \* the position the client sends with its next request
  times,   \* times[r]: how often r was answered, more than twice counted as twice
  moved,   \* rows that came, left or changed their key since the first page
  day      \* the date: 0 when the first page is asked for

pageVars == <<list, key, walk, cursor, times, moved, day>>

-----------------------------------------------------------------------------
(* The lists: how the next page is asked for, what becomes of the dates of the request *)
(* ("free": none or the client's own, "bound": part of the cursor, "today": the day of *)
(* each request), and whether rows are only ever added at the near end.                *)

ByCursor == [by |-> "cursor", dates |-> "free", grows |-> FALSE]
ByOffset == [by |-> "offset", dates |-> "free", grows |-> FALSE]

IndiaCandles     == ByCursor  \* bar_time, symbol, listing, contract and source
IndiaInstruments == ByCursor  \* trading_symbol and listing
PoliticalTrades  == ByCursor  \* transaction_date and trade
UsCandles        == [ByCursor EXCEPT !.dates = "bound"]
HubCandles       == [ByCursor EXCEPT !.dates = "today"]

UsInstruments    == ByOffset  \* trading_symbol and listing
HubInstruments   == ByOffset
Legislators      == ByOffset  \* official_full and bioguide_id
Tickers          == ByOffset  \* number of trades and ticker

\* Runs are read newest first: of all rows those of new runs come first.
IndiaRuns     == [ByOffset EXCEPT !.grows = TRUE]
PoliticalRuns == [ByOffset EXCEPT !.grows = TRUE]
UsRuns        == [ByOffset EXCEPT !.grows = TRUE]

Lists ==
  {IndiaCandles, IndiaInstruments, PoliticalTrades, UsCandles, HubCandles,
   UsInstruments, HubInstruments, Legislators, Tickers,
   IndiaRuns, PoliticalRuns, UsRuns}

-----------------------------------------------------------------------------
(* One page. *)

Listed(r) == key[r] > 0

\* ORDER BY, with the identifier that breaks ties.
Precedes(a, b) == a[1] < b[1] \/ (a[1] = b[1] /\ a[2] < b[2])
Place(r) == <<key[r], r>>

FirstOf(S, n) == {r \in S : Cardinality({q \in S : Precedes(Place(q), Place(r))}) < n}
LastOf(S)     == CHOOSE r \in S : \A q \in S \ {r} : Precedes(Place(q), Place(r))

\* decode_cursor and the condition it becomes.
After(place) == {r \in Rows : Listed(r) /\ (place = None \/ Precedes(place, Place(r)))}
\* Candles of the new day are newer than any cursor of the day before.
Beyond(place) == IF list.dates = "today" /\ day # 0 /\ place # None THEN {} ELSE After(place)

\* encode_cursor of the last item, unless the row asked for beyond the page is not there.
FromExtra(S) == IF Cardinality(S) > Limit THEN Place(LastOf(FirstOf(S, Limit + 1))) ELSE None
NextCursor(S) == IF Cardinality(S) > Limit THEN Place(LastOf(FirstOf(S, Limit))) ELSE None

\* LIMIT and OFFSET.
PageAt(offset) ==
  LET all == {r \in Rows : Listed(r)} IN FirstOf(all, offset + Limit) \ FirstOf(all, offset)

Answered(S) == times' = [r \in Rows |-> IF r \in S /\ times[r] < 2 THEN times[r] + 1 ELSE times[r]]

\* The end of the range is today by default, and is part of the cursor of the US candles.
SameScope == list.dates = "bound" => day = 0

CursorPage ==
  /\ walk = "reading" /\ list.by = "cursor"
  /\ IF cursor # None /\ ~SameScope
     THEN walk' = "refused" /\ UNCHANGED <<cursor, times>>
     ELSE LET left == Beyond(cursor) IN
          /\ Answered(FirstOf(left, Limit))
          /\ cursor' = NextCursor(left)
          /\ walk' = IF NextCursor(left) = None THEN "done" ELSE "reading"
  /\ UNCHANGED <<list, key, moved, day>>

\* A page that is not full ends the walk.
OffsetPage ==
  /\ walk = "reading" /\ list.by = "offset"
  /\ LET offset == IF cursor = None THEN 0 ELSE cursor[1]
         page   == PageAt(offset)
     IN /\ Answered(page)
        /\ IF Cardinality(page) = Limit
           THEN cursor' = <<offset + Limit, 0>> /\ UNCHANGED walk
           ELSE walk' = "done" /\ UNCHANGED cursor
  /\ UNCHANGED <<list, key, moved, day>>

-----------------------------------------------------------------------------
(* The client and the writers. *)

\* The first page was answered and another is to come.
Walking == walk = "reading" /\ cursor # None

Rekey(r, k) ==
  /\ key' = [key EXCEPT ![r] = k]
  /\ moved' = moved \cup {r}
  /\ UNCHANGED <<list, walk, cursor, times, day>>

\* A late or amended row, at any place; a new run, before all others.
RowAdded(r) ==
  /\ ~Listed(r)
  /\ \E k \in 1 .. Top :
       /\ list.grows => \A q \in Rows : Listed(q) => Precedes(<<k, r>>, Place(q))
       /\ Rekey(r, k)

\* A symbol is renamed, a transaction date amended, a ticker traded again.
RowMoved(r) ==
  /\ Listed(r) /\ ~list.grows
  /\ \E k \in (1 .. Top) \ {key[r]} : Rekey(r, k)

\* A row no longer satisfies the filters.
RowLeaves(r) ==
  /\ Listed(r) /\ ~list.grows
  /\ Rekey(r, 0)

DayPasses ==
  /\ day = 0
  /\ day' = 1
  /\ UNCHANGED <<list, key, walk, cursor, times, moved>>

\* A client that has finished, or was refused, reads the list anew.
ReadAnew ==
  /\ walk \in {"done", "refused"}
  /\ walk' = "reading" /\ cursor' = None
  /\ times' = [r \in Rows |-> 0]
  /\ moved' = {} /\ day' = 0
  /\ UNCHANGED <<list, key>>

Init ==
  /\ list \in Lists
  /\ key \in [Rows -> 0 .. Top]
  /\ walk = "reading" /\ cursor = None
  /\ times = [r \in Rows |-> 0]
  /\ moved = {} /\ day = 0

Next ==
  \/ CursorPage \/ OffsetPage \/ ReadAnew
  \/ Walking /\ DayPasses
  \/ Walking /\ \E r \in Rows : RowAdded(r) \/ RowMoved(r) \/ RowLeaves(r)

Spec == Init /\ [][Next]_pageVars

TypeOK ==
  /\ list \in Lists /\ key \in [Rows -> 0 .. Top]
  /\ walk \in {"reading", "done", "refused"}
  /\ cursor \in (Nat \X Nat) \cup {None}
  /\ times \in [Rows -> 0 .. 2] /\ moved \in SUBSET Rows /\ day \in {0, 1}

-----------------------------------------------------------------------------
(* Properties. *)

\* A client that follows next_cursor until it is null (docs/API.md, Pagination) has got each row
\* that did not change meanwhile exactly once, whatever came, left or was renamed around it;
\* unless the hub was left to choose the day and midnight passed, which ends the walk early.
CursorWalksComplete ==
  walk = "done" /\ list.by = "cursor" /\ (list.dates = "today" => day = 0) =>
    \A r \in Rows \ moved : times[r] = IF Listed(r) THEN 1 ELSE 0

\* Pages counted by an offset show every old row at least once as long as rows are only added,
\* and exactly once if nothing changed.
OffsetWalksComplete ==
  walk = "done" /\ list.by = "offset" =>
    /\ list.grows => \A r \in Rows \ moved : Listed(r) => times[r] >= 1
    /\ moved = {} => \A r \in Rows : times[r] = IF Listed(r) THEN 1 ELSE 0

WalksComplete == CursorWalksComplete /\ OffsetWalksComplete

=============================================================================
