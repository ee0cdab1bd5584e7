-------------------------- MODULE PoliticalIngest --------------------------
(***************************************************************************)
(* The production political job, scripts/factlab_political_bootstrap.py:    *)
(* each night cron fetches the House Clerk index of the current year,       *)
(* rewrites one alt.political_filings row per listed filing, and parses the *)
(* newest ptr_limit filings into alt.political_trades                       *)
(* (storage/v2_political.py).                                              *)
(*                                                                         *)
(* Filings are named by their rank in filing-date order.  Both tables are   *)
(* ReplacingMergeTrees read FINAL; a trade row is identified by             *)
(* political_trade_id together with entity_id, which comes from matching    *)
(* the ticker against the listings known at the time.  The trades of one    *)
(* filing are taken to match alike.  Cron holds a flock, so runs do not     *)
(* overlap; every call may fail and the job may be killed between calls.   *)
(***************************************************************************)
EXTENDS Integers, FiniteSets

CONSTANTS
  Filings,    \* number of filings in the two years the model covers
  OldYear,    \* the first OldYear of them are filed in the earlier year
  Limit,      \* --ptr-limit: PDFs parsed a night
  MaxTrades   \* most trades in one PDF

ASSUME LimitAssumption ==
  /\ Filings \in Nat /\ OldYear \in 0 .. Filings
  /\ Limit \in Nat /\ Limit >= 1 /\ MaxTrades \in Nat

VARIABLES
  year,       \* the current year: 1 or 2
  published,  \* filings in the House Clerk's yearly indexes
  pdf,        \* pdf[f]: how many trades the parser finds, Unreadable if it raises
  count,      \* count[f]: trade_count of the political_filings row, NoRow without one
  rows,       \* rows[f]: the trades of f are stored with (TRUE), without (FALSE) an entity_id
  run,        \* the job
  status      \* the latest meta.ingestion_runs row

vars == <<year, published, pdf, count, rows, run, status>>

AllFilings == 1 .. Filings
Unreadable == -1
NoRow      == -1
Years      == 1 .. 2
FiledIn(y) == IF y = 1 THEN 1 .. OldYear ELSE (OldYear + 1) .. Filings

Idle == [pc |-> "idle", year |-> 1, listed |-> {}, selected |-> {}, left |-> {}]

TypeOK ==
  /\ year \in Years
  /\ published \in SUBSET AllFilings
  /\ pdf \in [AllFilings -> Unreadable .. MaxTrades]
  /\ count \in [AllFilings -> NoRow .. MaxTrades]
  /\ rows \in [AllFilings -> SUBSET BOOLEAN]
  /\ run \in [pc : {"idle", "index", "filings", "ptr", "trades", "count"}, year : Years,
              listed : SUBSET AllFilings, selected : SUBSET AllFilings, left : SUBSET AllFilings]
  /\ status \in {"none", "running", "success", "partial", "failed"}

-----------------------------------------------------------------------------
(* The job. *)

Sources == <<year, published, pdf>>
Store   == <<count, rows>>

Goto(pc) == run' = [run EXCEPT !.pc = pc]
Ended    == run' = Idle

Oldest(S)   == {f \in S : Cardinality({g \in S : g < f}) < Limit}
Selected(S) == {f \in S : Cardinality({g \in S : g > f}) < Limit}

\* The filing whose PDF is next, or in hand.
Current == CHOOSE f \in run.left : \A g \in run.left : g <= f

\* start_ingestion_run, then the reference sync, which no filing depends on.
StartRun ==
  /\ run.pc = "idle"
  /\ run' = [Idle EXCEPT !.pc = "index", !.year = year]
  /\ status' = "running"
  /\ UNCHANGED <<Sources, Store>>

\* fetch_house_filing_index: the index of the year the run started in.
FetchIndex ==
  /\ run.pc = "index"
  /\ run' = [run EXCEPT !.pc = "filings", !.listed = published \cap FiledIn(run.year)]
  /\ UNCHANGED <<Sources, Store, status>>

\* write_house_filings: a new version of every listed row, with trade_count 0.
WriteFilings ==
  /\ run.pc = "filings"
  /\ count' = [f \in AllFilings |-> IF f \in run.listed THEN 0 ELSE count[f]]
  /\ run' = [run EXCEPT !.pc = "ptr", !.selected = Selected(run.listed),
                        !.left = Selected(run.listed)]
  /\ UNCHANGED <<Sources, rows, status>>

\* What comes after the PDF is parsed, and after its trades are stored.
CountFirst == "count"
AfterParse == "trades"

Readable(f) == pdf[f] # Unreadable

\* fetch_and_parse_ptr for the newest filing left.
FetchAndParse ==
  /\ run.pc = "ptr" /\ run.left # {}
  /\ Readable(Current)
  /\ Goto(AfterParse)
  /\ UNCHANGED <<Sources, Store, status>>

Parsed == run' = [run EXCEPT !.pc = "ptr", !.left = @ \ {Current}]

\* write_trades up to the insert; without trades the filing row is left as it is.  Whether
\* the ticker has exactly one canonical listing depends on what other jobs resolved by then.
WriteTrades ==
  /\ run.pc = "trades"
  /\ IF pdf[Current] = 0
     THEN Parsed /\ UNCHANGED rows
     ELSE /\ Goto("count")
          /\ \E matched \in BOOLEAN : rows' = [rows EXCEPT ![Current] = @ \cup {matched}]
  /\ UNCHANGED <<Sources, count, status>>

OneMore(n) == n + 1
TradeCount(n) == n

\* The rest of write_trades: the filing row again, with its trade_count.
WriteCount ==
  /\ run.pc = "count"
  /\ count' = [count EXCEPT ![Current] = TradeCount(pdf[Current])]
  /\ Parsed
  /\ UNCHANGED <<Sources, rows, status>>

\* finish_ingestion_run: work units short of the limit make the run partial.
Finish ==
  /\ run.pc = "ptr" /\ run.left = {}
  /\ Ended
  /\ status' = IF Cardinality(run.selected) = Limit THEN "success" ELSE "partial"
  /\ UNCHANGED <<Sources, Store>>

\* A reference, index, PDF or store call raises: the whole run fails.
RunFails ==
  /\ run.pc # "idle"
  /\ Ended
  /\ status' = "failed"
  /\ UNCHANGED <<Sources, Store>>

\* The container is killed, or not even the failure can be recorded.
Crash ==
  /\ run.pc # "idle"
  /\ Ended
  /\ UNCHANGED <<Sources, Store, status>>

-----------------------------------------------------------------------------
(* The House Clerk and the calendar. *)

\* A filing appears in its year's index, in any order and also after the year has ended.
Publish(f) ==
  /\ f \notin published
  /\ \E y \in 1 .. year : f \in FiledIn(y)
  /\ published' = published \cup {f}
  /\ UNCHANGED <<year, pdf, Store, run, status>>

NewYear ==
  /\ year = 1
  /\ year' = 2
  /\ UNCHANGED <<published, pdf, Store, run, status>>

-----------------------------------------------------------------------------
Init ==
  /\ year = 1
  /\ published = {}
  /\ pdf \in [AllFilings -> Unreadable .. MaxTrades]
  /\ count = [f \in AllFilings |-> NoRow]
  /\ rows = [f \in AllFilings |-> {}]
  /\ run = Idle
  /\ status = "none"

Next ==
  \/ StartRun \/ FetchIndex \/ WriteFilings
  \/ FetchAndParse \/ WriteTrades \/ WriteCount \/ Finish
  \/ RunFails \/ Crash
  \/ \E f \in AllFilings : Publish(f)
  \/ NewYear

Spec == Init /\ [][Next]_vars

\* The parser raises on the PDF in turn.
Unparsed == run.pc = "ptr" /\ run.left # {} /\ ~Readable(Current)

Job ==
  \/ StartRun \/ FetchIndex \/ WriteFilings
  \/ FetchAndParse \/ WriteTrades \/ WriteCount \/ Finish
  \/ RunFails /\ Unparsed

\* Cron starts the job every night, a run does not hang, and in the end every call works:
\* only PDFs the parser cannot read still fail.
Fairness ==
  /\ WF_vars(Job)
  /\ <>[][~Crash /\ (RunFails => Unparsed)]_vars

FairSpec == Spec /\ Fairness

-----------------------------------------------------------------------------
(* Properties. *)

\* The trade_count of a filing never runs ahead of its trades: a run that dies or fails
\* anywhere leaves a count of zero, or the count of trades that are stored.
CountBacked ==
  \A f \in AllFilings : count[f] > 0 => count[f] = pdf[f] /\ rows[f] # {}

\* The trades of a filing are parsed, stored and counted.
Complete(f) == Readable(f) /\ count[f] = pdf[f] /\ (pdf[f] > 0 => rows[f] # {})

\* A run is recorded as a success only when each of the newest ptr_limit filings of the
\* index it read is completely stored, whatever earlier runs left behind.
SuccessIsComplete ==
  [][ status' = "success" /\ status # "success" =>
        \A f \in run.listed :
          Cardinality({g \in run.listed : g > f}) < Limit => Complete(f) ]_vars

\* Filings the nightly run can get to: among the newest ptr_limit of the current year with
\* no unreadable PDF at or above them.
InReach(f) ==
  LET index == published \cap FiledIn(year)
      newer == {g \in index : g >= f}
  IN  f \in index /\ Cardinality(newer) <= Limit /\ \A g \in newer : Readable(g)

\* A filing that stays in reach is stored, and counted again after every reset.
ReachedIsStored ==
  \A f \in AllFilings : <>[]InReach(f) => []<>Complete(f)

=============================================================================
