----------------------------- MODULE ReadStatus -----------------------------
(***************************************************************************)
(* What the pages of the API say of one market session: whether bars are    *)
(* missing, whether nothing comes any more, whether a series is complete.   *)
(* A page asks several questions, each of the database as it is then, and   *)
(* reads the clock before, between or after them; the collectors write      *)
(* meanwhile, and the universe jobs change what is expected.                *)
(*                                                                         *)
(* A page is the list of its reads; its verdict falls with the last one.    *)
(***************************************************************************)
EXTENDS Integers, Sequences, FiniteSets

CONSTANTS
  Series,  \* the series of the market
  Close,   \* minutes of the session: the minute that begins at time t is t
  Stale    \* an age that is not fresh any more

StatusAssumption ==
  IsFiniteSet(Series) /\ Close \in Nat \ {0} /\ Stale \in Nat

VARIABLES
  market,   \* "IN", "US" or "political": whose pages are read
  clock,    \* 0 before the open, in 1 .. Close within the session
  listed,   \* meta.expected_series, those active
  bars,     \* bars stored of the session's date
  counted,  \* bars that the rows of meta.session_coverage counted
  fed,      \* the time of the last insert, -1 for none
  page,     \* the reads of the page that is served, <<>> if none is
  step,     \* the read it is at
  at,       \* the clock as the page has read it, -1 if it has not
  asked,    \* the expected series as the page has read them
  seen      \* the bars, or those counted, as the page has read them

world   == <<market, clock, listed, bars, counted, fed>>
request == <<page, step, at, asked, seen>>

Minutes == 1 .. Close + 1  \* those that trade, and one after the close
End     == Close + 1       \* when the session is over, and what came after it can be stored

Markets == {"IN", "US", "political"}

-----------------------------------------------------------------------------
(* Pages: their reads in order.  Pages of the same reads are one page, which is held to the *)
(* verdicts of all of them.                                                                 *)

QueriesFirst == <<"series", "clock">>
ClockFirst   == <<"clock", "series">>  \* one query, of the series expected and of the bars
Totals       == <<"clock", "expected", "bars">>
AtOnce       == <<"bars">>             \* one query and no clock

IndiaCoverage     == ClockFirst
IndiaGaps         == ClockFirst
IndiaAnomalies    == ClockFirst
IndiaFreshness    == ClockFirst
IndiaSourceStatus == ClockFirst
HubInstruments    == ClockFirst  \* after the totals of the list, which judge nothing
\* The anomalies of a dashboard are listed as of the clock its totals were judged by.
IndiaDashboard    == Totals
HubOverview       == Totals
\* Two reads of the clock, the first for the date.
IndiaInstrument   == <<"series", "clock">>
\* A page of days without any bar asks again what is expected.
HubDays           == <<"series", "clock", "again">>
\* Full sessions, whatever the time.
IndiaMetrics      == AtOnce
IndiaStats        == AtOnce
IndiaDailyStats   == AtOnce
IndiaActivity     == <<"bars", "bars", "bars">>

UsDashboard   == <<"clock", "expected", "coverage">>
UsInstruments == <<"expected", "coverage", "clock">>
UsDays        == AtOnce

PoliticalFreshness    == ClockFirst
PoliticalSourceStatus == ClockFirst
PoliticalDashboard    == AtOnce
PoliticalCoverage     == AtOnce
PoliticalMetrics      == AtOnce
PoliticalAnomalies    == AtOnce
PoliticalActivity     == <<"bars", "bars", "bars">>
LegislatorSummary     == <<"series", "bars">>
TickerSummary         == <<"bars", "bars", "bars">>

IndiaPages ==
  {IndiaDashboard, IndiaCoverage, IndiaActivity, IndiaFreshness, IndiaGaps, IndiaAnomalies}
StatsPages     == {IndiaStats, IndiaDailyStats}
DrillDownPages == {IndiaMetrics, IndiaInstrument, IndiaSourceStatus}
HubPages       == {HubOverview, HubInstruments, HubDays}
UsPages        == {UsDashboard, UsInstruments, UsDays}
PoliticalPages ==
  {PoliticalDashboard, PoliticalCoverage, PoliticalActivity, PoliticalFreshness,
   PoliticalAnomalies, PoliticalMetrics}
\* The hub has routes of its own to some of them.
HubPoliticalPages == {PoliticalDashboard, PoliticalCoverage, PoliticalMetrics}
PersonPages       == {LegislatorSummary, TickerSummary, PoliticalSourceStatus}

Pages ==
  CASE market = "IN" -> IndiaPages \cup StatsPages \cup DrillDownPages \cup HubPages
    [] market = "US" -> UsPages
    [] OTHER         -> PoliticalPages \cup HubPoliticalPages \cup PersonPages

-----------------------------------------------------------------------------
(* Verdicts of a page that read the clock t, the series E and the bars B. *)

Least(m, n) == IF m < n THEN m ELSE n

\* _session_state counts the minute that is being traded, the pages of the US those over.
Points(t)    == Least(t, Close)
Completed(t) == IF t = 0 THEN 0 ELSE Least(t - 1, Close)

BarsOf(B, s) == {m \in Minutes : <<s, m>> \in B}
Outside(B)   == {b \in B : b[2] > Close} # {}

\* never_seen, stale or delayed, by the newest insert of what the page is about.
Aged(t)   == t - fed > Stale
NotFed(t) == fed = -1 \/ Aged(t)

\* list_coverage's missing_points; missing_series and missing_candles of the anomalies.
SeriesLacks(t, E, B) == \E s \in E : Cardinality(BarsOf(B, s)) < Points(t)
\* list_gaps.
MinuteLacks(t, E, B) == \E s \in E : \E m \in 1 .. Points(t) : <<s, m>> \notin B
\* get_dashboard and get_instrument_summary.
TotalLacks(t, E, B) == Cardinality(B) < Cardinality(E) * Points(t)

Below(percent, t, E, B) ==
  B = {} \/ 100 * Cardinality(B) < percent * Cardinality(E) * Points(t)

\* _quality_result, whose complaint about bars outside the session comes first.
HubLacks(t, E, B) ==
  ~Outside(B) /\ E # {} /\ Points(t) > 0 /\ Below(99, t, E, B)
\* _table_status of the intraday tables, for lack of bars or of inserts.
OverviewComplains(t, E, B) ==
  E # {} /\ t > 0 /\ (Below(IF t > Close THEN 99 ELSE 95, t, E, B) \/ (t <= Close /\ fed # -1 /\ Aged(t)))

\* Coverage rows of the series that are still expected.
UsLacks(t, E, B) ==
  Cardinality({b \in B : b[1] \in listed}) < Cardinality(E) * Completed(t)

\* The state row of a series can only withhold this.
UsComplete(t, s, B) == Completed(t) > 0 /\ Cardinality(BarsOf(B, s)) >= Completed(t)

-----------------------------------------------------------------------------
(* Reads. *)

Reading(op) == page # <<>> /\ page[step] = op

Begin ==
  /\ page = <<>>
  /\ \E p \in Pages : page' = p
  /\ UNCHANGED <<world, step, at, asked, seen>>

Read(op, t, E, B) ==
  /\ Reading(op)
  /\ IF step = Len(page)
     THEN page' = <<>> /\ step' = 1 /\ at' = -1 /\ asked' = {} /\ seen' = {}
     ELSE page' = page /\ step' = step + 1 /\ at' = t /\ asked' = E /\ seen' = B
  /\ UNCHANGED world

ReadClock    == Read("clock", clock, asked, seen)
ReadExpected == Read("expected", at, listed, seen)
ReadBars     == Read("bars", at, asked, bars)
ReadSeries   == Read("series", at, listed, bars)
ReadCoverage == Read("coverage", at, asked, counted)
ReadAgain    == Read("again", at, IF seen = {} THEN listed ELSE asked, seen)

\* The overview goes on without the number of series, and without the bars it says "unknown".
ReadFails ==
  /\ page = HubOverview /\ step > 1
  /\ Read(page[step], at, {}, seen)

-----------------------------------------------------------------------------
(* The world. *)

\* Upstox answers with the minute that is being traded and those after the close; Schwab's
\* normalize keeps the minutes of the session that are over.
Storable ==
  IF market = "US" THEN 1 .. Completed(clock) ELSE {m \in Minutes : m <= clock}

\* Bars are written, or written again.
Collect ==
  /\ \E s \in Series : \E m \in Storable : bars' = bars \cup {<<s, m>>}
  /\ fed' = clock
  /\ UNCHANGED <<market, clock, listed, counted, request>>

\* V2USStorage.coverage counts what is stored of one series.
Count(s) ==
  /\ market = "US"
  /\ counted' = counted \cup {b \in bars : b[1] = s}
  /\ UNCHANGED <<market, clock, listed, bars, fed, request>>

\* The lists of the universe jobs.
Activate(s) ==
  /\ listed' = (listed \ {s}) \cup ({s} \ listed)
  /\ UNCHANGED <<market, clock, bars, counted, fed, request>>

Tick ==
  /\ clock < End
  /\ clock' = clock + 1
  /\ UNCHANGED <<market, listed, bars, counted, fed, request>>

Init ==
  /\ market \in Markets
  /\ clock = 0 /\ listed = Series /\ bars = {} /\ counted = {} /\ fed = -1
  /\ page = <<>> /\ step = 1 /\ at = -1 /\ asked = {} /\ seen = {}

Serve ==
  \/ ReadClock \/ ReadExpected \/ ReadBars \/ ReadSeries \/ ReadCoverage \/ ReadAgain \/ ReadFails

Next ==
  \/ Begin \/ Serve
  \/ Collect \/ Tick
  \/ \E s \in Series : Count(s) \/ Activate(s)

Spec == Init /\ [][Next]_<<world, request>>

TypeOK ==
  /\ market \in Markets /\ clock \in 0 .. End /\ fed \in -1 .. End
  /\ listed \subseteq Series /\ bars \subseteq Series \X Minutes /\ counted \subseteq bars
  /\ page \in Pages \cup {<<>>} /\ step \in 1 .. 3
  /\ at \in -1 .. End /\ asked \subseteq Series /\ seen \subseteq bars

-----------------------------------------------------------------------------
(* Properties. *)

\* What the page has read when its last read is answered now.
Judging   == page # <<>> /\ step = Len(page)
TheClock  == IF Reading("clock") THEN clock ELSE at
TheSeries == IF Reading("expected") \/ Reading("series") THEN listed ELSE asked
TheBars   == IF Reading("bars") \/ Reading("series") THEN bars
             ELSE IF Reading("coverage") THEN counted ELSE seen

Due(E, n, B) == \E s \in E : \E m \in 1 .. n : <<s, m>> \notin B

OneQueryIsTrue(t, E, B) ==
  /\ (SeriesLacks(t, E, B) \/ MinuteLacks(t, E, B) \/ HubLacks(t, E, B)) => Due(E, Points(t), bars)
  /\ NotFed(t) => NotFed(clock)

TotalsAreTrue(t, E, B) ==
  /\ TotalLacks(t, E, B) => Due(E, Points(t), bars)
  /\ OverviewComplains(t, E, B) => (Due(E, Points(t), bars) \/ NotFed(clock))

CoverageIsTrue(t, E, B) ==
  (E \subseteq listed /\ UsLacks(t, E, B)) => Due(E, Completed(t), counted)

\* A page that reads the clock before its queries reports a lack only of what it could not have
\* found: a bar that was due by that clock and is not stored as the last query is answered, or
\* of the US not counted yet, or counted for a series that is no longer expected; and that
\* nothing comes only when nothing has come for that long.
AlarmIsTrue ==
  Judging =>
    /\ page = ClockFirst  => OneQueryIsTrue(TheClock, TheSeries, TheBars)
    /\ page = Totals      => TotalsAreTrue(TheClock, TheSeries, TheBars)
    /\ page = UsDashboard => CoverageIsTrue(TheClock, TheSeries, TheBars)

\* A series that the list of US instruments calls complete has every bar that is due by then:
\* us.py reads the clock after the coverage rows.
ComfortIsTrue ==
  Judging /\ page = UsInstruments =>
    \A s \in asked :
      UsComplete(TheClock, s, TheBars) => ~Due({s}, Completed(TheClock), bars)

VerdictsHold == AlarmIsTrue /\ ComfortIsTrue

=============================================================================
