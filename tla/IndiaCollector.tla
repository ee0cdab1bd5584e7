--------------------------- MODULE IndiaCollector ---------------------------
(***************************************************************************)
(* The India minute collector (scripts/factlab_india_clickhouse_5min.py) in *)
(* its per-series mode, seen from one series among others: configure the   *)
(* universe once a date, recover from the last stored bar once a date, poll *)
(* today's candles while the exchange is open.  Nothing but the stored bars *)
(* says what is missing; the rest of the state dies with the process.      *)
(*                                                                         *)
(* A trading session is named by its AGE: 0 is today's, 1 the last one      *)
(* before today's date, Retention the oldest the model keeps.              *)
(***************************************************************************)
EXTENDS Integers

CONSTANTS
  Retention,  \* oldest session age kept
  Chunk       \* HISTORICAL_CHUNK_DAYS, in sessions

HistoryAssumption == Retention \in Nat \ {0} /\ Chunk \in Nat \ {0}

VARIABLES
  trading,   \* today's date is a trading session
  clock,     \* where today stands: before the open, open, after the close
  listed,    \* universe file and instrument master of today contain the series
  bars,      \* bars[a]: none, a beginning, or all of that session's bars are stored
  older,     \* a session before those of the model has bars
  proc,      \* the process
  short,     \* history: sessions the provider had no candles for when last asked
  caught,    \* history: today a recovery of the series has been completed
  lapsed     \* history: sessions polled on a date without completed recovery

world == <<trading, clock, listed>>
store == <<bars, older>>
known == <<short, caught, lapsed>>
vars  == <<world, store, proc, known>>

Ages   == 0 .. Retention
Past   == 1 .. Retention
Beyond == Retention + 1
Clock  == {"early", "open", "closed"}

Down == [pc |-> "down", active |-> FALSE, configured |-> FALSE, recovered |-> FALSE,
         waiting |-> FALSE, sameDate |-> TRUE, seen |-> "none", from |-> 0, until |-> 1]

Processes ==
  [pc : {"down", "auth", "top", "plan", "fetch", "session", "asleep"},
   active : BOOLEAN,         \* build_series returned the series
   configured : BOOLEAN,     \* configured_for is today
   recovered : BOOLEAN,      \* recovery_completed_for is today
   waiting : BOOLEAN,        \* next_recovery_attempt lies ahead
   sameDate : BOOLEAN,       \* the date read at the top of the loop is still today
   seen : Clock \cup {"none"},  \* the time read there, "none" if there is no session
   from : 0 .. Beyond,       \* first session of the next window, 0 outside a recovery
   until : 1 .. Beyond]      \* end_date

TypeOK ==
  /\ trading \in BOOLEAN
  /\ clock \in Clock
  /\ listed \in BOOLEAN
  /\ bars \in [Ages -> {"none", "part", "full"}]
  /\ older \in BOOLEAN
  /\ proc \in Processes
  /\ short \subseteq Past
  /\ caught \in BOOLEAN
  /\ lapsed \subseteq Past

At(pc) == proc.pc = pc
Go(pc) == [proc EXCEPT !.pc = pc]

-----------------------------------------------------------------------------
(* Start-up and the daily configuration. *)

\* configure_collection_universe before the loop: an exception ends the process.
Start ==
  /\ At("down")
  /\ proc' = [Down EXCEPT !.pc = "auth", !.active = listed, !.configured = TRUE]
  /\ UNCHANGED <<world, store, known>>

\* ensure_token is retried until there is a token; the session adopts later ones.
Authenticate ==
  /\ At("auth")
  /\ proc' = Go("top")
  /\ UNCHANGED <<world, store, known>>

\* The session is looked up under the UTC date, which before the open may be yesterday's.
Seen == IF clock = "early" THEN {"early", "none"}
        ELSE {IF trading THEN clock ELSE "none"}

\* The top of the loop reads the time and, on a new date, configures the universe again;
\* a failure is logged and the series of the day before are kept.
Configure ==
  /\ At("top")
  /\ \E seen \in Seen :
       LET top == [Go("plan") EXCEPT !.sameDate = TRUE, !.seen = seen]
       IN  \/ ~proc.configured /\ proc' = [top EXCEPT !.active = listed, !.configured = TRUE]
           \/ proc' = top
  /\ UNCHANGED <<world, store, known>>

-----------------------------------------------------------------------------
(* recover_historical. *)

Newest(S) == CHOOSE a \in S : \A b \in S : a <= b
Stored    == {a \in Past : bars[a] # "none"}

LastOfAll ==
  IF bars[0] # "none" THEN 0
  ELSE IF Stored # {} THEN Newest(Stored) ELSE IF older THEN Retention ELSE 1

\* The session of latest_candle_times before the last close: today's bars do not count.
\* With nothing stored only the last session is asked for.
LastStored ==
  IF Stored # {} THEN Newest(Stored) ELSE IF older THEN Retention ELSE 1

CompleteByDate(a) == a <= 1 /\ bars[a] # "none"

\* start_date > end_date, or last_timestamp >= expected_last_bar
Complete(a) == a = 0 \/ (a = 1 /\ bars[1] = "full")

\* all: every series of the plan succeeded.  Otherwise the next attempt is set.
Ended(all) ==
  [Go("session") EXCEPT !.recovered = @ \/ (all /\ proc.sameDate),
                        !.waiting = ~all, !.from = 0, !.until = 1]

Due == ~proc.recovered /\ ~proc.waiting

SkipRecovery ==
  /\ At("plan") /\ ~Due
  /\ proc' = Go("session")
  /\ UNCHANGED <<world, store, known>>

\* A series that is current, or not in the universe, is not in the plan.
Plan ==
  /\ At("plan") /\ Due
  /\ IF proc.active /\ ~Complete(LastStored)
     THEN /\ proc' = [Go("fetch") EXCEPT !.from = LastStored, !.until = 1]
          /\ UNCHANGED caught
     ELSE /\ \E all \in BOOLEAN : proc' = Ended(all)
          /\ caught' = (caught \/ proc.active)
  /\ UNCHANGED <<world, store, short, lapsed>>

\* historical_windows: chronological, Chunk sessions each.
Window == {a \in Past : proc.until <= a /\ proc.from - Chunk < a /\ a <= proc.from}

\* fetch_historical_candles and write_candles_1min of one window: the provider has the
\* candles of the sessions got, whatever it has not is not asked for again.
FetchWindow ==
  /\ At("fetch")
  /\ \E got \in SUBSET Window :
       /\ bars' = [a \in Ages |-> IF a \in got THEN "full" ELSE bars[a]]
       /\ short' = (short \ got) \cup (Window \ got)
  /\ IF proc.from - Chunk >= proc.until
     THEN /\ proc' = [proc EXCEPT !.from = @ - Chunk]
          /\ UNCHANGED caught
     ELSE /\ \E all \in BOOLEAN : proc' = Ended(all)
          /\ caught' = (caught \/ proc.sameDate)
  /\ UNCHANGED <<world, older, lapsed>>

\* Planning, the request or the write fails, three other series in a row have failed,
\* or the process is asked to stop.
RecoveryFails ==
  /\ At("fetch") \/ (At("plan") /\ Due)
  /\ proc' = Ended(FALSE)
  /\ UNCHANGED <<world, store, known>>

-----------------------------------------------------------------------------
(* poll_once and the sleeps of the loop. *)

\* The intraday answer holds today's candles from the open on.
Answered ==
  IF ~trading \/ clock = "early" THEN {"none"}
  ELSE IF clock = "closed" THEN {"full"} ELSE {"part", "full"}

Poll ==
  /\ At("session") /\ proc.seen = "open" /\ proc.active
  /\ \E answer \in Answered :
       bars' = [bars EXCEPT ![0] = IF @ = "full" \/ answer = "none" THEN @ ELSE answer]
  /\ proc' = Go("top")
  /\ UNCHANGED <<world, older, known>>

\* The poll fails, returns nothing, or does not include the series; or there is no session
\* and the loop looks again in an hour.
NoPoll ==
  /\ At("session") /\ proc.seen \in {"open", "none"}
  /\ proc' = Go("top")
  /\ UNCHANGED <<world, store, known>>

\* Before the open the loop sleeps until the open, after the close until tomorrow's.
Sleep ==
  /\ At("session") /\ proc.seen \in {"early", "closed"}
  /\ proc' = Go("asleep")
  /\ UNCHANGED <<world, store, known>>

Wake ==
  /\ At("asleep") /\ clock # "early"
  /\ proc.seen = "early" \/ ~proc.sameDate
  /\ proc' = Go("top")
  /\ UNCHANGED <<world, store, known>>

RetryDue ==
  /\ proc.waiting
  /\ proc' = [proc EXCEPT !.waiting = FALSE]
  /\ UNCHANGED <<world, store, known>>

\* The process dies, also by an exception of start_ingestion_run in the loop.
Crash ==
  /\ ~At("down")
  /\ proc' = Down
  /\ UNCHANGED <<world, store, known>>

-----------------------------------------------------------------------------
(* The world. *)

Relist ==
  /\ listed' = ~listed
  /\ UNCHANGED <<trading, clock, store, proc, known>>

ClockAdvances ==
  /\ \/ clock = "early" /\ clock' = "open"
     \/ clock = "open" /\ clock' = "closed"
  /\ UNCHANGED <<trading, listed, store, proc, known>>

Later(S) == {a \in Past : a - 1 \in S}
Uncapped(a) == a + 1
Capped(a) == IF a < Beyond THEN a + 1 ELSE Beyond

\* Midnight in India.  Reading the time and planning takes no day.
NextDay ==
  /\ clock = "closed" /\ ~At("plan")
  /\ clock' = "early"
  /\ trading' \in BOOLEAN
  /\ proc' = [proc EXCEPT !.configured = FALSE, !.recovered = FALSE, !.sameDate = FALSE,
                !.from = IF trading /\ At("fetch") THEN Capped(@) ELSE @,
                !.until = IF trading /\ At("fetch") THEN Capped(@) ELSE @]
  /\ caught' = FALSE
  /\ IF trading
     THEN /\ bars' = [a \in Ages |-> IF a = 0 THEN "none" ELSE bars[a - 1]]
          /\ older' = (older \/ bars[Retention] # "none")
          /\ short' = Later(short)
          /\ lapsed' = Later(lapsed) \cup IF bars[0] # "none" /\ ~caught THEN {1} ELSE {}
     ELSE UNCHANGED <<store, short, lapsed>>
  /\ UNCHANGED listed

-----------------------------------------------------------------------------
Init ==
  /\ trading \in BOOLEAN
  /\ clock = "early"
  /\ listed \in BOOLEAN
  /\ bars = [a \in Ages |-> "none"]
  /\ older = FALSE
  /\ proc = Down
  /\ short = {}
  /\ caught = FALSE
  /\ lapsed = {}

Next ==
  \/ Start \/ Authenticate \/ Configure
  \/ SkipRecovery \/ Plan \/ FetchWindow \/ RecoveryFails
  \/ Poll \/ NoPoll \/ Sleep \/ Wake \/ RetryDue \/ Crash
  \/ Relist \/ ClockAdvances \/ NextDay

Spec == Init /\ [][Next]_vars

-----------------------------------------------------------------------------
(* Properties. *)

\* A session whose bars are missing although the series has bars at least as old.
Hole(a) == bars[a] # "full" /\ (older \/ \E b \in a .. Retention : bars[b] # "none")

\* The provider had nothing, or a later session was polled on a date that ended without
\* a completed recovery, which moved the last stored bar past the hole.
Explained(a) == a \in short \/ \E d \in lapsed : d < a

\* recover_historical looks at the last stored bar only: a hole behind a stored session
\* will never be asked for again.  Crashes, failed or interrupted windows, failed refreshes
\* of the universe and holidays cannot make one by themselves.
HiddenHolesExplained ==
  \A a \in Past : Hole(a) /\ (\E b \in 1 .. a - 1 : bars[b] # "none") => Explained(a)

\* factlab_india_clickhouse_5min.py:357 "Recover every series through the most recently
\* completed NSE session": once the recovery of today is complete, every session up to the
\* last one is stored, save for the holes earlier dates have hidden.
CaughtUp == caught => \A a \in Past : Hole(a) => Explained(a)

=============================================================================
