----------------------------- MODULE UsRecovery -----------------------------
(***************************************************************************)
(* Recovery of one US candle series by the production collector             *)
(* (scripts/factlab_us_clickhouse.py: collect and the run_full loop) over   *)
(* the ClickHouse v2 store (src/factorlab/storage/v2_us.py).                *)
(*                                                                         *)
(* The series is either the daily or the one-minute series of one listing. *)
(* Time is counted in trading sessions and a session is named by its AGE:   *)
(* 0 is today's session, Retention the oldest one the model keeps.  When a  *)
(* day passes every per-session table shifts by one, so the model runs      *)
(* forever on a finite state space.                                        *)
(*                                                                         *)
(* A collect is three durable writes in a row (market.bars,                 *)
(* meta.session_coverage, meta.recovery_state); the process may crash or a  *)
(* call may raise between any two of them.  One collector runs at a time    *)
(* (flock in main), so collects of one series never overlap.               *)
(***************************************************************************)
EXTENDS Integers

CONSTANTS
  Retention,   \* oldest session age kept: the 60-day minute window, the depth of daily history
  Week         \* the seven days of the checkpoint overlap and of the full refresh

ASSUME RetentionAssumption == Retention \in Nat /\ Week \in Nat /\ 1 <= Week /\ Week < Retention

VARIABLES
  resolution,  \* "daily" or "1min"; fixed for a behaviour
  phase,       \* where New York time stands in today's session
  provider,    \* provider[a]: what Schwab answers for the session of age a
  bars,        \* bars[a]: market.bars holds every bar of that session
  cov,         \* cov[a]: the meta.session_coverage row of that session
  st,          \* the meta.recovery_state row of the series
  q,           \* the series in the in-memory queue: out, due now, or waiting for retry_at
  targeted,    \* the loop has queued work for the current daily target / ranking week
  job,         \* the collect in flight, or Idle
  calm         \* days since the last fault (0: faults may still happen)

store == <<bars, cov, st>>
clock == <<phase, provider, calm>>
vars  == <<resolution, phase, provider, bars, cov, st, q, targeted, job, calm>>

Ages   == 0 .. Retention
Older  == Retention + 1            \* checked_through is None or older than the window
NoData == -1                       \* available_from is None
Phases == {"pre", "open", "closing", "post"}
Errors == {"none", "invalid", "gap", "fail"}
CalmCap == Week + 3

Idle == [pc |-> "idle", live |-> FALSE, full |-> FALSE, from |-> 0,
         avail |-> NoData, invalid |-> FALSE, missing |-> FALSE]

States == [hist : BOOLEAN, avail : NoData .. Retention, checked : 0 .. Older,
           refreshed : 0 .. Week + 1, err : Errors]

Jobs == [pc : {"idle", "written", "covered"}, live : BOOLEAN, full : BOOLEAN,
         from : Ages, avail : NoData .. Retention, invalid : BOOLEAN, missing : BOOLEAN]

TypeOK ==
  /\ resolution \in {"daily", "1min"}
  /\ phase \in Phases
  /\ provider \in [Ages -> {"late", "bad", "good"}]
  /\ bars \in [Ages -> BOOLEAN]
  /\ cov \in [Ages -> {"none", "ok", "gap"}]
  /\ st \in States
  /\ q \in {"out", "due", "wait"}
  /\ targeted \in BOOLEAN
  /\ job \in Jobs
  /\ calm \in 0 .. CalmCap

-----------------------------------------------------------------------------
(* Session arithmetic. *)

Oldest(S)     == CHOOSE a \in S : \A b \in S : b <= a
AtMost(a, b)  == IF a <= b THEN a ELSE b
AtLeast(a, b) == IF a >= b THEN a ELSE b
AgedUncapped(a) == a + 1
Aged(a)       == AtMost(a + 1, Retention)

\* us_calendar.latest_completed: the newest session closed for thirty minutes.
LatestCompleted == IF phase = "post" THEN 0 ELSE 1

\* storage.gap_start: the sessions whose coverage row has missing > 0.
GapAges == {a \in Ages : cov[a] = "gap"}

NoHistory(s) == ~s.hist

\* No history yet, or the last full refresh is seven days old to the instant (RefreshFallsDue).
FullDue(s) == ~s.hist \/ s.refreshed > Week

OverlapOnly(s) == IF FullDue(s) THEN Retention ELSE AtMost(s.checked + Week, Retention)

\* The oldest session the next recovery collect asks the provider for.
RecoverFrom(s) ==
  LET overlap == AtMost(s.checked + Week, Retention)
  IN  IF FullDue(s) THEN Retention
      ELSE IF s.err \in {"gap", "fail"} /\ GapAges # {}
           THEN AtLeast(overlap, Oldest(GapAges))
           ELSE overlap

\* The sessions a collect covers: today's for a live poll, else the recovery window.
Window(live, from) == IF live THEN {0} ELSE LatestCompleted .. from

Returned(w) == {a \in w : provider[a] = "good"}
Rejected(w) == {a \in w : provider[a] = "bad"}

\* normalize raises on an invalid minute candle and when no candle survives.
Unusable(w) == Returned(w) = {} \/ (resolution = "1min" /\ Rejected(w) # {})

-----------------------------------------------------------------------------
(* collect: fetch and write candles, record coverage, commit the checkpoint. *)

\* A recovery runs for the head of the queue once its retry_at has passed, a
\* live poll inside the live window.
MayCollect(live) ==
  /\ job = Idle
  /\ IF live THEN resolution = "1min" /\ phase \in {"open", "closing"} ELSE q = "due"

FailedUnrecorded(live, state) ==
  /\ st' = state
  /\ q' = IF live THEN q ELSE "wait"
  /\ job' = Idle

\* The except branch of collect and the retry scheduled by run_full.
Failed(live, state) ==
  /\ st' = [state EXCEPT !.err = "fail"]
  /\ q' = IF live THEN q ELSE "wait"
  /\ job' = Idle

\* Authentication, transport or payload failure, or a write of the candles that stores
\* only some of them.  When the failure cannot be saved either, the row stays as it was.
FetchFails(live) ==
  LET w == Window(live, RecoverFrom(st))
  IN  /\ MayCollect(live)
      /\ calm > 0 => Unusable(w)
      /\ \/ Failed(live, st)
         \/ calm = 0 /\ FailedUnrecorded(live, st)
      /\ \E stored \in SUBSET Returned(w) :
           /\ Unusable(w) \/ live => stored = {}
           /\ bars' = [a \in Ages |-> bars[a] \/ a \in stored]
      /\ UNCHANGED <<resolution, cov, targeted, clock>>

\* The candles are written.  A live poll inside the session stores the minutes so
\* far, which do not make the session complete.
FetchAndWrite(live) ==
  LET w     == Window(live, RecoverFrom(st))
      first == Oldest(Returned(w))
  IN  /\ MayCollect(live)
      /\ ~Unusable(w)
      /\ bars' = [a \in Ages |->
                    bars[a] \/ (a \in Returned(w) /\ ~(live /\ phase = "open"))]
      /\ job' = [pc |-> "written", live |-> live, full |-> FullDue(st),
                 from |-> IF live THEN 0 ELSE RecoverFrom(st),
                 avail |-> AtLeast(st.avail, first),
                 invalid |-> Rejected(w) # {}, missing |-> FALSE]
      /\ UNCHANGED <<resolution, cov, st, q, targeted, clock>>

RecordPresentOnly ==
  LET days == {a \in Window(job.live, job.from) : a <= job.avail /\ bars[a]}
  IN  /\ job.pc = "written"
      /\ cov' = [a \in Ages |-> IF a \in days THEN "ok" ELSE cov[a]]
      /\ job' = [job EXCEPT !.pc = "covered"]
      /\ UNCHANGED <<resolution, bars, st, q, targeted, clock>>

\* storage.coverage: expected against stored bars, from available_from on.  During
\* an open session the minutes so far may or may not be complete.
RecordCoverage ==
  \E soFar \in BOOLEAN :
    LET days       == {a \in Window(job.live, job.from) : a <= job.avail}
        Present(a) == bars[a] \/ (job.live /\ phase = "open" /\ soFar)
    IN  /\ job.pc = "written"
        /\ cov' = [a \in Ages |-> IF a \notin days THEN cov[a]
                                  ELSE IF Present(a) THEN "ok" ELSE "gap"]
        /\ job' = [job EXCEPT !.pc = "covered",
                              !.missing = \E a \in days : ~Present(a)]
        /\ UNCHANGED <<resolution, bars, st, q, targeted, clock>>

\* The recovery_state row a successful collect saves.
Committed(err) ==
  LET done == [st EXCEPT !.avail = job.avail, !.err = err]
  IN  IF job.live THEN done
      ELSE [done EXCEPT !.hist = TRUE, !.checked = LatestCompleted,
                        !.refreshed = IF job.full THEN 0 ELSE @]

\* state["error"]: an invalid-candle note sticks until a full refresh, else the gap.
Outcome ==
  IF job.invalid \/ (~job.full /\ st.err = "invalid") THEN "invalid"
  ELSE IF job.missing THEN "gap" ELSE "none"

\* What run_full does with a collect that returned: the daily queue drops the
\* series, the minute queue keeps it while it has gaps.
Requeued ==
  IF job.live THEN q
  ELSE IF resolution = "1min" /\ job.missing /\ Outcome # "invalid" THEN "wait"
  ELSE "out"

SaveState ==
  /\ job.pc = "covered"
  /\ st' = Committed(Outcome)
  /\ q' = Requeued
  /\ job' = Idle
  /\ UNCHANGED <<resolution, bars, cov, targeted, clock>>

\* Coverage, or the state or run row after it, cannot be written: collect's except
\* branch saves what the state dict holds by then, or cannot save either.
WriteFails ==
  /\ calm = 0
  /\ \/ job.pc = "written" /\ Failed(job.live, [st EXCEPT !.avail = job.avail])
     \/ job.pc = "covered" /\ Failed(job.live, Committed("fail"))
     \/ /\ job.pc \in {"written", "covered"}
        /\ q' = IF job.live THEN q ELSE "wait"
        /\ job' = Idle
        /\ UNCHANGED st
  /\ UNCHANGED <<resolution, bars, cov, targeted, clock>>

-----------------------------------------------------------------------------
(* The run_full loop: what puts the series into the queue. *)

\* pending_daily: no history, an old checkpoint, or an error other than invalid candles.
PendingDaily == ~st.hist \/ st.checked > LatestCompleted \/ st.err \in {"gap", "fail"}

\* A series still held back by retry_at stays so when its queue is rebuilt.
Queued == IF q = "wait" THEN "wait" ELSE "due"

\* A new daily target extends the daily queue.
EnqueueDaily ==
  /\ resolution = "daily" /\ job = Idle /\ ~targeted
  /\ targeted' = TRUE
  /\ q' = IF PendingDaily THEN Queued ELSE q
  /\ UNCHANGED <<resolution, store, job, clock>>

\* select_minute_tier: each ranking replaces the minute queue by the series without history.
RankMinuteTier ==
  /\ resolution = "1min" /\ job = Idle /\ ~targeted
  /\ targeted' = TRUE
  /\ q' = IF st.hist THEN "out" ELSE Queued
  /\ UNCHANGED <<resolution, store, job, clock>>

\* Another listing joins or leaves the universe: the daily queue is rebuilt from the
\* stored states and both target and ranking are forced again.
MembershipChanges ==
  /\ job = Idle
  /\ calm = 0
  /\ targeted' = FALSE
  /\ q' = IF resolution = "1min" THEN q ELSE IF PendingDaily THEN Queued ELSE "out"
  /\ UNCHANGED <<resolution, store, job, clock>>

\* retry_at passes; retry_delay is capped at 24 hours.
RetryDue ==
  /\ q = "wait"
  /\ q' = "due"
  /\ UNCHANGED <<resolution, store, targeted, job, clock>>

\* The process dies and the container is restarted: only the store survives.
Crash ==
  /\ calm = 0
  /\ job' = Idle
  /\ q' = "out"
  /\ targeted' = FALSE
  /\ UNCHANGED <<resolution, store, clock>>

-----------------------------------------------------------------------------
(* The provider and the clock. *)

\* Schwab publishes a session late, or first with invalid candles.
Publish(a) ==
  /\ provider[a] # "good"
  /\ a = 0 => phase # "pre"
  /\ \E v \in {"bad", "good"} : (calm > 0 => v = "good")
                                /\ provider' = [provider EXCEPT ![a] = v]
  /\ UNCHANGED <<resolution, phase, store, q, targeted, job, calm>>

\* From here on no call fails, nothing crashes and the provider is complete.
BecomeCalm ==
  /\ calm = 0 /\ job = Idle
  /\ \A a \in LatestCompleted .. Retention : provider[a] = "good"
  /\ calm' = 1
  /\ UNCHANGED <<resolution, phase, provider, store, q, targeted, job>>

\* A collect is short: one that straddles a boundary uses the time read before it.
SessionAdvances ==
  /\ job = Idle
  /\ \/ phase = "pre" /\ phase' = "open"
     \/ phase = "open" /\ phase' = "closing"
     \/ phase = "closing" /\ phase' = "post"
  /\ targeted' = IF phase' = "post" /\ resolution = "daily" THEN FALSE ELSE targeted
  /\ provider' = IF phase' = "post" /\ calm > 0 THEN [provider EXCEPT ![0] = "good"] ELSE provider
  /\ UNCHANGED <<resolution, store, q, job, calm>>

\* The hour of the last full refresh comes on the seventh day after it.  The model counts the
\* midnights since, so that this may be at any time of that day, or after its collects.
RefreshFallsDue ==
  /\ job = Idle
  /\ st.refreshed = Week
  /\ st' = [st EXCEPT !.refreshed = Week + 1]
  /\ UNCHANGED <<resolution, bars, cov, q, targeted, job, clock>>

Shift(f, fresh) == [a \in Ages |-> IF a = 0 THEN fresh ELSE f[a - 1]]

\* The provider's history does not recede: the oldest age also stands for what is older.
KeepHistory(f) ==
  [f EXCEPT ![Retention] = IF provider[Retention] = "good" THEN "good" ELSE @]

\* Midnight in New York.  On a calm day the loop, which collects one queued series a
\* second, has drained its queue by then.
NextDay ==
  /\ job = Idle /\ phase = "post"
  /\ calm > 0 => targeted /\ q # "due"
  /\ phase' = "pre"
  /\ provider' = KeepHistory(Shift(provider, "late"))
  /\ bars' = Shift(bars, FALSE)
  /\ cov' = Shift(cov, "none")
  /\ st' = [st EXCEPT !.checked = AtMost(@ + 1, Older),
                      !.refreshed = AtMost(@ + 1, Week + 1),
                      !.avail = IF @ = NoData THEN @ ELSE Aged(@)]
  /\ q' = IF q = "wait" THEN "due" ELSE q
  /\ \E sameWeek \in BOOLEAN :
       targeted' = IF resolution = "1min" THEN targeted /\ sameWeek ELSE targeted
  /\ calm' = IF calm = 0 THEN 0 ELSE AtMost(calm + 1, CalmCap)
  /\ UNCHANGED <<resolution, job>>

-----------------------------------------------------------------------------
Init ==
  /\ resolution \in {"daily", "1min"}
  /\ phase = "pre"
  /\ provider \in [Ages -> {"late", "good"}]
  /\ provider[0] = "late"
  /\ bars = [a \in Ages |-> FALSE]
  /\ cov = [a \in Ages |-> "none"]
  /\ st = [hist |-> FALSE, avail |-> NoData, checked |-> Older, refreshed |-> Week + 1,
           err |-> "none"]
  /\ q = "out"
  /\ targeted = FALSE
  /\ job = Idle
  /\ calm = 0

Next ==
  \/ \E live \in BOOLEAN : FetchFails(live) \/ FetchAndWrite(live)
  \/ RecordCoverage
  \/ SaveState
  \/ WriteFails
  \/ EnqueueDaily
  \/ RankMinuteTier
  \/ MembershipChanges
  \/ RetryDue
  \/ Crash
  \/ \E a \in Ages : Publish(a)
  \/ BecomeCalm
  \/ SessionAdvances
  \/ RefreshFallsDue
  \/ NextDay

Spec == Init /\ [][Next]_vars

-----------------------------------------------------------------------------
(* Properties. *)

\* The sessions the next recovery collect will ask for again.
InReach == LatestCompleted .. RecoverFrom(st)

\* A session since available_from whose bars are missing is reported by the series'
\* error or is asked for again by the next recovery.
Accounted(a) == a <= st.avail /\ ~bars[a] => st.err # "none" \/ a \in InReach

\* Daily series: no crash, failed write, late or invalid answer of the provider can
\* leave a missing daily bar that collect neither reports nor asks for again.
DailyNoSilentLoss ==
  resolution = "daily" /\ job = Idle =>
    \A a \in LatestCompleted .. Retention : Accounted(a)

\* docs/data-sources/11-us-schwab-ingestion.md:27, for the minute series: "Missing bars
\* inside available sessions remain visible and are retried while within retention".
\* A minute series with history returns to the queue only from the queue, so a gap in a
\* completed session is retried only while the series is queued, here once the tier is ranked.
MinuteGapRetried ==
  resolution = "1min" /\ job = Idle /\ targeted /\ st.hist =>
    \A a \in LatestCompleted .. st.avail : cov[a] = "gap" => q # "out"

\* checked_through is committed after coverage: every session between available_from
\* and the checkpoint of a daily series has a coverage row, unless a failure is on record.
CheckpointCovered ==
  resolution = "daily" /\ st.hist /\ st.err # "fail" =>
    \A a \in st.checked .. st.avail : cov[a] # "none"

\* The daily store holds every completed session the provider has, whatever failed before:
\* errors, crashes and sticky invalid-candle notes heal.  It takes the days of a fault-free week
\* and two more: a refresh late on the first day is not due yet, early on the seventh after it.
DailyHeals ==
  resolution = "daily" /\ calm = CalmCap =>
    \A a \in (LatestCompleted + 1) .. Retention : bars[a]

=============================================================================
