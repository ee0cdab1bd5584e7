-------------------------- MODULE UsRecoveryProofs --------------------------
(***************************************************************************)
(* Proofs about the recovery of a daily series, for every Retention and     *)
(* Week: type correctness, no silent loss, and that the checkpoint never    *)
(* runs ahead of the coverage rows.                                         *)
(***************************************************************************)
EXTENDS UsRecovery, WellFoundedInduction, TLAPS

-----------------------------------------------------------------------------
(* The oldest session of a non-empty set of ages exists. *)

LessThan == {ss \in Nat \X Nat : ss[1] < ss[2]}

\* Descending chains of naturals end.
LEMMA LessThanWellFounded == IsWellFoundedOn(LessThan, Nat)
BY NatLessThanWellFounded, Zenon DEF OpToRel, LessThan

\* A non-empty set of naturals has a least element.
LEMMA Smallest ==
  ASSUME NEW T \in SUBSET Nat, T # {}
  PROVE  \E x \in T : \A y \in T : x <= y
<1>1. PICK x \in T : \A y \in T : <<y, x>> \notin LessThan
  BY LessThanWellFounded, WFMin, Zenon
<1>2. \A y \in T : y \in Nat /\ <<y, x>> \in Nat \X Nat
  OBVIOUS
<1>3. \A y \in T : ~(y < x)
  BY <1>1, <1>2 DEF LessThan
<1> QED BY <1>2, <1>3

\* Oldest picks a session of the set, and none of the set is older.
LEMMA OldestIsOldest ==
  ASSUME NEW S \in SUBSET Ages, S # {}
  PROVE  Oldest(S) \in S /\ \A b \in S : b <= Oldest(S)
<1> USE RetentionAssumption DEF Ages
<1> DEFINE Younger == {Retention - a : a \in S}
<1>1. \A a \in S : a \in Nat /\ Retention - a \in Nat
  OBVIOUS
<1>2. Younger \in SUBSET Nat /\ Younger # {}
  BY <1>1
<1>3. PICK y \in Younger : \A z \in Younger : y <= z
  BY <1>2, Smallest
<1>4. PICK a \in S : y = Retention - a
  OBVIOUS
<1>5. \A b \in S : Retention - b \in Younger
  OBVIOUS
<1>6. \A b \in S : Retention - a <= Retention - b
  BY <1>3, <1>4, <1>5
<1>7. \A b \in S : b <= a
  BY <1>1, <1>6
<1> QED BY <1>7 DEF Oldest

-----------------------------------------------------------------------------
(* Type correctness. *)

\* The helpers of the model return what the type invariant expects.
LEMMA RecoverFromType ==
  ASSUME TypeOK
  PROVE  /\ LatestCompleted \in 0 .. 1
         /\ GapAges \in SUBSET Ages
         /\ RecoverFrom(st) \in Ages
         /\ FullDue(st) => RecoverFrom(st) = Retention
<1> USE RetentionAssumption DEF Ages, TypeOK, States
<1>1. LatestCompleted \in 0 .. 1
  BY DEF LatestCompleted
<1>2. GapAges \in SUBSET Ages
  BY DEF GapAges
<1>3. GapAges # {} => Oldest(GapAges) \in Ages
  BY <1>2, OldestIsOldest
<1>4. AtMost(st.checked + Week, Retention) \in Ages
  BY DEF AtMost, Older
<1>5. RecoverFrom(st) \in Ages
  BY <1>3, <1>4 DEF RecoverFrom, AtLeast
<1> QED BY <1>1, <1>2, <1>5 DEF RecoverFrom

\* The session collect takes available_from from is one of those it returned.
LEMMA FirstReturned ==
  ASSUME TypeOK, NEW live \in BOOLEAN, ~Unusable(Window(live, RecoverFrom(st)))
  PROVE  LET w == Window(live, RecoverFrom(st))
         IN  /\ w \in SUBSET Ages
             /\ Oldest(Returned(w)) \in Returned(w)
             /\ \A b \in Returned(w) : b <= Oldest(Returned(w))
<1> DEFINE w == Window(live, RecoverFrom(st))
<1>1. w \in SUBSET Ages
  BY RecoverFromType, RetentionAssumption DEF Window, Ages
<1>2. Returned(w) \in SUBSET Ages /\ Returned(w) # {}
  BY <1>1 DEF Returned, Unusable
<1> HIDE DEF w
<1> QED BY <1>1, <1>2, OldestIsOldest DEF w

\* The value of job between collects is a job.
LEMMA IdleType == Idle \in Jobs
BY RetentionAssumption DEF Idle, Jobs, NoData, Ages

\* A fresh database and a fresh process are well typed.
LEMMA InitType == Init => TypeOK
<1> SUFFICES ASSUME Init PROVE TypeOK
  OBVIOUS
<1>1. st \in States
  BY RetentionAssumption DEF Init, States, NoData, Older, Errors
<1>2. provider \in [Ages -> {"late", "bad", "good"}]
  <2>1. \A a \in Ages : provider[a] \in {"late", "bad", "good"}
    BY DEF Init
  <2> QED BY <2>1 DEF Init
<1>3. bars \in [Ages -> BOOLEAN] /\ cov \in [Ages -> {"none", "ok", "gap"}]
  BY DEF Init
<1>4. calm \in 0 .. CalmCap
  BY RetentionAssumption DEF Init, CalmCap
<1>5. job \in Jobs /\ phase \in Phases
  BY IdleType DEF Init, Phases
<1> QED BY <1>1, <1>2, <1>3, <1>4, <1>5 DEF Init, TypeOK

\* One lemma per collect step: each keeps the types.
LEMMA FetchFailsType ==
  ASSUME TypeOK, NEW live \in BOOLEAN, FetchFails(live)
  PROVE  TypeOK'
<1> DEFINE w == Window(live, RecoverFrom(st))
<1>1. PICK stored \in SUBSET Returned(w) : bars' = [a \in Ages |-> bars[a] \/ a \in stored]
  BY DEF FetchFails
<1>2. bars' \in [Ages -> BOOLEAN]
  BY <1>1 DEF TypeOK
<1>3. st' \in States
  BY DEF FetchFails, Failed, FailedUnrecorded, TypeOK, States, Errors
<1>4. q' \in {"out", "due", "wait"} /\ job' \in Jobs
  BY IdleType DEF FetchFails, Failed, FailedUnrecorded, TypeOK
<1> QED BY <1>2, <1>3, <1>4 DEF FetchFails, TypeOK, clock

\* A fetch that answers and is written keeps the types.
LEMMA FetchAndWriteType ==
  ASSUME TypeOK, NEW live \in BOOLEAN, FetchAndWrite(live)
  PROVE  TypeOK'
<1> DEFINE w == Window(live, RecoverFrom(st))
<1>1. ~Unusable(w)
  BY DEF FetchAndWrite
<1>2. Oldest(Returned(w)) \in Ages
  BY <1>1, FirstReturned DEF Returned
<1>3. AtLeast(st.avail, Oldest(Returned(w))) \in Ages
  BY <1>2, RetentionAssumption DEF AtLeast, TypeOK, States, Ages, NoData
<1>4. RecoverFrom(st) \in Ages /\ 0 \in Ages
  BY RecoverFromType, RetentionAssumption DEF Ages
<1>5. FullDue(st) \in BOOLEAN
  BY DEF FullDue
<1> HIDE DEF w
<1>6. job' = [pc |-> "written", live |-> live, full |-> FullDue(st),
              from |-> IF live THEN 0 ELSE RecoverFrom(st),
              avail |-> AtLeast(st.avail, Oldest(Returned(w))),
              invalid |-> Rejected(w) # {}, missing |-> FALSE]
  BY DEF FetchAndWrite, w
<1>7. job' \in Jobs
  BY <1>3, <1>4, <1>5, <1>6, RetentionAssumption DEF Jobs, Ages, NoData
<1>8. bars' \in [Ages -> BOOLEAN]
  <2>1. \E done \in SUBSET Ages : bars' = [a \in Ages |-> bars[a] \/ a \in done]
    <3>1. bars' = [a \in Ages |-> bars[a] \/ (a \in Returned(w) /\ ~(live /\ phase = "open"))]
      BY DEF FetchAndWrite, w
    <3> WITNESS {a \in Ages : a \in Returned(w) /\ ~(live /\ phase = "open")} \in SUBSET Ages
    <3> QED BY <3>1
  <2> QED BY <2>1 DEF TypeOK
<1> QED BY <1>7, <1>8 DEF FetchAndWrite, TypeOK, clock

\* The coverage row of a fetch keeps the types.
LEMMA RecordCoverageType ==
  ASSUME TypeOK, RecordCoverage
  PROVE  TypeOK'
<1>1. cov' \in [Ages -> {"none", "ok", "gap"}]
  BY DEF RecordCoverage, TypeOK
<1>2. job' \in Jobs
  <2>1. PICK m \in BOOLEAN : job' = [job EXCEPT !.pc = "covered", !.missing = m]
    BY DEF RecordCoverage
  <2> QED BY <2>1 DEF TypeOK, Jobs
<1> QED BY <1>1, <1>2 DEF RecordCoverage, TypeOK, clock

\* What is committed is a row of meta.recovery_state.
LEMMA CommittedType ==
  ASSUME TypeOK, NEW err \in Errors
  PROVE  Committed(err) \in States
<1> USE RetentionAssumption DEF TypeOK, States, Jobs, Ages, NoData, Older
<1>1. [st EXCEPT !.avail = job.avail, !.err = err] \in States
  OBVIOUS
<1>2. LatestCompleted \in 0 .. Older
  BY DEF LatestCompleted
<1>3. CASE job.live
  BY <1>1, <1>3 DEF Committed
<1>4. CASE ~job.live
  <2> DEFINE refreshed == IF job.full THEN 0 ELSE st.refreshed
  <2>1. refreshed \in 0 .. Week + 1
    OBVIOUS
  <2> HIDE DEF refreshed
  <2>2. Committed(err) = [hist |-> TRUE, avail |-> job.avail, checked |-> LatestCompleted,
                          refreshed |-> refreshed, err |-> err]
    BY <1>4 DEF Committed, refreshed
  <2> QED BY <1>2, <2>1, <2>2
<1> QED BY <1>3, <1>4

\* The saved state of a run keeps the types.
LEMMA SaveStateType ==
  ASSUME TypeOK, SaveState
  PROVE  TypeOK'
<1>1. Outcome \in Errors
  BY DEF Outcome, Errors
<1>2. st' \in States
  BY <1>1, CommittedType DEF SaveState
<1>3. q' \in {"out", "due", "wait"}
  BY DEF SaveState, Requeued, TypeOK
<1>4. job' \in Jobs
  BY IdleType DEF SaveState
<1> QED BY <1>2, <1>3, <1>4 DEF SaveState, TypeOK, clock

\* A write that fails keeps the types.
LEMMA WriteFailsType ==
  ASSUME TypeOK, WriteFails
  PROVE  TypeOK'
<1>1. "fail" \in Errors
  BY DEF Errors
<1>2. Committed("fail") \in States
  BY <1>1, CommittedType
<1>3. [st EXCEPT !.avail = job.avail] \in States
  BY DEF TypeOK, States, Jobs
<1>4. st' \in States
  BY <1>1, <1>2, <1>3 DEF WriteFails, Failed, TypeOK, States
<1>5. q' \in {"out", "due", "wait"} /\ job' = Idle
  BY DEF WriteFails, Failed, TypeOK
<1>6. job' \in Jobs
  BY <1>5, IdleType
<1> QED BY <1>4, <1>5, <1>6 DEF WriteFails, TypeOK, clock

\* The steps of the queue, the process and the clock.
LEMMA LoopType ==
  ASSUME TypeOK,
         \/ EnqueueDaily \/ RankMinuteTier \/ MembershipChanges \/ RetryDue \/ Crash
         \/ \E a \in Ages : Publish(a)
         \/ BecomeCalm \/ SessionAdvances \/ RefreshFallsDue
  PROVE  TypeOK'
<1> USE RetentionAssumption DEF TypeOK, clock, store
<1>1. CASE EnqueueDaily
  BY <1>1 DEF EnqueueDaily, Queued
<1>2. CASE RankMinuteTier
  BY <1>2 DEF RankMinuteTier, Queued
<1>3. CASE MembershipChanges
  BY <1>3 DEF MembershipChanges, Queued
<1>4. CASE RetryDue
  BY <1>4 DEF RetryDue
<1>5. CASE Crash
  BY <1>5, IdleType DEF Crash
<1>6. ASSUME NEW a \in Ages, Publish(a) PROVE TypeOK'
  <2>1. PICK v \in {"bad", "good"} : provider' = [provider EXCEPT ![a] = v]
    BY <1>6 DEF Publish
  <2> QED BY <1>6, <2>1 DEF Publish
<1>7. CASE BecomeCalm
  BY <1>7 DEF BecomeCalm, CalmCap
<1>8. CASE SessionAdvances
  <2>1. phase' \in Phases
    BY <1>8 DEF SessionAdvances, Phases
  <2>2. provider' \in [Ages -> {"late", "bad", "good"}]
    BY <1>8 DEF SessionAdvances
  <2>3. targeted' \in BOOLEAN
    BY <1>8 DEF SessionAdvances
  <2> QED BY <1>8, <2>1, <2>2, <2>3 DEF SessionAdvances
<1>9. CASE RefreshFallsDue
  BY <1>9 DEF RefreshFallsDue, States
<1> QED BY <1>1, <1>2, <1>3, <1>4, <1>5, <1>6, <1>7, <1>8, <1>9

\* What NextDay shifts keeps its type.
LEMMA ShiftType ==
  ASSUME NEW T, NEW fresh \in T, NEW f \in [Ages -> T]
  PROVE  Shift(f, fresh) \in [Ages -> T]
BY RetentionAssumption DEF Shift, Ages

\* A day that passes keeps the types: every session is one day older.
LEMMA NextDayType ==
  ASSUME TypeOK, NextDay
  PROVE  TypeOK'
<1> USE RetentionAssumption DEF TypeOK
<1>1. bars' \in [Ages -> BOOLEAN]
  BY ShiftType DEF NextDay
<1>2. cov' \in [Ages -> {"none", "ok", "gap"}]
  BY ShiftType DEF NextDay
<1>3. provider' \in [Ages -> {"late", "bad", "good"}]
  <2>1. Shift(provider, "late") \in [Ages -> {"late", "bad", "good"}]
    BY ShiftType
  <2> QED BY <2>1 DEF NextDay, KeepHistory
<1>4. st' \in States
  <2>1. AtMost(st.checked + 1, Older) \in 0 .. Older /\ AtMost(st.refreshed + 1, Week + 1) \in 0 .. Week + 1
    BY DEF States, AtMost, Older
  <2>2. (IF st.avail = NoData THEN st.avail ELSE Aged(st.avail)) \in NoData .. Retention
    BY DEF States, AtMost, Aged, NoData
  <2> QED BY <2>1, <2>2 DEF NextDay, States
<1>5. calm' \in 0 .. CalmCap /\ phase' \in Phases /\ targeted' \in BOOLEAN
  BY DEF NextDay, CalmCap, AtMost, Phases
<1> QED BY <1>1, <1>2, <1>3, <1>4, <1>5 DEF NextDay

\* Every step keeps the types.
LEMMA StepType == TypeOK /\ [Next]_vars => TypeOK'
<1> SUFFICES ASSUME TypeOK, [Next]_vars PROVE TypeOK'
  OBVIOUS
<1>1. CASE UNCHANGED vars
  BY <1>1 DEF vars, TypeOK
<1>2. CASE Next
  BY <1>2, FetchFailsType, FetchAndWriteType, RecordCoverageType, SaveStateType, WriteFailsType,
     LoopType, NextDayType DEF Next
<1> QED BY <1>1, <1>2

\* Every value the collector stores, queues or carries stays in its type.
THEOREM TypeCorrect == Spec => []TypeOK
BY InitType, StepType, PTL DEF Spec

-----------------------------------------------------------------------------
(* The inductive invariant of the daily series. *)

\* The ages an incremental collect asks for without being told of a gap.
Overlap == st.checked + Week

\* Sessions older than the overlap are stored or known to be gaps.
OlderKnown ==
  ~FullDue(st) =>
    \A a \in Ages : a > Overlap /\ a <= st.avail =>
      /\ cov[a] # "none"
      /\ bars[a] \/ cov[a] = "gap"

\* With no error on record they are stored.
OlderStored ==
  ~FullDue(st) /\ st.err = "none" =>
    \A a \in Ages : a > Overlap /\ a <= st.avail => bars[a]

\* Gaps are completed sessions at or after some session the provider has.
GapsPublished ==
  \A a \in GapAges :
    /\ a >= LatestCompleted
    /\ \E b \in a .. Retention : provider[b] = "good"

\* A gap older than available_from is left by a collect that never saved its state; the
\* next collect finds the session that moved available_from inside the overlap.
GapsReachable ==
  ~FullDue(st) =>
    \A a \in GapAges :
      \/ a <= st.avail
      \/ \E b \in a .. Retention : b <= Overlap /\ provider[b] = "good"

\* available_from is a session the provider has, or has older ones.
AvailPublished == st.avail # NoData => \E b \in st.avail .. Retention : provider[b] = "good"

\* What a collect in flight knows.
JobSound ==
  job # Idle =>
    /\ ~job.live
    /\ job.full = FullDue(st)
    /\ job.full => job.from = Retention
    /\ ~job.full => /\ \A a \in Ages : a > job.from => a > Overlap
                    /\ job.from <= Overlap \/ job.from <= st.avail
    /\ job.avail = st.avail \/ /\ st.avail < job.avail
                               /\ job.avail <= job.from
                               /\ provider[job.avail] = "good"
    /\ \A a \in GapAges : a <= job.avail
    /\ ~job.full /\ st.err # "invalid" =>
         \A a \in Ages : a > job.from /\ a <= job.avail => bars[a]

\* After coverage: the rows of the window tell which sessions are stored.
JobCovered ==
  job.pc = "covered" =>
    \A a \in LatestCompleted .. job.from : a <= job.avail =>
      /\ cov[a] # "none"
      /\ bars[a] \/ (cov[a] = "gap" /\ job.missing)

DailyInv ==
  /\ OlderKnown /\ OlderStored /\ GapsPublished /\ GapsReachable /\ AvailPublished
  /\ CheckpointCovered /\ JobSound /\ JobCovered

\* The inductive invariant.
IInv == TypeOK /\ (resolution = "daily" => DailyInv)

-----------------------------------------------------------------------------
(* The invariant holds initially and is kept by every step. *)

\* With no history, no coverage and no collect in flight the invariant holds.
LEMMA InitInv == Init => IInv
<1> SUFFICES ASSUME Init PROVE IInv
  OBVIOUS
<1>1. GapAges = {}
  BY DEF Init, GapAges
<1>2. FullDue(st) /\ ~st.hist /\ st.avail = NoData
  BY DEF Init, FullDue
<1>3. JobSound /\ JobCovered
  BY DEF Init, JobSound, JobCovered, Idle
<1> QED
  BY <1>1, <1>2, <1>3, InitType
     DEF IInv, DailyInv, OlderKnown, OlderStored, GapsPublished, GapsReachable, AvailPublished,
         CheckpointCovered

\* An incremental collect reaches back over the overlap and to the oldest known gap, and
\* what lies beyond its window is stored unless the error says otherwise.
LEMMA DailyWindow ==
  ASSUME TypeOK, resolution = "daily", DailyInv, ~FullDue(st)
  PROVE  /\ \A a \in Ages : a > RecoverFrom(st) => a > Overlap
         /\ RecoverFrom(st) <= Overlap \/ RecoverFrom(st) <= st.avail
         /\ st.err # "invalid" =>
              \A a \in Ages : a > RecoverFrom(st) /\ a <= st.avail => bars[a]
<1> USE RetentionAssumption
<1>0. /\ st.checked \in 0 .. Older /\ st.avail \in NoData .. Retention /\ st.err \in Errors
      /\ GapAges \in SUBSET Ages
  BY DEF TypeOK, States, GapAges
<1>1. CASE st.err \in {"gap", "fail"} /\ GapAges # {}
  <2> DEFINE g == Oldest(GapAges)
  <2>1. g \in GapAges /\ \A b \in GapAges : b <= g
    BY <1>0, <1>1, OldestIsOldest
  <2>2. g \in Ages
    BY <1>0, <2>1
  <2> HIDE DEF g
  <2>3. RecoverFrom(st) = AtLeast(AtMost(Overlap, Retention), g)
    BY <1>1 DEF RecoverFrom, Overlap, g
  <2>4. g <= st.avail \/ g <= Overlap
    BY <1>0, <2>1, <2>2 DEF DailyInv, GapsReachable, Ages, Overlap, Older
  <2>5. \A a \in Ages : a > RecoverFrom(st) => a > Overlap /\ a > g
    BY <1>0, <2>2, <2>3 DEF AtLeast, AtMost, Ages, Overlap, Older
  <2>6. RecoverFrom(st) <= Overlap \/ RecoverFrom(st) <= st.avail
    BY <1>0, <2>2, <2>3, <2>4 DEF AtLeast, AtMost, Ages, Overlap, Older, NoData
  <2>7. \A a \in Ages : a > g => cov[a] # "gap"
    BY <2>1, <2>2 DEF GapAges, Ages
  <2>8. \A a \in Ages : a > RecoverFrom(st) /\ a <= st.avail => bars[a]
    BY <2>5, <2>7 DEF DailyInv, OlderKnown
  <2> QED BY <2>5, <2>6, <2>8
<1>2. CASE ~(st.err \in {"gap", "fail"} /\ GapAges # {})
  <2>1. RecoverFrom(st) = AtMost(Overlap, Retention)
    BY <1>2 DEF RecoverFrom, Overlap
  <2>2. \A a \in Ages : a > RecoverFrom(st) => a > Overlap
    BY <1>0, <2>1 DEF AtMost, Ages, Overlap, Older
  <2>3. RecoverFrom(st) <= Overlap
    BY <1>0, <2>1 DEF AtMost, Overlap, Older
  <2>4. CASE st.err = "none"
    BY <2>2, <2>3, <2>4 DEF DailyInv, OlderStored
  <2>5. CASE st.err \in {"gap", "fail"}
    <3>1. \A a \in Ages : cov[a] # "gap"
      BY <1>2, <2>5 DEF GapAges
    <3> QED BY <2>2, <2>3, <3>1 DEF DailyInv, OlderKnown
  <2> QED BY <1>0, <2>2, <2>3, <2>4, <2>5 DEF Errors
<1> QED BY <1>1, <1>2

\* A step that writes neither coverage nor the checkpoint: bars may appear, the provider
\* may publish, and the row may at most be marked failed with the collect abandoned.
LEMMA QuietStep ==
  ASSUME TypeOK, resolution = "daily", DailyInv, phase' = phase, cov' = cov, resolution' = resolution,
         \A a \in Ages : bars[a] => bars'[a],
         \A a \in Ages : provider[a] = "good" => provider'[a] = "good",
         \/ st' = st /\ (job' = job \/ job' = Idle)
         \/ st' = [st EXCEPT !.err = "fail"] /\ job' = Idle
  PROVE  DailyInv'
<1>1. LatestCompleted' = LatestCompleted /\ GapAges' = GapAges
  BY DEF LatestCompleted, GapAges
<1>2. /\ st'.hist = st.hist /\ st'.avail = st.avail /\ st'.checked = st.checked
      /\ st'.refreshed = st.refreshed /\ (st'.err = st.err \/ st'.err = "fail")
  BY DEF TypeOK, States
<1>3. FullDue(st') = FullDue(st) /\ Overlap' = Overlap
  BY <1>2 DEF FullDue, Overlap
<1>4. OlderKnown' /\ OlderStored'
  BY <1>2, <1>3 DEF DailyInv, OlderKnown, OlderStored
<1>5. GapsPublished' /\ GapsReachable' /\ AvailPublished'
  <2>1. GapAges \in SUBSET Ages /\ st.avail \in NoData .. Retention
    BY DEF GapAges, TypeOK, States
  <2>2. \A b \in Ages : provider[b] = "good" => provider'[b] = "good"
    OBVIOUS
  <2>3. GapsPublished'
    BY <1>1, <2>1, <2>2, RetentionAssumption DEF DailyInv, GapsPublished, Ages
  <2>4. GapsReachable'
    BY <1>1, <1>2, <1>3, <2>1, <2>2, RetentionAssumption DEF DailyInv, GapsReachable, Ages
  <2>5. AvailPublished'
    BY <1>2, <2>1, <2>2, RetentionAssumption DEF DailyInv, AvailPublished, Ages, NoData
  <2> QED BY <2>3, <2>4, <2>5
<1>6. CheckpointCovered'
  BY <1>2 DEF DailyInv, CheckpointCovered
<1>7. CASE job' = Idle
  BY <1>4, <1>5, <1>6, <1>7 DEF DailyInv, JobSound, JobCovered, Idle
<1>8. CASE st' = st /\ job' = job /\ job # Idle
  <2>1. job.avail \in NoData .. Retention /\ st.avail \in NoData .. Retention
    BY DEF TypeOK, States, Jobs
  <2>2. st.avail < job.avail => job.avail \in Ages
    BY <2>1 DEF Ages, NoData
  <2>3. JobSound
    BY DEF DailyInv
  <2>4. /\ ~job'.live /\ job'.full = FullDue(st') /\ (job'.full => job'.from = Retention)
        /\ ~job'.full => /\ \A a \in Ages : a > job'.from => a > Overlap'
                         /\ job'.from <= Overlap' \/ job'.from <= st'.avail
    BY <1>3, <1>8, <2>3 DEF JobSound
  <2>5. job'.avail = st'.avail \/ /\ st'.avail < job'.avail
                                  /\ job'.avail <= job'.from
                                  /\ provider'[job'.avail] = "good"
    BY <1>8, <2>2, <2>3 DEF JobSound
  <2>6. \A a \in GapAges' : a <= job'.avail
    BY <1>1, <1>8, <2>3 DEF JobSound
  <2>7. ~job'.full /\ st'.err # "invalid" =>
          \A a \in Ages : a > job'.from /\ a <= job'.avail => bars'[a]
    BY <1>8, <2>3 DEF JobSound
  <2>8. JobSound'
    BY <2>4, <2>5, <2>6, <2>7 DEF JobSound
  <2>9. JobCovered'
    <3>1. \A a \in LatestCompleted .. job.from : a \in Ages
      BY RecoverFromType, RetentionAssumption DEF TypeOK, Jobs, Ages
    <3> QED BY <1>1, <1>8, <3>1 DEF DailyInv, JobCovered
  <2> QED BY <1>4, <1>5, <1>6, <2>8, <2>9 DEF DailyInv
<1> QED BY <1>7, <1>8

\* Fetching and writing the candles starts a sound collect.
LEMMA FetchAndWriteInv ==
  ASSUME TypeOK, TypeOK', resolution = "daily", DailyInv, FetchAndWrite(FALSE)
  PROVE  DailyInv'
<1> DEFINE w == LatestCompleted .. RecoverFrom(st)
           first == Oldest(Returned(w))
<1> USE RetentionAssumption
<1>1. Window(FALSE, RecoverFrom(st)) = w
  BY DEF Window
<1>2. /\ ~Unusable(w)
      /\ st' = st /\ cov' = cov /\ phase' = phase /\ provider' = provider
      /\ job' = [pc |-> "written", live |-> FALSE, full |-> FullDue(st), from |-> RecoverFrom(st),
                 avail |-> AtLeast(st.avail, first), invalid |-> Rejected(w) # {},
                 missing |-> FALSE]
      /\ bars' = [a \in Ages |-> bars[a] \/ a \in Returned(w)]
  BY <1>1 DEF FetchAndWrite, clock
<1>3. /\ first \in Returned(w)
      /\ \A b \in Returned(w) : b <= first
      /\ w \in SUBSET Ages
  BY <1>1, <1>2, FirstReturned
<1>4. first \in w /\ provider[first] = "good" /\ first \in Ages /\ first <= RecoverFrom(st)
  BY <1>3, RecoverFromType DEF Returned, Ages
<1>5. /\ st.avail \in NoData .. Retention /\ RecoverFrom(st) \in Ages /\ LatestCompleted \in 0 .. 1
      /\ GapAges \in SUBSET Ages
      /\ FullDue(st) => RecoverFrom(st) = Retention
  BY RecoverFromType DEF TypeOK, States
<1>6. \A b \in LatestCompleted .. RecoverFrom(st) : provider[b] = "good" => b <= first
  BY <1>3 DEF Returned
<1> HIDE DEF first
<1> DEFINE avail == AtLeast(st.avail, first)
<1>7. /\ avail \in Ages /\ st.avail <= avail /\ first <= avail
      /\ avail = st.avail \/ (st.avail < avail /\ avail = first)
  BY <1>4, <1>5 DEF AtLeast, Ages, NoData
<1> HIDE DEF avail
<1>8. \A a \in GapAges : a <= avail
  <2> SUFFICES ASSUME NEW a \in GapAges PROVE a <= avail
    OBVIOUS
  <2>1. a \in Ages /\ a >= LatestCompleted
    BY <1>5 DEF DailyInv, GapsPublished
  <2>2. CASE FullDue(st)
    <3>1. PICK b \in a .. Retention : provider[b] = "good"
      BY DEF DailyInv, GapsPublished
    <3>2. b \in LatestCompleted .. RecoverFrom(st)
      BY <1>5, <2>1, <2>2, <3>1 DEF Ages
    <3>3. b <= first
      BY <1>6, <3>1, <3>2
    <3> QED BY <1>4, <1>7, <2>1, <3>1, <3>3 DEF Ages
  <2>3. CASE ~FullDue(st)
    <3>1. CASE a <= st.avail
      BY <1>5, <1>7, <2>1, <3>1 DEF Ages, NoData
    <3>2. CASE ~(a <= st.avail)
      <4>1. PICK b \in a .. Retention : b <= Overlap /\ provider[b] = "good"
        BY <2>3, <3>2 DEF DailyInv, GapsReachable
      <4>2. b \in Ages
        BY <2>1, <4>1 DEF Ages
      <4>3. ~(b > RecoverFrom(st))
        BY <2>3, <4>1, <4>2, DailyWindow DEF Ages, Overlap, TypeOK, States, Older
      <4>4. b \in LatestCompleted .. RecoverFrom(st)
        BY <1>5, <2>1, <4>1, <4>3 DEF Ages
      <4>5. b <= first
        BY <1>6, <4>1, <4>4
      <4> QED BY <1>4, <1>7, <2>1, <4>2, <4>5, <4>1 DEF Ages
    <3> QED BY <3>1, <3>2
  <2> QED BY <2>2, <2>3
<1>9. GapAges' = GapAges /\ FullDue(st') = FullDue(st) /\ Overlap' = Overlap
  BY <1>2 DEF GapAges, Overlap
<1>10. /\ job'.live = FALSE /\ job'.full = FullDue(st) /\ job'.from = RecoverFrom(st)
       /\ job'.avail = avail /\ job'.pc = "written"
  BY <1>2 DEF avail
<1>11. \A a \in Ages : bars[a] => bars'[a]
  BY <1>2
<1>12. JobSound'
  <2>1. ~job'.full => /\ \A a \in Ages : a > job'.from => a > Overlap
                      /\ job'.from <= Overlap \/ job'.from <= st.avail
    BY <1>10, DailyWindow
  <2>2. ~job'.full /\ st.err # "invalid" =>
          \A a \in Ages : a > job'.from /\ a <= job'.avail => bars'[a]
    <3> SUFFICES ASSUME ~job'.full, st.err # "invalid", NEW a \in Ages, a > RecoverFrom(st), a <= avail
                 PROVE  bars'[a]
      BY <1>10
    <3>1. a <= st.avail
      BY <1>4, <1>5, <1>7 DEF Ages, NoData
    <3> QED BY <1>10, <1>11, <3>1, DailyWindow
  <2>3. avail = st.avail \/ (st.avail < avail /\ avail <= RecoverFrom(st) /\ provider[avail] = "good")
    BY <1>4, <1>7
  <2> QED BY <1>2, <1>5, <1>8, <1>9, <1>10, <2>1, <2>2, <2>3 DEF JobSound
<1>13. JobCovered'
  BY <1>10 DEF JobCovered
<1>14. OlderKnown' /\ OlderStored'
  BY <1>2, <1>9, <1>11 DEF DailyInv, OlderKnown, OlderStored
<1>15. GapsPublished' /\ GapsReachable' /\ AvailPublished' /\ CheckpointCovered'
  BY <1>2, <1>9 DEF DailyInv, GapsPublished, GapsReachable, AvailPublished, CheckpointCovered,
                    LatestCompleted, FetchAndWrite
<1> QED BY <1>12, <1>13, <1>14, <1>15 DEF DailyInv

\* Recording coverage tells, for every session of the window, whether it is stored.
LEMMA RecordCoverageInv ==
  ASSUME TypeOK, TypeOK', resolution = "daily", DailyInv, RecordCoverage
  PROVE  DailyInv'
<1> USE RetentionAssumption
<1> DEFINE days == {a \in LatestCompleted .. job.from : a <= job.avail}
<1>1. job.pc = "written" /\ job # Idle /\ JobSound
  BY DEF RecordCoverage, DailyInv, Idle
<1>2. ~job.live
  BY <1>1 DEF JobSound
<1>3. PICK soFar \in BOOLEAN :
        LET D          == {a \in Window(job.live, job.from) : a <= job.avail}
            Present(a) == bars[a] \/ (job.live /\ phase = "open" /\ soFar)
        IN  /\ cov' = [a \in Ages |-> IF a \notin D THEN cov[a]
                                      ELSE IF Present(a) THEN "ok" ELSE "gap"]
            /\ job' = [job EXCEPT !.pc = "covered", !.missing = \E a \in D : ~Present(a)]
            /\ UNCHANGED <<resolution, bars, st, q, targeted, clock>>
  BY DEF RecordCoverage
<1>4. /\ cov' = [a \in Ages |-> IF a \notin days THEN cov[a]
                                ELSE IF bars[a] THEN "ok" ELSE "gap"]
      /\ job' = [job EXCEPT !.pc = "covered", !.missing = \E a \in days : ~bars[a]]
      /\ bars' = bars /\ st' = st /\ phase' = phase /\ provider' = provider
  BY <1>2, <1>3 DEF Window, clock
<1>5. /\ job'.pc = "covered" /\ job'.live = job.live /\ job'.full = job.full
      /\ job'.from = job.from /\ job'.avail = job.avail
      /\ job'.missing = (\E a \in days : ~bars[a])
  BY <1>4 DEF TypeOK, Jobs
<1>6. /\ st.avail \in NoData .. Retention /\ job.avail \in NoData .. Retention
      /\ job.from \in Ages /\ LatestCompleted \in 0 .. 1 /\ GapAges \in SUBSET Ages
      /\ days \in SUBSET Ages /\ st.checked \in 0 .. Older
  BY RecoverFromType DEF TypeOK, States, Jobs, Ages
<1>7. \A a \in Ages : cov'[a] = IF a \notin days THEN cov[a] ELSE IF bars[a] THEN "ok" ELSE "gap"
  BY <1>4
<1>8. \A a \in GapAges' : a \in GapAges \/ (a \in days /\ ~bars[a])
  BY <1>7 DEF GapAges
<1>9. LatestCompleted' = LatestCompleted /\ FullDue(st') = FullDue(st) /\ Overlap' = Overlap
  BY <1>4 DEF LatestCompleted, Overlap
<1>10. \A a \in days : a \in Ages /\ a <= job.avail /\ a >= LatestCompleted /\ a <= job.from
  BY <1>6 DEF Ages
<1>11. OlderKnown' /\ OlderStored'
  BY <1>4, <1>7, <1>9 DEF DailyInv, OlderKnown, OlderStored
<1>12. job.avail # NoData => \E b \in job.avail .. Retention : provider[b] = "good"
  <2>1. CASE job.avail = st.avail
    BY <2>1 DEF DailyInv, AvailPublished
  <2>2. CASE job.avail # st.avail
    BY <1>1, <1>6, <2>2 DEF JobSound, NoData
  <2> QED BY <2>1, <2>2
<1>13. GapsPublished'
  <2> SUFFICES ASSUME NEW a \in GapAges'
               PROVE  a >= LatestCompleted /\ \E b \in a .. Retention : provider[b] = "good"
    BY <1>4, <1>9 DEF GapsPublished
  <2>1. CASE a \in GapAges
    BY <2>1 DEF DailyInv, GapsPublished
  <2>2. CASE a \in days
    <3>1. a \in Ages /\ a <= job.avail /\ a >= LatestCompleted
      BY <1>10, <2>2
    <3>2. PICK b \in job.avail .. Retention : provider[b] = "good"
      BY <1>6, <1>12, <3>1 DEF Ages, NoData
    <3>3. b \in a .. Retention
      BY <1>6, <3>1, <3>2 DEF Ages, NoData
    <3> QED BY <3>1, <3>2, <3>3
  <2> QED BY <1>8, <2>1, <2>2
<1>14. GapsReachable'
  <2> SUFFICES ASSUME ~FullDue(st), NEW a \in GapAges'
               PROVE  a <= st.avail \/ \E b \in a .. Retention : b <= Overlap /\ provider[b] = "good"
    BY <1>4, <1>9 DEF GapsReachable
  <2>1. CASE a \in GapAges
    BY <2>1 DEF DailyInv, GapsReachable
  <2>2. CASE a \in days
    <3>1. a \in Ages /\ a <= job.avail /\ a <= job.from
      BY <1>10, <2>2
    <3>2. ~job.full
      BY <1>1 DEF JobSound
    <3>3. CASE job.from <= st.avail
      BY <1>6, <3>1, <3>3 DEF Ages, NoData
    <3>4. CASE job.from <= Overlap /\ job.avail # st.avail
      <4>1. job.avail \in a .. Retention /\ job.avail <= Overlap /\ provider[job.avail] = "good"
        BY <1>1, <1>6, <3>1, <3>4 DEF JobSound, Ages, NoData, Overlap, Older
      <4> QED BY <4>1
    <3>5. CASE job.avail = st.avail
      BY <3>1, <3>5
    <3> QED BY <1>1, <3>2, <3>3, <3>4, <3>5 DEF JobSound
  <2> QED BY <1>8, <2>1, <2>2
<1>15. AvailPublished'
  BY <1>4 DEF DailyInv, AvailPublished
<1>16. CheckpointCovered'
  <2>1. \A a \in st.checked .. st.avail : a \in Ages
    BY <1>6 DEF Ages, NoData, Older
  <2> QED BY <1>4, <1>7, <2>1 DEF DailyInv, CheckpointCovered
<1>17. JobSound'
  <2>1. \A a \in GapAges' : a <= job.avail
    BY <1>1, <1>8, <1>10 DEF JobSound
  <2> QED BY <1>1, <1>4, <1>5, <1>9, <2>1 DEF JobSound
<1>18. JobCovered'
  <2> SUFFICES ASSUME NEW a \in LatestCompleted .. job.from, a <= job.avail
               PROVE  cov'[a] # "none" /\ (bars[a] \/ (cov'[a] = "gap" /\ job'.missing))
    BY <1>4, <1>5, <1>9 DEF JobCovered
  <2>1. a \in days /\ a \in Ages
    BY <1>6
  <2> QED BY <1>5, <1>7, <2>1
<1> QED BY <1>11, <1>13, <1>14, <1>15, <1>16, <1>17, <1>18 DEF DailyInv

\* Committing the checkpoint after coverage, with the error the outcome deserves.
LEMMA CommitInv ==
  ASSUME TypeOK, resolution = "daily", DailyInv, job.pc = "covered",
         NEW err \in Errors,
         err = "none" => ~job.missing /\ (~job.full => st.err # "invalid"),
         st' = Committed(err), job' = Idle,
         bars' = bars, cov' = cov, provider' = provider, phase' = phase, resolution' = resolution
  PROVE  DailyInv'
<1> USE RetentionAssumption
<1>1. job # Idle /\ JobSound /\ JobCovered
  BY DEF DailyInv, Idle
<1>2. /\ st.avail \in NoData .. Retention /\ job.avail \in NoData .. Retention
      /\ job.from \in Ages /\ LatestCompleted \in 0 .. 1 /\ GapAges \in SUBSET Ages
      /\ st.checked \in 0 .. Older /\ st.refreshed \in 0 .. Week + 1
  BY RecoverFromType DEF TypeOK, States, Jobs, Ages
<1>3. LatestCompleted' = LatestCompleted /\ GapAges' = GapAges
  BY DEF LatestCompleted, GapAges
<1>4. /\ st'.hist /\ st'.avail = job.avail /\ st'.checked = LatestCompleted /\ st'.err = err
      /\ job.full => st'.refreshed = 0
      /\ ~job.full => st'.refreshed = st.refreshed
  BY <1>1 DEF Committed, JobSound, TypeOK, States
<1>5. st.avail <= job.avail
  BY <1>1, <1>2 DEF JobSound, NoData
<1>6. \A a \in Ages : a > job.from /\ a <= job.avail => ~job.full /\ a <= st.avail /\ a > Overlap
  BY <1>1, <1>2 DEF JobSound, Ages, NoData
<1>7. \A a \in Ages : a >= LatestCompleted /\ a <= job.avail =>
        cov[a] # "none" /\ (bars[a] \/ cov[a] = "gap")
  <2> SUFFICES ASSUME NEW a \in Ages, a >= LatestCompleted, a <= job.avail
               PROVE  cov[a] # "none" /\ (bars[a] \/ cov[a] = "gap")
    OBVIOUS
  <2>1. CASE a <= job.from
    BY <1>1, <1>2, <2>1 DEF JobCovered, Ages
  <2>2. CASE a > job.from
    <3>1. ~FullDue(st) /\ a <= st.avail /\ a > Overlap
      BY <1>1, <1>6, <2>2 DEF JobSound
    <3> QED BY <3>1 DEF DailyInv, OlderKnown
  <2> QED BY <1>2, <2>1, <2>2 DEF Ages
<1>8. err = "none" => \A a \in Ages : a >= LatestCompleted /\ a <= job.avail => bars[a]
  <2> SUFFICES ASSUME err = "none", NEW a \in Ages, a >= LatestCompleted, a <= job.avail
               PROVE  bars[a]
    OBVIOUS
  <2>1. CASE a <= job.from
    BY <1>1, <1>2, <2>1 DEF JobCovered, Ages
  <2>2. CASE a > job.from
    BY <1>1, <1>6, <2>2 DEF JobSound
  <2> QED BY <1>2, <2>1, <2>2 DEF Ages
<1>9. Overlap' = LatestCompleted + Week
  BY <1>4 DEF Overlap
<1>10. \A a \in Ages : a > Overlap' => a >= LatestCompleted
  BY <1>2, <1>9 DEF Ages
<1>11. OlderKnown' /\ OlderStored'
  BY <1>4, <1>7, <1>8, <1>10 DEF OlderKnown, OlderStored
<1>12. GapsPublished'
  BY <1>3 DEF DailyInv, GapsPublished
<1>13. GapsReachable'
  BY <1>1, <1>3, <1>4 DEF GapsReachable, JobSound
<1>14. AvailPublished'
  <2>1. CASE job.avail = st.avail
    BY <1>4, <2>1 DEF DailyInv, AvailPublished
  <2>2. CASE job.avail # st.avail
    BY <1>1, <1>2, <1>4, <2>2 DEF JobSound, AvailPublished, NoData
  <2> QED BY <2>1, <2>2
<1>15. CheckpointCovered'
  <2>1. \A a \in LatestCompleted .. job.avail : a \in Ages
    BY <1>2 DEF Ages, NoData
  <2> QED BY <1>2, <1>4, <1>7, <2>1 DEF CheckpointCovered, NoData
<1>16. JobSound' /\ JobCovered'
  BY DEF JobSound, JobCovered, Idle
<1> QED BY <1>11, <1>12, <1>13, <1>14, <1>15, <1>16 DEF DailyInv

\* A successful collect commits the error its outcome deserves.
LEMMA SaveStateInv ==
  ASSUME TypeOK, resolution = "daily", DailyInv, SaveState
  PROVE  DailyInv'
<1>1. Outcome \in Errors
  BY DEF Outcome, Errors
<1>2. Outcome = "none" => ~job.missing /\ (~job.full => st.err # "invalid")
  BY DEF Outcome
<1> QED BY <1>1, <1>2, CommitInv DEF SaveState, clock

\* Coverage failed: available_from may be older, but the error is on record and the
\* window of the next collect still covers what moved.
LEMMA CoverageFailsInv ==
  ASSUME TypeOK, resolution = "daily", DailyInv, job.pc = "written",
         st' = [st EXCEPT !.avail = job.avail, !.err = "fail"], job' = Idle,
         bars' = bars, cov' = cov, provider' = provider, phase' = phase, resolution' = resolution
  PROVE  DailyInv'
<1> USE RetentionAssumption
<1>1. job # Idle /\ JobSound
  BY DEF DailyInv, Idle
<1>2. /\ st.avail \in NoData .. Retention /\ job.avail \in NoData .. Retention
      /\ job.from \in Ages /\ GapAges \in SUBSET Ages /\ st.checked \in 0 .. Older
  BY RecoverFromType DEF TypeOK, States, Jobs
<1>3. LatestCompleted' = LatestCompleted /\ GapAges' = GapAges
  BY DEF LatestCompleted, GapAges
<1>4. /\ st'.hist = st.hist /\ st'.avail = job.avail /\ st'.checked = st.checked
      /\ st'.refreshed = st.refreshed /\ st'.err = "fail"
  BY DEF TypeOK, States
<1>5. FullDue(st') = FullDue(st) /\ Overlap' = Overlap
  BY <1>4 DEF FullDue, Overlap
<1>6. ~FullDue(st) => \A a \in Ages : a > Overlap /\ a <= job.avail => a <= st.avail
  BY <1>1, <1>2 DEF JobSound, Ages, NoData, Overlap, Older
<1>7. OlderKnown' /\ OlderStored'
  BY <1>4, <1>5, <1>6 DEF DailyInv, OlderKnown, OlderStored
<1>8. GapsPublished'
  BY <1>3 DEF DailyInv, GapsPublished
<1>9. GapsReachable'
  BY <1>1, <1>3, <1>4 DEF GapsReachable, JobSound
<1>10. AvailPublished'
  <2>1. CASE job.avail = st.avail
    BY <1>4, <2>1 DEF DailyInv, AvailPublished
  <2>2. CASE job.avail # st.avail
    BY <1>1, <1>2, <1>4, <2>2 DEF JobSound, AvailPublished, NoData
  <2> QED BY <2>1, <2>2
<1>11. CheckpointCovered' /\ JobSound' /\ JobCovered'
  BY <1>4 DEF CheckpointCovered, JobSound, JobCovered, Idle
<1> QED BY <1>7, <1>8, <1>9, <1>10, <1>11 DEF DailyInv

\* Each of the three ways a write fails after the candles are stored keeps the invariant.
LEMMA WriteFailsInv ==
  ASSUME TypeOK, resolution = "daily", DailyInv, WriteFails
  PROVE  DailyInv'
<1>1. bars' = bars /\ cov' = cov /\ provider' = provider /\ phase' = phase /\ resolution' = resolution
  BY DEF WriteFails, clock
<1>2. CASE job.pc = "written" /\ Failed(job.live, [st EXCEPT !.avail = job.avail])
  <2>1. st' = [st EXCEPT !.avail = job.avail, !.err = "fail"] /\ job' = Idle
    BY <1>2 DEF Failed, TypeOK, States
  <2> QED BY <1>1, <1>2, <2>1, CoverageFailsInv
<1>3. CASE job.pc = "covered" /\ Failed(job.live, Committed("fail"))
  <2>1. ~job.live
    BY <1>3 DEF DailyInv, JobSound, Idle
  <2>2. st' = Committed("fail") /\ job' = Idle
    <3>1. st' = [Committed("fail") EXCEPT !.err = "fail"] /\ job' = Idle
      BY <1>3 DEF Failed
    <3>2. "fail" \in Errors
      BY DEF Errors
    <3>3. Committed("fail") \in States /\ Committed("fail").err = "fail"
      BY <2>1, <3>2, CommittedType DEF Committed, TypeOK, States
    <3> QED BY <3>1, <3>3 DEF States
  <2>3. "fail" \in Errors /\ "fail" # "none"
    BY DEF Errors
  <2> QED BY <1>1, <1>3, <2>2, <2>3, CommitInv
<1>4. CASE job' = Idle /\ UNCHANGED st
  BY <1>1, <1>4, QuietStep
<1> QED BY <1>2, <1>3, <1>4 DEF WriteFails

\* A session that completes widens the window of the next collect only at its young end.
LEMMA SessionAdvancesInv ==
  ASSUME TypeOK, resolution = "daily", DailyInv, SessionAdvances
  PROVE  DailyInv'
<1> USE RetentionAssumption
<1>1. /\ job = Idle /\ job' = job /\ st' = st /\ bars' = bars /\ cov' = cov
      /\ resolution' = resolution
  BY DEF SessionAdvances, store
<1>2. LatestCompleted' \in Int /\ LatestCompleted' <= LatestCompleted /\ GapAges' = GapAges
  BY <1>1 DEF SessionAdvances, LatestCompleted, GapAges
<1>3. \A b \in Ages : provider[b] = "good" => provider'[b] = "good"
  BY DEF SessionAdvances, TypeOK
<1>4. LatestCompleted \in 0 .. 1 /\ GapAges \in SUBSET Ages /\ st.avail \in NoData .. Retention
  BY RecoverFromType DEF TypeOK, States
<1>5. OlderKnown' /\ OlderStored' /\ CheckpointCovered' /\ JobSound' /\ JobCovered'
  BY <1>1 DEF DailyInv, OlderKnown, OlderStored, CheckpointCovered, JobSound, JobCovered, Idle, Overlap
<1>6. GapsPublished'
  BY <1>2, <1>3, <1>4 DEF DailyInv, GapsPublished, Ages
<1>7. GapsReachable'
  BY <1>1, <1>2, <1>3, <1>4 DEF DailyInv, GapsReachable, Ages, Overlap
<1>8. AvailPublished'
  BY <1>1, <1>3, <1>4 DEF DailyInv, AvailPublished, Ages, NoData
<1> QED BY <1>5, <1>6, <1>7, <1>8 DEF DailyInv

\* Midnight: every table, the checkpoint and available_from age together.
LEMMA NextDayInv ==
  ASSUME TypeOK, resolution = "daily", DailyInv, NextDay
  PROVE  DailyInv'
<1> USE RetentionAssumption
<1>1. /\ job = Idle /\ job' = job /\ resolution' = resolution
      /\ LatestCompleted = 0 /\ LatestCompleted' = 1
  BY DEF NextDay, LatestCompleted
<1>2. /\ st.avail \in NoData .. Retention /\ st.checked \in 0 .. Older /\ st.refreshed \in 0 .. Week + 1
  BY DEF TypeOK, States
<1>3. /\ st'.hist = st.hist /\ st'.err = st.err
      /\ st'.checked = AtMost(st.checked + 1, Older)
      /\ st'.refreshed = AtMost(st.refreshed + 1, Week + 1)
      /\ st'.avail = IF st.avail = NoData THEN NoData ELSE AtMost(st.avail + 1, Retention)
  BY DEF NextDay, TypeOK, States, Aged
<1>4. \A a \in Ages : bars'[a] = (IF a = 0 THEN FALSE ELSE bars[a - 1])
  BY DEF NextDay, Shift
<1>5. \A a \in Ages : cov'[a] = (IF a = 0 THEN "none" ELSE cov[a - 1])
  BY DEF NextDay, Shift
<1>6. \A a \in Ages : provider[a] = "good" =>
        /\ a < Retention => provider'[a + 1] = "good"
        /\ a = Retention => provider'[a] = "good"
  <2> DEFINE shifted == Shift(provider, "late")
  <2>1. provider' = [shifted EXCEPT ![Retention] = IF provider[Retention] = "good" THEN "good" ELSE @]
    BY DEF NextDay, KeepHistory
  <2>2. shifted \in [Ages -> {"late", "bad", "good"}]
    BY ShiftType DEF TypeOK
  <2>3. \A a \in Ages : a < Retention => shifted[a + 1] = provider[a]
    BY DEF Shift, Ages
  <2> HIDE DEF shifted
  <2>4. \A a \in Ages : provider'[a] = IF a = Retention /\ provider[Retention] = "good" THEN "good"
                                       ELSE shifted[a]
    BY <2>1, <2>2 DEF Ages
  <2>5. \A a \in Ages : a < Retention => a + 1 \in Ages
    BY DEF Ages
  <2> QED BY <2>3, <2>4, <2>5 DEF Ages
<1>7. /\ ~FullDue(st') => ~FullDue(st)
      /\ \A a \in Ages : a > Overlap' => a # 0 /\ a - 1 \in Ages /\ a - 1 > Overlap
      /\ \A a \in Ages : a # 0 /\ a <= st'.avail => a - 1 <= st.avail
  BY <1>2, <1>3 DEF FullDue, AtMost, Overlap, Ages, Older, NoData
<1>8. OlderKnown' /\ OlderStored'
  BY <1>3, <1>4, <1>5, <1>7 DEF DailyInv, OlderKnown, OlderStored
<1>9. \A a \in GapAges' : a \in Ages /\ a # 0 /\ a - 1 \in GapAges /\ a - 1 \in Ages
  BY <1>5 DEF GapAges, Ages
<1>10. ASSUME NEW x \in Nat, NEW b \in Ages, x <= b, provider[b] = "good", x + 1 <= Retention
       PROVE  \E c \in (x + 1) .. Retention : provider'[c] = "good" /\ c <= b + 1
  <2>1. CASE b < Retention
    <3>1. b + 1 \in (x + 1) .. Retention /\ provider'[b + 1] = "good" /\ b + 1 <= b + 1
      BY <1>6, <1>10, <2>1 DEF Ages
    <3> QED BY <3>1
  <2>2. CASE b = Retention
    BY <1>6, <1>10, <2>2 DEF Ages
  <2> QED BY <2>1, <2>2 DEF Ages
<1>11. GapsPublished'
  <2> SUFFICES ASSUME NEW a \in GapAges'
               PROVE  a >= 1 /\ \E c \in a .. Retention : provider'[c] = "good"
    BY <1>1 DEF GapsPublished
  <2>1. a \in Ages /\ a # 0 /\ a - 1 \in GapAges /\ a - 1 \in Nat
    BY <1>9 DEF Ages
  <2>2. PICK b \in (a - 1) .. Retention : provider[b] = "good"
    BY <2>1 DEF DailyInv, GapsPublished
  <2>3. b \in Ages /\ a - 1 <= b /\ (a - 1) + 1 <= Retention /\ (a - 1) + 1 = a
    BY <2>1, <2>2 DEF Ages
  <2> QED BY <1>10, <2>1, <2>2, <2>3 DEF Ages
<1>12. GapsReachable'
  <2> SUFFICES ASSUME ~FullDue(st'), NEW a \in GapAges'
               PROVE  a <= st'.avail \/ \E c \in a .. Retention : c <= Overlap' /\ provider'[c] = "good"
    BY DEF GapsReachable
  <2>1. a \in Ages /\ a # 0 /\ a - 1 \in GapAges /\ a - 1 \in Nat
    BY <1>9 DEF Ages
  <2>2. CASE a - 1 <= st.avail
    BY <1>2, <1>3, <2>1, <2>2 DEF AtMost, Ages, NoData
  <2>3. CASE \E b \in (a - 1) .. Retention : b <= Overlap /\ provider[b] = "good"
    <3>1. PICK b \in (a - 1) .. Retention : b <= Overlap /\ provider[b] = "good"
      BY <2>3
    <3>2. b \in Ages /\ a - 1 <= b /\ (a - 1) + 1 <= Retention /\ (a - 1) + 1 = a
      BY <2>1, <3>1 DEF Ages
    <3>3. PICK c \in a .. Retention : provider'[c] = "good" /\ c <= b + 1
      BY <1>10, <2>1, <3>1, <3>2
    <3>4. c <= Overlap'
      BY <1>2, <1>3, <2>1, <3>1, <3>2, <3>3 DEF Overlap, AtMost, Ages, Older
    <3> QED BY <3>3, <3>4
  <2> QED BY <1>7, <2>1, <2>2, <2>3 DEF DailyInv, GapsReachable
<1>13. AvailPublished'
  <2>1. CASE st.avail = NoData
    BY <1>3, <2>1 DEF AvailPublished
  <2>2. CASE st.avail # NoData
    <3>1. PICK b \in st.avail .. Retention : provider[b] = "good"
      BY <2>2 DEF DailyInv, AvailPublished
    <3>2. st.avail \in Ages /\ b \in Ages
      BY <1>2, <2>2, <3>1 DEF Ages, NoData
    <3>3. CASE st.avail < Retention
      <4>1. st'.avail = st.avail + 1 /\ st.avail + 1 <= Retention /\ st.avail \in Nat /\ st.avail <= b
        BY <1>3, <2>2, <3>1, <3>2, <3>3 DEF AtMost, Ages
      <4> QED BY <1>10, <3>1, <3>2, <4>1 DEF AvailPublished
    <3>4. CASE st.avail = Retention
      <4>1. st'.avail = Retention /\ b = Retention
        BY <1>3, <2>2, <3>1, <3>4 DEF AtMost, NoData
      <4>2. provider'[Retention] = "good"
        BY <1>6, <3>1, <3>2, <4>1
      <4> QED BY <4>1, <4>2 DEF AvailPublished
    <3> QED BY <3>2, <3>3, <3>4 DEF Ages
  <2> QED BY <2>1, <2>2
<1>14. CheckpointCovered'
  <2> SUFFICES ASSUME st'.hist, st'.err # "fail", NEW a \in st'.checked .. st'.avail
               PROVE  cov'[a] # "none"
    BY DEF CheckpointCovered
  <2>1. a \in Ages /\ a # 0 /\ a - 1 \in st.checked .. st.avail
    BY <1>2, <1>3 DEF AtMost, Ages, Older, NoData
  <2> QED BY <1>3, <1>5, <2>1 DEF DailyInv, CheckpointCovered
<1>15. JobSound' /\ JobCovered'
  BY <1>1 DEF JobSound, JobCovered, Idle
<1> QED BY <1>8, <1>11, <1>12, <1>13, <1>14, <1>15 DEF DailyInv

\* A full refresh that falls due leaves the tables alone and widens the next window.
LEMMA RefreshFallsDueInv ==
  ASSUME TypeOK, resolution = "daily", DailyInv, RefreshFallsDue
  PROVE  DailyInv'
<1>1. /\ cov' = cov /\ bars' = bars /\ phase' = phase /\ provider' = provider
      /\ resolution' = resolution /\ job = Idle /\ job' = job
  BY DEF RefreshFallsDue, clock
<1>2. /\ st'.hist = st.hist /\ st'.err = st.err /\ st'.avail = st.avail
      /\ st'.checked = st.checked /\ st'.refreshed = Week + 1
  BY DEF RefreshFallsDue, TypeOK, States
<1>3. FullDue(st')
  BY <1>2, RetentionAssumption DEF FullDue
<1>4. GapAges' = GapAges /\ LatestCompleted' = LatestCompleted
  BY <1>1 DEF GapAges, LatestCompleted
<1>5. OlderKnown' /\ OlderStored' /\ GapsReachable'
  BY <1>3 DEF OlderKnown, OlderStored, GapsReachable
<1>6. GapsPublished' /\ AvailPublished' /\ CheckpointCovered'
  BY <1>1, <1>2, <1>4 DEF DailyInv, GapsPublished, AvailPublished, CheckpointCovered
<1>7. JobSound' /\ JobCovered'
  BY <1>1 DEF JobSound, JobCovered, Idle
<1> QED BY <1>5, <1>6, <1>7 DEF DailyInv

\* Every step of the collector, the provider and the clock keeps the invariant.
LEMMA StepInv == IInv /\ [Next]_vars => IInv'
<1> SUFFICES ASSUME IInv, [Next]_vars PROVE IInv'
  OBVIOUS
<1>1. TypeOK /\ TypeOK'
  BY StepType DEF IInv
<1>2. resolution' = resolution
  BY DEF Next, vars, FetchFails, FetchAndWrite, RecordCoverage, SaveState, WriteFails, EnqueueDaily,
     RankMinuteTier, MembershipChanges, RetryDue, Crash, Publish, BecomeCalm, SessionAdvances,
     RefreshFallsDue, NextDay
<1> SUFFICES ASSUME resolution = "daily" PROVE DailyInv'
  BY <1>1, <1>2 DEF IInv
<1>3. DailyInv
  BY DEF IInv
<1>4. ASSUME NEW live \in BOOLEAN, FetchFails(live) PROVE DailyInv'
  <2>1. /\ cov' = cov /\ phase' = phase /\ provider' = provider /\ job' = Idle
        /\ st' = st \/ st' = [st EXCEPT !.err = "fail"]
    BY <1>4 DEF FetchFails, Failed, FailedUnrecorded, clock
  <2>2. \A a \in Ages : bars[a] => bars'[a]
    BY <1>4 DEF FetchFails
  <2> QED BY <1>1, <1>2, <1>3, <2>1, <2>2, QuietStep
<1>5. ASSUME NEW live \in BOOLEAN, FetchAndWrite(live) PROVE DailyInv'
  <2>1. live = FALSE
    BY <1>5 DEF FetchAndWrite, MayCollect
  <2> QED BY <1>1, <1>3, <1>5, <2>1, FetchAndWriteInv
<1>6. CASE \/ EnqueueDaily \/ RankMinuteTier \/ MembershipChanges \/ RetryDue \/ Crash
           \/ BecomeCalm \/ UNCHANGED vars
  <2>1. /\ cov' = cov /\ bars' = bars /\ phase' = phase /\ provider' = provider /\ st' = st
        /\ job' = job \/ job' = Idle
    BY <1>6 DEF EnqueueDaily, RankMinuteTier, MembershipChanges, RetryDue, Crash, BecomeCalm, vars,
                store, clock
  <2> QED BY <1>1, <1>2, <1>3, <2>1, QuietStep
<1>7. ASSUME NEW a \in Ages, Publish(a) PROVE DailyInv'
  <2>1. cov' = cov /\ bars' = bars /\ phase' = phase /\ st' = st /\ job' = job
    BY <1>7 DEF Publish, store
  <2>2. \A b \in Ages : provider[b] = "good" => provider'[b] = "good"
    BY <1>1, <1>7 DEF Publish, TypeOK
  <2> QED BY <1>1, <1>2, <1>3, <2>1, <2>2, QuietStep
<1> QED BY <1>1, <1>3, <1>4, <1>5, <1>6, <1>7, RecordCoverageInv, SaveStateInv, WriteFailsInv,
           SessionAdvancesInv, RefreshFallsDueInv, NextDayInv DEF Next

\* The inductive invariant holds in every reachable state.
THEOREM Invariance == Spec => []IInv
BY InitInv, StepInv, PTL DEF Spec

\* Between collects, what the next recovery of a daily series does not ask for is stored.
LEMMA InvAccounted == IInv => DailyNoSilentLoss
<1> SUFFICES ASSUME IInv, resolution = "daily", NEW a \in LatestCompleted .. Retention,
                    a <= st.avail, ~bars[a], st.err = "none"
             PROVE  a \in InReach
  BY DEF DailyNoSilentLoss, Accounted
<1> USE RetentionAssumption
<1>1. TypeOK /\ DailyInv
  BY DEF IInv
<1>2. a \in Ages /\ LatestCompleted \in 0 .. 1 /\ RecoverFrom(st) \in Ages /\ st.avail \in NoData .. Retention
  BY <1>1, RecoverFromType DEF Ages, TypeOK, States
<1>3. CASE FullDue(st)
  BY <1>1, <1>2, <1>3, RecoverFromType DEF InReach, Ages
<1>4. CASE ~FullDue(st)
  <2>1. ~(a > RecoverFrom(st))
    BY <1>1, <1>2, <1>4, DailyWindow
  <2> QED BY <1>2, <2>1 DEF InReach, Ages
<1> QED BY <1>3, <1>4

\* No missing daily bar since available_from goes unreported and out of reach of the next
\* recovery, whatever fails, crashes or arrives late, for every Retention and Week.
THEOREM NoSilentLoss == Spec => []DailyNoSilentLoss
BY Invariance, InvAccounted, PTL

\* The daily checkpoint never covers a session without a coverage row.
LEMMA InvCheckpoint == IInv => CheckpointCovered
BY DEF IInv, DailyInv, CheckpointCovered

\* Whatever fails between the write of coverage and the commit of the checkpoint, every
\* session between available_from and checked_through has a coverage row.
THEOREM CheckpointBehindCoverage == Spec => []CheckpointCovered
BY Invariance, InvCheckpoint, PTL

-----------------------------------------------------------------------------
(* Healing: the invariant of a daily series once the faults have stopped.   *)
(* The days of calm only matter through the age of the last full refresh:   *)
(* while a hole is left beyond the checkpoint, no full refresh has run in   *)
(* the calm, so its age grows with the calm and one falls due, a day later  *)
(* than the week if it was late on its day.                                 *)

\* Every session at or beyond the checkpoint is stored.
Healed == \A a \in Ages : a >= st.checked => bars[a]

\* The provider answers every completed session.
CalmProvider == calm > 0 => \A a \in LatestCompleted .. Retention : provider[a] = "good"

\* A collect in flight came from the queue and has stored all it asked for.
CalmJob ==
  calm > 0 /\ job # Idle =>
    /\ q = "due"
    /\ \A a \in LatestCompleted .. job.from : bars[a]

\* After the first day no retry is pending, and a series the loop has dealt with today
\* has its checkpoint at today's session.
CalmQueue ==
  calm >= 2 =>
    /\ q # "wait"
    /\ phase = "post" /\ targeted /\ q = "out" => st.hist /\ st.checked = 0

\* From the second midnight on the checkpoint is never more than a day old.
CalmCheckpoint == calm >= 3 => st.checked <= 1

\* While a hole is left, the last full refresh is older than the calm; a checkpoint
\* committed with the hole shows that none was due.
CalmRefresh ==
  calm >= 2 /\ ~Healed =>
    /\ st.refreshed >= calm - 1
    /\ st.checked = 0 => calm - 1 <= Week

HealInv == CalmProvider /\ CalmJob /\ CalmQueue /\ CalmCheckpoint /\ CalmRefresh

\* Before the calm there is nothing to show.
LEMMA NoCalmHeals ==
  ASSUME calm = 0
  PROVE  HealInv
BY DEF HealInv, CalmProvider, CalmJob, CalmQueue, CalmCheckpoint, CalmRefresh

\* A recovery collect always asks for a completed session.
LEMMA RecoveryWindow ==
  ASSUME TypeOK
  PROVE  /\ LatestCompleted <= RecoverFrom(st)
         /\ LatestCompleted .. RecoverFrom(st) \in SUBSET (LatestCompleted .. Retention)
<1> USE RetentionAssumption
<1>1. LatestCompleted \in 0 .. 1 /\ GapAges \in SUBSET Ages /\ RecoverFrom(st) \in 0 .. Retention
  BY RecoverFromType DEF Ages
<1>2. st.checked \in 0 .. Older
  BY DEF TypeOK, States
<1>3. AtMost(st.checked + Week, Retention) >= 1 /\ AtMost(st.checked + Week, Retention) \in Nat
  BY <1>2 DEF AtMost, Older
<1>4. GapAges # {} => Oldest(GapAges) \in Nat
  <2>1. GapAges # {} => Oldest(GapAges) \in Ages
    BY <1>1, OldestIsOldest
  <2> QED BY <2>1 DEF Ages
<1>5. RecoverFrom(st) >= 1
  BY <1>3, <1>4 DEF RecoverFrom, AtLeast
<1> QED BY <1>1, <1>5

\* In the calm every session of the window is returned, so no fetch fails.
LEMMA CalmFetch ==
  ASSUME TypeOK, resolution = "daily", CalmProvider, calm > 0
  PROVE  LET w == Window(FALSE, RecoverFrom(st))
         IN  Returned(w) = LatestCompleted .. RecoverFrom(st) /\ ~Unusable(w)
<1>1. Window(FALSE, RecoverFrom(st)) = LatestCompleted .. RecoverFrom(st)
  BY DEF Window
<1>2. LatestCompleted \in LatestCompleted .. RecoverFrom(st)
  BY RecoveryWindow, RecoverFromType DEF Ages
<1>3. \A a \in LatestCompleted .. RecoverFrom(st) : provider[a] = "good"
  BY RecoveryWindow DEF CalmProvider
<1> QED BY <1>1, <1>2, <1>3 DEF Returned, Unusable

\* A step that leaves the checkpoint alone and loses no bar keeps the store healed.
LEMMA HealedStays ==
  ASSUME TypeOK, TypeOK', st'.checked = st.checked, \A a \in Ages : bars[a] => bars'[a], Healed
  PROVE  Healed'
BY DEF Healed

\* A fetch that answers stores its whole window.
LEMMA FetchAndWriteHeals ==
  ASSUME TypeOK, TypeOK', resolution = "daily", HealInv, calm > 0, FetchAndWrite(FALSE)
  PROVE  HealInv'
<1> DEFINE w == Window(FALSE, RecoverFrom(st))
<1>1. /\ phase' = phase /\ provider' = provider /\ calm' = calm /\ st' = st /\ q' = q
      /\ targeted' = targeted /\ q = "due" /\ job'.from = RecoverFrom(st)
  BY DEF FetchAndWrite, MayCollect, clock
<1>2. \A a \in Ages : bars'[a] = (bars[a] \/ a \in Returned(w))
  BY DEF FetchAndWrite
<1>3. Returned(w) = LatestCompleted .. RecoverFrom(st)
  BY CalmFetch DEF HealInv
<1>4. \A a \in LatestCompleted .. RecoverFrom(st) : a \in Ages
  BY RecoverFromType, RetentionAssumption DEF Ages
<1>5. LatestCompleted' = LatestCompleted
  BY <1>1 DEF LatestCompleted
<1>6. CalmProvider' /\ CalmQueue' /\ CalmCheckpoint'
  BY <1>1, <1>5 DEF HealInv, CalmProvider, CalmQueue, CalmCheckpoint
<1>7. CalmJob'
  BY <1>1, <1>2, <1>3, <1>4, <1>5 DEF CalmJob
<1>8. CalmRefresh'
  BY <1>1, <1>2, HealedStays DEF HealInv, CalmRefresh
<1> QED BY <1>6, <1>7, <1>8 DEF HealInv

\* A checkpoint is committed: with a full refresh the store is healed, without one no
\* refresh was due.
LEMMA SaveStateHeals ==
  ASSUME TypeOK, TypeOK', resolution = "daily", DailyInv, HealInv, calm > 0, SaveState
  PROVE  HealInv'
<1> USE RetentionAssumption
<1>1. /\ phase' = phase /\ provider' = provider /\ calm' = calm /\ bars' = bars
      /\ targeted' = targeted /\ job' = Idle /\ st' = Committed(Outcome)
  BY DEF SaveState, clock
<1>2. job # Idle /\ ~job.live /\ job.full = FullDue(st) /\ (job.full => job.from = Retention)
  BY DEF SaveState, Idle, DailyInv, JobSound
<1>3. ~job.full => \A a \in Ages : a > job.from => a > Overlap
  BY <1>2 DEF DailyInv, JobSound
<1>4. \A a \in LatestCompleted .. job.from : bars[a]
  BY <1>2 DEF HealInv, CalmJob
<1>5. q' = "out"
  BY <1>2 DEF SaveState, Requeued
<1>6. st'.hist /\ st'.checked = LatestCompleted
  BY <1>1, <1>2 DEF Committed, TypeOK, States
<1>7. st'.refreshed = IF job.full THEN 0 ELSE st.refreshed
  BY <1>1, <1>2 DEF Committed, TypeOK, States
<1>8. /\ LatestCompleted \in 0 .. 1 /\ LatestCompleted' = LatestCompleted
      /\ job.from \in Ages /\ st.checked \in 0 .. Older /\ st.refreshed \in 0 .. Week + 1
  BY <1>1, RecoverFromType DEF LatestCompleted, TypeOK, Jobs, States
<1>9. CalmProvider' /\ CalmJob'
  BY <1>1, <1>8 DEF HealInv, CalmProvider, CalmJob
<1>10. CalmQueue'
  BY <1>5, <1>6, <1>1 DEF CalmQueue, LatestCompleted
<1>11. CalmCheckpoint'
  BY <1>6, <1>8 DEF CalmCheckpoint
<1>12. CASE job.full
  <2>1. Healed'
    BY <1>1, <1>2, <1>4, <1>6, <1>8, <1>12 DEF Healed, Ages
  <2> QED BY <1>9, <1>10, <1>11, <2>1 DEF HealInv, CalmRefresh
<1>13. CASE ~job.full
  <2>0. ~FullDue(st) /\ st'.refreshed = st.refreshed
    BY <1>2, <1>7, <1>13
  <2>1. ~FullDue(st) /\ st.refreshed <= Week /\ st'.refreshed = st.refreshed
    BY <1>8, <2>0 DEF FullDue
  <2>2. Healed => Healed'
    <3> SUFFICES ASSUME Healed, NEW a \in Ages, a >= st'.checked PROVE bars'[a]
      BY DEF Healed
    <3>1. CASE a > job.from
      <4>1. a > Overlap
        BY <1>3, <1>13, <3>1
      <4>2. a >= st.checked
        BY <1>8, <4>1 DEF Overlap, Ages, Older
      <4> QED BY <1>1, <4>2 DEF Healed
    <3>2. CASE ~(a > job.from)
      <4>1. a \in LatestCompleted .. job.from
        BY <1>6, <1>8, <3>2 DEF Ages
      <4> QED BY <1>1, <1>4, <4>1
    <3> QED BY <3>1, <3>2
  <2>3. CalmRefresh'
    <3>1. calm \in Nat
      BY DEF TypeOK, CalmCap
    <3> SUFFICES ASSUME calm >= 2, ~Healed PROVE st.refreshed >= calm - 1 /\ calm - 1 <= Week
      BY <1>1, <2>1, <2>2 DEF CalmRefresh
    <3>2. st.refreshed >= calm - 1
      BY DEF HealInv, CalmRefresh
    <3> QED BY <1>8, <2>1, <3>1, <3>2
  <2> QED BY <1>9, <1>10, <1>11, <2>3 DEF HealInv
<1> QED BY <1>12, <1>13

\* A session that completes is published at once in the calm.
LEMMA SessionAdvancesHeals ==
  ASSUME TypeOK, TypeOK', resolution = "daily", HealInv, calm > 0, SessionAdvances
  PROVE  HealInv'
<1> USE RetentionAssumption
<1>1. /\ job = Idle /\ job' = job /\ st' = st /\ bars' = bars /\ q' = q /\ calm' = calm
  BY DEF SessionAdvances, store
<1>2. /\ phase' = "post" => ~targeted' /\ provider' = [provider EXCEPT ![0] = "good"]
      /\ phase' # "post" => provider' = provider /\ phase # "post"
  BY DEF SessionAdvances
<1>3. CalmProvider'
  <2>1. CASE phase' = "post"
    <3>1. LatestCompleted = 1 /\ LatestCompleted' = 0
      BY <2>1 DEF SessionAdvances, LatestCompleted
    <3>2. \A a \in 1 .. Retention : provider[a] = "good"
      BY <3>1 DEF HealInv, CalmProvider
    <3>3. \A a \in 0 .. Retention : provider'[a] = "good"
      BY <1>2, <2>1, <3>2 DEF TypeOK, Ages
    <3> QED BY <3>1, <3>3 DEF CalmProvider
  <2>2. CASE phase' # "post"
    <3>1. LatestCompleted' = LatestCompleted
      BY <1>2, <2>2 DEF LatestCompleted
    <3> QED BY <1>1, <1>2, <2>2, <3>1 DEF HealInv, CalmProvider
  <2> QED BY <2>1, <2>2
<1>4. CalmJob'
  BY <1>1 DEF CalmJob
<1>5. CalmQueue'
  BY <1>1, <1>2 DEF HealInv, CalmQueue
<1>6. CalmCheckpoint' /\ CalmRefresh'
  BY <1>1 DEF HealInv, CalmCheckpoint, CalmRefresh, Healed
<1> QED BY <1>3, <1>4, <1>5, <1>6 DEF HealInv

\* The steps of the queue and late publications.
LEMMA QueueHeals ==
  ASSUME TypeOK, TypeOK', resolution = "daily", HealInv, calm > 0,
         EnqueueDaily \/ RetryDue \/ (\E a \in Ages : Publish(a)) \/ UNCHANGED vars
  PROVE  HealInv'
<1>1. CASE EnqueueDaily
  <2>1. /\ job = Idle /\ job' = job /\ st' = st /\ bars' = bars /\ calm' = calm
        /\ phase' = phase /\ provider' = provider
        /\ q' = IF PendingDaily THEN Queued ELSE q
    BY <1>1 DEF EnqueueDaily, store, clock
  <2>2. CalmProvider' /\ CalmJob' /\ CalmCheckpoint' /\ CalmRefresh'
    BY <2>1 DEF HealInv, CalmProvider, CalmJob, CalmCheckpoint, CalmRefresh, Healed, LatestCompleted
  <2>3. CalmQueue'
    <3> SUFFICES ASSUME calm >= 2
                 PROVE  q' # "wait" /\ (phase = "post" /\ q' = "out" => st.hist /\ st.checked = 0)
      BY <2>1 DEF CalmQueue
    <3>1. q # "wait"
      BY DEF HealInv, CalmQueue
    <3>2. CASE PendingDaily
      BY <2>1, <3>1, <3>2 DEF Queued
    <3>3. CASE ~PendingDaily
      <4>1. st.hist /\ ~(st.checked > LatestCompleted)
        BY <3>3 DEF PendingDaily
      <4>2. phase = "post" => st.checked = 0
        BY <4>1, RetentionAssumption DEF LatestCompleted, TypeOK, States, Older
      <4> QED BY <2>1, <3>1, <3>3, <4>1, <4>2
    <3> QED BY <3>2, <3>3
  <2> QED BY <2>2, <2>3 DEF HealInv
<1>2. CASE RetryDue
  <2>1. /\ job' = job /\ st' = st /\ bars' = bars /\ calm' = calm /\ q = "wait"
        /\ phase' = phase /\ provider' = provider /\ q' = "due"
    BY <1>2 DEF RetryDue, store, clock
  <2> QED BY <2>1 DEF HealInv, CalmProvider, CalmJob, CalmQueue, CalmCheckpoint, CalmRefresh, Healed,
             LatestCompleted
<1>3. ASSUME NEW a \in Ages, Publish(a) PROVE HealInv'
  <2>1. /\ job' = job /\ st' = st /\ bars' = bars /\ calm' = calm
        /\ phase' = phase /\ q' = q /\ targeted' = targeted
        /\ provider' = [provider EXCEPT ![a] = "good"]
    BY <1>3 DEF Publish, store
  <2>2. \A b \in Ages : provider[b] = "good" => provider'[b] = "good"
    BY <2>1 DEF TypeOK
  <2>3. \A b \in LatestCompleted .. Retention : b \in Ages
    BY RecoverFromType, RetentionAssumption DEF Ages
  <2>4. CalmProvider'
    BY <2>1, <2>2, <2>3 DEF HealInv, CalmProvider, LatestCompleted
  <2> QED BY <2>1, <2>4 DEF HealInv, CalmJob, CalmQueue, CalmCheckpoint, CalmRefresh, Healed,
             LatestCompleted
<1>4. CASE UNCHANGED vars
  BY <1>4 DEF vars, HealInv, CalmProvider, CalmJob, CalmQueue, CalmCheckpoint, CalmRefresh, Healed,
              LatestCompleted
<1> QED BY <1>1, <1>2, <1>3, <1>4

\* A full refresh that falls due disturbs nothing.
LEMMA RefreshFallsDueHeals ==
  ASSUME TypeOK, TypeOK', HealInv, RefreshFallsDue
  PROVE  HealInv'
<1>1. /\ bars' = bars /\ phase' = phase /\ provider' = provider /\ job' = job /\ q' = q
      /\ targeted' = targeted /\ calm' = calm
  BY DEF RefreshFallsDue, clock
<1>2. /\ st'.hist = st.hist /\ st'.checked = st.checked
      /\ st.refreshed = Week /\ st'.refreshed = Week + 1
  BY DEF RefreshFallsDue, TypeOK, States
<1>3. LatestCompleted' = LatestCompleted
  BY <1>1 DEF LatestCompleted
<1>4. CalmProvider' /\ CalmJob' /\ CalmQueue' /\ CalmCheckpoint'
  BY <1>1, <1>2, <1>3 DEF HealInv, CalmProvider, CalmJob, CalmQueue, CalmCheckpoint
<1>5. Healed' = Healed
  BY <1>1, <1>2 DEF Healed
<1>6. CalmRefresh'
  BY <1>1, <1>2, <1>5, RetentionAssumption DEF HealInv, CalmRefresh, TypeOK, CalmCap
<1> QED BY <1>4, <1>6 DEF HealInv

\* Midnight in the calm: the series has been dealt with, so its checkpoint is a day old
\* and a hole that is left outlived no refresh.
LEMMA NextDayHeals ==
  ASSUME TypeOK, TypeOK', resolution = "daily", HealInv, calm > 0, NextDay
  PROVE  HealInv'
<1> USE RetentionAssumption
<1>1. /\ job = Idle /\ job' = job /\ phase = "post" /\ phase' = "pre" /\ targeted /\ q # "due"
      /\ q' = (IF q = "wait" THEN "due" ELSE q) /\ calm' = AtMost(calm + 1, CalmCap)
      /\ LatestCompleted = 0 /\ LatestCompleted' = 1
  BY DEF NextDay, LatestCompleted
<1>2. /\ st.checked \in 0 .. Older /\ st.refreshed \in 0 .. Week + 1 /\ calm \in 0 .. CalmCap
      /\ q \in {"out", "due", "wait"}
  BY DEF TypeOK, States
<1>3. /\ st'.checked = AtMost(st.checked + 1, Older)
      /\ st'.refreshed = AtMost(st.refreshed + 1, Week + 1)
  BY DEF NextDay, TypeOK, States
<1>4. \A a \in Ages : bars'[a] = (IF a = 0 THEN FALSE ELSE bars[a - 1])
  BY DEF NextDay, Shift
<1>5. CalmProvider'
  <2> DEFINE shifted == Shift(provider, "late")
  <2>1. provider' = [shifted EXCEPT ![Retention] = IF provider[Retention] = "good" THEN "good" ELSE @]
    BY DEF NextDay, KeepHistory
  <2>2. shifted \in [Ages -> {"late", "bad", "good"}]
    BY ShiftType DEF TypeOK
  <2>3. \A a \in Ages : a # 0 => shifted[a] = provider[a - 1]
    BY DEF Shift
  <2>4. \A a \in 0 .. Retention : provider[a] = "good"
    BY <1>1 DEF HealInv, CalmProvider
  <2> HIDE DEF shifted
  <2>5. \A a \in 1 .. Retention : shifted[a] = "good"
    BY <2>3, <2>4 DEF Ages
  <2>6. \A a \in 1 .. Retention : provider'[a] = "good"
    BY <2>1, <2>2, <2>4, <2>5 DEF Ages
  <2> QED BY <1>1, <2>6 DEF CalmProvider
<1>6. CalmJob'
  BY <1>1 DEF CalmJob
<1>7. CalmQueue'
  BY <1>1, <1>2 DEF CalmQueue
<1>8. calm >= 2 => q = "out" /\ st.hist /\ st.checked = 0
  BY <1>1, <1>2 DEF HealInv, CalmQueue
<1>9. CalmCheckpoint'
  BY <1>1, <1>2, <1>3, <1>8 DEF CalmCheckpoint, AtMost, CalmCap, Older
<1>10. Healed => Healed'
  <2> SUFFICES ASSUME Healed, NEW a \in Ages, a >= st'.checked PROVE bars'[a]
    BY DEF Healed
  <2>1. a # 0 /\ a - 1 \in Ages /\ a - 1 >= st.checked
    BY <1>2, <1>3 DEF AtMost, Ages, Older
  <2> QED BY <1>4, <2>1 DEF Healed
<1>11. st'.checked # 0
  BY <1>2, <1>3 DEF AtMost, Older
<1>12. CalmRefresh'
  <2> SUFFICES ASSUME ~Healed PROVE st'.refreshed >= calm' - 1
    BY <1>10, <1>11 DEF CalmRefresh
  <2>1. CASE calm = 1
    BY <1>1, <1>2, <1>3, <2>1 DEF AtMost, CalmCap
  <2>2. CASE calm >= 2
    <3>1. st.refreshed >= calm - 1 /\ calm - 1 <= Week
      BY <1>8, <2>2 DEF HealInv, CalmRefresh
    <3> QED BY <1>1, <1>2, <1>3, <2>2, <3>1 DEF AtMost, CalmCap
  <2> QED BY <1>2, <2>1, <2>2
<1> QED BY <1>5, <1>6, <1>7, <1>9, <1>12 DEF HealInv

\* Calm begins between collects, with every completed session at the provider.
LEMMA BecomeCalmHeals ==
  ASSUME BecomeCalm
  PROVE  HealInv'
<1>1. /\ calm' = 1 /\ job' = Idle /\ phase' = phase /\ provider' = provider
      /\ \A a \in LatestCompleted .. Retention : provider[a] = "good"
  BY DEF BecomeCalm
<1> QED BY <1>1 DEF HealInv, CalmProvider, CalmJob, CalmQueue, CalmCheckpoint, CalmRefresh,
           LatestCompleted

\* Every step of a daily series keeps the healing invariant.
LEMMA StepHeals ==
  ASSUME IInv, resolution = "daily", HealInv, [Next]_vars
  PROVE  HealInv'
<1>1. TypeOK /\ TypeOK' /\ DailyInv
  BY StepType DEF IInv
<1>2. CASE BecomeCalm
  BY <1>2, BecomeCalmHeals
<1>3. CASE calm = 0 /\ ~BecomeCalm
  <2>1. calm' = 0
    BY <1>3 DEF Next, vars, FetchFails, FetchAndWrite, RecordCoverage, SaveState, WriteFails,
                EnqueueDaily, RankMinuteTier, MembershipChanges, RetryDue, Crash, Publish,
                SessionAdvances, RefreshFallsDue, NextDay, clock
  <2>2. ASSUME calm' = 0 PROVE HealInv'
    BY <2>2 DEF HealInv, CalmProvider, CalmJob, CalmQueue, CalmCheckpoint, CalmRefresh
  <2> QED BY <2>1, <2>2
<1>4. CASE calm > 0
  <2>1. ASSUME NEW live \in BOOLEAN, FetchFails(live) PROVE FALSE
    <3>1. live = FALSE
      BY <2>1 DEF FetchFails, MayCollect
    <3> QED BY <1>1, <1>4, <2>1, <3>1, CalmFetch DEF FetchFails, HealInv
  <2>2. ASSUME NEW live \in BOOLEAN, FetchAndWrite(live) PROVE HealInv'
    <3>1. live = FALSE
      BY <2>2 DEF FetchAndWrite, MayCollect
    <3> QED BY <1>1, <1>4, <2>2, <3>1, FetchAndWriteHeals
  <2>3. CASE RecordCoverage
    <3>1. /\ phase' = phase /\ provider' = provider /\ calm' = calm /\ bars' = bars
          /\ st' = st /\ q' = q /\ targeted' = targeted /\ job # Idle
      BY <2>3 DEF RecordCoverage, clock, Idle
    <3>2. job'.from = job.from
      BY <1>1, <2>3 DEF RecordCoverage, TypeOK, Jobs
    <3>3. CalmJob'
      BY <3>1, <3>2 DEF HealInv, CalmJob, LatestCompleted
    <3> QED BY <3>1, <3>3 DEF HealInv, CalmProvider, CalmQueue, CalmCheckpoint, CalmRefresh,
               Healed, LatestCompleted
  <2>4. CASE WriteFails \/ Crash \/ MembershipChanges \/ RankMinuteTier
    BY <1>4, <2>4 DEF WriteFails, Crash, MembershipChanges, RankMinuteTier
  <2> QED BY <1>1, <1>2, <1>4, <2>1, <2>2, <2>3, <2>4, SaveStateHeals, SessionAdvancesHeals,
             QueueHeals, RefreshFallsDueHeals, NextDayHeals DEF Next
<1>5. calm \in Nat
  BY <1>1, RetentionAssumption DEF TypeOK, CalmCap
<1> QED BY <1>2, <1>3, <1>4, <1>5

\* Healing is inductive together with the invariant above.
LEMMA HealInvariance == Spec => [](IInv /\ (resolution = "daily" => HealInv))
<1>1. Init => HealInv
  BY NoCalmHeals DEF Init
<1>2. resolution' = resolution \/ ~[Next]_vars
  BY DEF Next, vars, FetchFails, FetchAndWrite, RecordCoverage, SaveState, WriteFails, EnqueueDaily,
     RankMinuteTier, MembershipChanges, RetryDue, Crash, Publish, BecomeCalm, SessionAdvances,
     RefreshFallsDue, NextDay
<1>3. IInv /\ (resolution = "daily" => HealInv) /\ [Next]_vars
        => IInv' /\ (resolution = "daily" => HealInv)'
  BY <1>2, StepInv, StepHeals
<1> QED BY <1>1, <1>3, InitInv, PTL DEF Spec

\* Two days after a calm week no hole can be left: its refresh would have fallen due and run.
LEMMA CalmWeekHeals ==
  ASSUME IInv, resolution = "daily" => HealInv
  PROVE  DailyHeals
<1> SUFFICES ASSUME resolution = "daily", calm = CalmCap,
                    NEW a \in (LatestCompleted + 1) .. Retention
             PROVE  bars[a]
  BY DEF DailyHeals
<1> USE RetentionAssumption
<1>1. HealInv /\ st.refreshed \in 0 .. Week + 1 /\ st.checked \in 0 .. Older /\ LatestCompleted \in 0 .. 1
  BY RecoverFromType DEF IInv, TypeOK, States
<1>2. calm >= 3 /\ calm - 1 > Week + 1 /\ calm >= 2
  BY DEF CalmCap
<1>3. Healed
  BY <1>1, <1>2 DEF HealInv, CalmRefresh, CalmCap
<1>4. st.checked <= 1
  BY <1>1, <1>2 DEF HealInv, CalmCheckpoint
<1>5. a \in Ages /\ a >= st.checked
  BY <1>1, <1>4 DEF Ages
<1> QED BY <1>3, <1>5 DEF Healed

\* Whatever crashed, failed or came late before, two days after a week without a fault the
\* daily store holds every completed session the provider has, for every Retention and Week.
THEOREM Heals == Spec => []DailyHeals
BY HealInvariance, CalmWeekHeals, PTL

=============================================================================
