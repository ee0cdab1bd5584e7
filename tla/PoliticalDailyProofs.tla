------------------------ MODULE PoliticalDailyProofs ------------------------
(***************************************************************************)
(* Proofs about the political orchestrator under its lock, for any number   *)
(* of processes, sources and filings: while runs exclude each other, what   *)
(* a deferral is worth and that no mark is lost; and, overlapping or not,   *)
(* that no mark is ahead of the database.                                  *)
(***************************************************************************)
EXTENDS PoliticalDaily, SequenceTheorems, FiniteSetTheorems, TLAPS

-----------------------------------------------------------------------------
(* Types. *)

\* What is left of a list of sources after its first is a suffix of the list again.
LEMMA TailSuffix ==
  ASSUME NEW S, NEW s \in Seq(S), NEW t \in Suffixes(s), t # <<>>
  PROVE  Tail(t) \in Suffixes(s) /\ Head(t) \in S
<1>1. PICK i \in 1 .. Len(s) + 1 : t = SubSeq(s, i, Len(s))
  BY DEF Suffixes
<1>2. i <= Len(s)
  <2> SUFFICES ASSUME i = Len(s) + 1 PROVE FALSE
    OBVIOUS
  <2>1. SubSeq(s, i, Len(s)) = <<>>
    BY SubSeqEmpty
  <2> QED BY <1>1, <2>1
<1>3. Head(t) = s[i] /\ Tail(t) = SubSeq(s, i + 1, Len(s))
  BY <1>1, <1>2, HeadTailOfSubSeq
<1>4. i + 1 \in 1 .. Len(s) + 1 /\ s[i] \in S
  BY <1>2
<1> QED BY <1>3, <1>4 DEF Suffixes

\* The whole list is one of its suffixes, and so is the empty one.
LEMMA WholeSuffix ==
  ASSUME NEW S, NEW s \in Seq(S)
  PROVE  s \in Suffixes(s) /\ <<>> \in Suffixes(s)
<1>1. SubSeq(s, 1, Len(s)) = s
  BY SubSeqFull
<1>2. SubSeq(s, Len(s) + 1, Len(s)) = <<>>
  BY SubSeqEmpty
<1>3. 1 \in 1 .. Len(s) + 1 /\ Len(s) + 1 \in 1 .. Len(s) + 1
  OBVIOUS
<1> QED BY <1>1, <1>2, <1>3 DEF Suffixes

\* The next source is one of them, and the rest of the list is well typed.
LEMMA NextSource ==
  ASSUME NEW r \in Runs, r.todo # <<>>
  PROVE  Source(r) \in SourceNames /\ Tail(r.todo) \in Suffixes(Daily) \cup Suffixes(Weekly)
<1>1. r.todo \in Suffixes(Daily) \cup Suffixes(Weekly)
  BY DEF Runs
<1>2. CASE r.todo \in Suffixes(Daily)
  BY <1>2, TailSuffix, PoliticalAssumption DEF Source
<1>3. CASE r.todo \in Suffixes(Weekly)
  BY <1>3, TailSuffix, PoliticalAssumption DEF Source
<1> QED BY <1>1, <1>2, <1>3

\* A source that is done with leaves a run at the next one, with nothing visited, done or pending.
LEMMA Next1Type ==
  ASSUME NEW r \in Runs, r.todo # <<>>
  PROVE  /\ Next1(r) \in Runs
         /\ Next1(r).pc = "source" /\ Next1(r).mem = r.mem /\ Next1(r).dry = r.dry
         /\ Next1(r).done = {} /\ Next1(r).pending = {}
         /\ \A mem \in [SourceNames -> RunStates] :
              /\ [Next1(r) EXCEPT !.mem = mem] \in Runs
              /\ [Next1(r) EXCEPT !.mem = mem].pc = "source"
              /\ [Next1(r) EXCEPT !.mem = mem].mem = mem
              /\ [Next1(r) EXCEPT !.mem = mem].dry = r.dry
              /\ [Next1(r) EXCEPT !.mem = mem].done = {}
              /\ [Next1(r) EXCEPT !.mem = mem].pending = {}
BY NextSource DEF Next1, Runs

\* A process without a run, and what mark_ok, mark_fail and an hour make of a run state.
LEMMA NoRunType == NoRun \in Runs /\ Blank \in [SourceNames -> RunStates]
<1>1. Blank \in [SourceNames -> RunStates]
  BY PoliticalAssumption DEF Blank, RunStates
<1>2. <<>> \in Suffixes(Daily)
  BY WholeSuffix, PoliticalAssumption
<1> QED BY <1>1, <1>2 DEF NoRun, Runs, Modes

\* A capped count of hours stays below its cap.
LEMMA HourType ==
  ASSUME NEW cap \in Nat, NEW n \in 0 .. cap
  PROVE  Hour(n, cap) \in 0 .. cap
BY DEF Hour

\* mark_ok and mark_fail keep a run state well typed.
LEMMA StateType ==
  ASSUME NEW mem \in [SourceNames -> RunStates], NEW s \in SourceNames
  PROVE  /\ MarkOk(mem, s) \in [SourceNames -> RunStates]
         /\ \A h \in 0 .. MaxRetry : MarkFail(mem, s, h) \in [SourceNames -> RunStates]
<1>1. [ok |-> 0, retry |-> 0] \in RunStates
  BY PoliticalAssumption DEF RunStates
<1>2. ASSUME NEW h \in 0 .. MaxRetry PROVE [mem[s] EXCEPT !.retry = h] \in RunStates
  BY DEF RunStates
<1>3. ASSUME NEW h \in 0 .. MaxRetry PROVE [mem EXCEPT ![s].retry = h] \in [SourceNames -> RunStates]
  BY <1>2
<1> QED BY <1>1, <1>3 DEF MarkOk, MarkFail

\* So does an hour, which brings every deferral closer to its end.
LEMMA OlderType ==
  ASSUME NEW mem \in [SourceNames -> RunStates]
  PROVE  /\ Older(mem) \in [SourceNames -> RunStates]
         /\ \A s \in SourceNames :
              Older(mem)[s].retry = IF mem[s].retry = 0 THEN 0 ELSE mem[s].retry - 1
<1> SUFFICES ASSUME NEW s \in SourceNames
             PROVE  LET old == [ok |-> Hour(mem[s].ok, Cooldown),
                                retry |-> IF mem[s].retry = 0 THEN 0 ELSE mem[s].retry - 1]
                    IN  old \in RunStates
  BY DEF Older
<1>1. mem[s].ok \in 0 .. Cooldown /\ mem[s].retry \in 0 .. MaxRetry
  BY DEF RunStates
<1>2. Hour(mem[s].ok, Cooldown) \in 0 .. Cooldown
  BY <1>1, HourType, PoliticalAssumption
<1>3. (IF mem[s].retry = 0 THEN 0 ELSE mem[s].retry - 1) \in 0 .. MaxRetry
  BY <1>1, PoliticalAssumption
<1> QED BY <1>2, <1>3 DEF RunStates

\* A step of a process replaces its run by a well-typed one.
LEMMA SetType ==
  ASSUME run \in [Procs -> Runs], NEW p \in Procs, NEW r \in Runs, Set(p, r)
  PROVE  /\ run' \in [Procs -> Runs]
         /\ run'[p] = r
         /\ \A q \in Procs \ {p} : run'[q] = run[q]
BY DEF Set

\* Every step of the lock keeps its types.
LEMMA LockType ==
  ASSUME LockTypeOK,
         \/ \E p \in Procs : TestLock(p) \/ OpenLock(p) \/ StampLock(p) \/ Unlink(p) \/ Die(p)
         \/ LockAges
         \/ UNCHANGED lockVars
  PROVE  LockTypeOK'
<1> USE StaleAssumption DEF LockTypeOK
<1>1. ASSUME NEW p \in Procs, TestLock(p) \/ OpenLock(p) \/ StampLock(p) \/ Unlink(p) \/ Die(p)
      PROVE  LockTypeOK'
  <2>1. {Absent, Empty, Held(0)} \subseteq [is : {"absent", "empty", "held"}, age : 0 .. Stale]
    BY DEF Absent, Empty, Held
  <2>2. CASE TestLock(p)
    BY <2>2 DEF TestLock
  <2>3. CASE OpenLock(p)
    BY <2>1, <2>3 DEF OpenLock
  <2>4. CASE StampLock(p)
    BY <2>1, <2>4 DEF StampLock
  <2>5. CASE Unlink(p)
    BY <2>1, <2>5 DEF Unlink
  <2>6. CASE Die(p)
    BY <2>6 DEF Die
  <2> QED BY <1>1, <2>2, <2>3, <2>4, <2>5, <2>6
<1>2. CASE LockAges
  <2>1. \A n \in 0 .. Stale : Hour(n, Stale) \in 0 .. Stale
    BY HourType
  <2>2. lockFile' \in [is : {"absent", "empty", "held"}, age : 0 .. Stale]
    BY <1>2, <2>1 DEF LockAges
  <2>3. inside' \in [Procs -> 0 .. Stale]
    BY <1>2, <2>1 DEF LockAges
  <2> QED BY <1>2, <2>2, <2>3 DEF LockAges
<1>3. CASE UNCHANGED lockVars
  BY <1>3 DEF lockVars
<1> QED BY <1>1, <1>2, <1>3

\* What a filing, a batch and the end of a source make of a run.
LEMMA HouseTypes ==
  ASSUME NEW r \in Runs, NEW f \in Filings
  PROVE  LET left   == [r EXCEPT !.visit = @ \ {f}]
             parsed == [left EXCEPT !.done = @ \cup {f}]
         IN  /\ left \in Runs /\ parsed \in Runs
             /\ \A pc \in {"rows", "filing"} :
                  [parsed EXCEPT !.pending = @ \cup {f}, !.pc = pc] \in Runs
BY DEF Runs

Visiting == {"filing", "rows", "marks"}

\* A run that visits filings was sent there by the House Clerk source, not cooling down.
AtHouse ==
  \A p \in Procs : run[p].pc \in Visiting =>
    /\ run[p].todo # <<>>
    /\ Source(run[p]) = HouseClerk
    /\ run[p].mem[HouseClerk].retry = 0

\* Every step keeps the types.
LEMMA StepType == TypeOK /\ AtHouse /\ [Next]_vars => TypeOK'
<1> SUFFICES ASSUME TypeOK, AtHouse, [Next]_vars PROVE TypeOK'
  OBVIOUS
<1> USE PoliticalAssumption
<1>0. /\ LockTypeOK /\ runFile \in [SourceNames -> RunStates] /\ seeded \in BOOLEAN
      /\ run \in [Procs -> Runs] /\ doneFile \subseteq Filings /\ stored \subseteq Filings
      /\ index \subseteq Filings /\ asked \in [SourceNames -> 0 .. MaxRetry]
      /\ forgot \subseteq SourceNames /\ dryMarked \subseteq Filings
  BY DEF TypeOK
<1>1. ASSUME NEW p \in Procs, NEW r \in Runs, Set(p, r),
             UNCHANGED <<lockVars, runFile, seeded, doneFile, stored, index, asked, forgot, dryMarked>>
      PROVE  TypeOK'
  BY <1>0, <1>1, SetType, LockType DEF TypeOK
<1>2. ASSUME NEW p \in Procs PROVE run[p] \in Runs
  BY <1>0
<1>3. ASSUME NEW p \in Procs, Enter(p) PROVE TypeOK'
  <2>1. LockTypeOK'
    BY <1>0, <1>3, LockType DEF Enter
  <2> QED BY <1>0, <1>3, <2>1 DEF Enter, TypeOK, sourceVars
<1>4. ASSUME NEW p \in Procs, LoadState(p) PROVE TypeOK'
  <2>1. PICK mode \in Modes, dry \in BOOLEAN :
          Set(p, IF mode = "hourly" /\ ~seeded THEN [NoRun EXCEPT !.pc = "end", !.mode = mode]
                 ELSE [NoRun EXCEPT !.pc = "source", !.mode = mode, !.dry = dry,
                                    !.todo = Daily, !.mem = runFile])
    BY <1>4 DEF LoadState
  <2>2. Daily \in Suffixes(Daily)
    BY WholeSuffix
  <2>3. /\ [NoRun EXCEPT !.pc = "end", !.mode = mode] \in Runs
        /\ [NoRun EXCEPT !.pc = "source", !.mode = mode, !.dry = dry,
                         !.todo = Daily, !.mem = runFile] \in Runs
    BY <1>0, <2>2, NoRunType DEF Runs
  <2> QED BY <1>1, <1>4, <2>1, <2>3 DEF LoadState, sourceVars
<1>5. ASSUME NEW p \in Procs, SkipSource(p) PROVE TypeOK'
  BY <1>1, <1>2, <1>5, Next1Type DEF SkipSource, sourceVars
<1>6. ASSUME NEW p \in Procs, CallSource(p) PROVE TypeOK'
  <2> DEFINE r == run[p]
             s == Source(r)
  <2>1. r.todo # <<>> /\ s \in SourceNames /\ r.mem \in [SourceNames -> RunStates]
    BY <1>2, <1>6, NextSource DEF CallSource, Calling, Runs
  <2>2. CASE Set(p, [Next1(r) EXCEPT !.mem = MarkOk(r.mem, s)]) /\ UNCHANGED <<asked, forgot>>
    <3>1. [Next1(r) EXCEPT !.mem = MarkOk(r.mem, s)] \in Runs
      BY <1>2, <2>1, StateType, Next1Type
    <3> QED BY <1>1, <1>6, <2>2, <3>1 DEF CallSource, sourceVars
  <2>3. CASE Set(p, Next1(r)) /\ UNCHANGED <<asked, forgot>>
    BY <1>1, <1>2, <1>6, <2>1, <2>3, Next1Type DEF CallSource, sourceVars
  <2>4. ASSUME NEW h \in 1 .. MaxRetry, Set(p, [Next1(r) EXCEPT !.mem = MarkFail(r.mem, s, h)]),
               asked' = [asked EXCEPT ![s] = h], forgot' = forgot \ {s}
        PROVE  TypeOK'
    <3>1. [Next1(r) EXCEPT !.mem = MarkFail(r.mem, s, h)] \in Runs
      <4>1. MarkFail(r.mem, s, h) \in [SourceNames -> RunStates]
        <5>1. h \in 0 .. MaxRetry
          OBVIOUS
        <5> HIDE DEF r, s
        <5> QED BY <2>1, <5>1, StateType
      <4> QED BY <1>2, <2>1, <4>1, Next1Type
    <3>2. run' \in [Procs -> Runs]
      BY <1>0, <2>4, <3>1, SetType
    <3>3. asked' \in [SourceNames -> 0 .. MaxRetry] /\ forgot' \subseteq SourceNames
      BY <1>0, <2>1, <2>4
    <3> QED BY <1>0, <1>6, <3>2, <3>3, LockType DEF CallSource, sourceVars, TypeOK
  <2> QED BY <1>6, <2>2, <2>3, <2>4 DEF CallSource
<1>7. ASSUME NEW p \in Procs, SaveState(p) PROVE TypeOK'
  <2>1. \A pc \in {"reload", "end"} : [run[p] EXCEPT !.pc = pc] \in Runs
    BY <1>2 DEF Runs
  <2>2. run' \in [Procs -> Runs]
    BY <1>0, <1>7, <2>1, SetType DEF SaveState
  <2>3. runFile' \in [SourceNames -> RunStates]
    BY <1>2, <1>7 DEF SaveState, Runs
  <2> QED BY <1>0, <1>7, <2>2, <2>3, LockType DEF SaveState, sourceVars, TypeOK
<1>8. ASSUME NEW p \in Procs, ReloadState(p) PROVE TypeOK'
  <2>1. Weekly \in Suffixes(Weekly)
    BY WholeSuffix
  <2>2. [run[p] EXCEPT !.pc = "source", !.part = "weekly", !.todo = Weekly, !.mem = runFile] \in Runs
    BY <1>0, <1>2, <2>1, ZenonT(40) DEF Runs
  <2> QED BY <1>1, <1>8, <2>2 DEF ReloadState, sourceVars
<1>9. ASSUME NEW p \in Procs, Metrics(p) PROVE TypeOK'
  <2>1. /\ [run[p] EXCEPT !.pc = "metrics"] \in Runs
        /\ [run[p] EXCEPT !.pc = "end", !.mem = runFile] \in Runs
    BY <1>0, <1>2, ZenonT(40) DEF Runs
  <2>2. run' \in [Procs -> Runs]
    BY <1>0, <1>9, <2>1, SetType DEF Metrics
  <2>3. forgot' \subseteq SourceNames
    BY <1>0, <1>9 DEF Metrics, Unsaved
  <2> QED BY <1>0, <1>9, <2>2, <2>3, LockType DEF Metrics, sourceVars, TypeOK
<1>10. ASSUME NEW p \in Procs, Exit(p) \/ Crash(p) PROVE TypeOK'
  <2>1. run' \in [Procs -> Runs]
    BY <1>0, <1>10, NoRunType, SetType DEF Exit, Crash
  <2>2. LockTypeOK'
    BY <1>0, <1>10, LockType DEF Exit, Crash
  <2>3. forgot' \subseteq SourceNames
    BY <1>0, <1>10 DEF Exit, Crash, Unsaved
  <2> QED BY <1>0, <1>10, <2>1, <2>2, <2>3 DEF Exit, Crash, sourceVars, TypeOK
<1>11. ASSUME NEW p \in Procs, CallHouse(p) PROVE TypeOK'
  <2>1. \A listed \in {index, {}} :
          [run[p] EXCEPT !.pc = "filing", !.done = doneFile, !.visit = listed] \in Runs
    BY <1>0, <1>2, ZenonT(40) DEF Runs
  <2> QED BY <1>1, <1>11, <2>1 DEF CallHouse, sourceVars
<1>12. ASSUME NEW p \in Procs, VisitFiling(p) PROVE TypeOK'
  <2> DEFINE r == run[p]
             left(f) == [r EXCEPT !.visit = @ \ {f}]
             parsed(f) == [left(f) EXCEPT !.done = @ \cup {f}]
  <2>1. PICK f \in r.visit :
          \/ Set(p, left(f))
          \/ Set(p, parsed(f))
          \/ \E pc \in {"rows", "filing"} :
               Set(p, [parsed(f) EXCEPT !.pending = @ \cup {f}, !.pc = pc])
    BY <1>12 DEF VisitFiling
  <2>2. f \in Filings
    BY <1>2 DEF Runs
  <2>3. /\ left(f) \in Runs /\ parsed(f) \in Runs
        /\ \A pc \in {"rows", "filing"} :
             [parsed(f) EXCEPT !.pending = @ \cup {f}, !.pc = pc] \in Runs
    BY <1>2, <2>2, HouseTypes
  <2> HIDE DEF left, parsed
  <2>4. PICK new \in Runs : Set(p, new)
    BY <2>1, <2>3
  <2> QED BY <1>1, <1>12, <2>4 DEF VisitFiling, sourceVars
<1>13. ASSUME NEW p \in Procs, WriteRows(p) PROVE TypeOK'
  <2>1. [run[p] EXCEPT !.pc = "marks"] \in Runs /\ run[p].pending \subseteq Filings
    BY <1>2 DEF Runs
  <2>2. run' \in [Procs -> Runs] /\ stored' \subseteq Filings
    BY <1>0, <1>13, <2>1, SetType DEF WriteRows
  <2> QED BY <1>0, <1>13, <2>2, LockType DEF WriteRows, TypeOK
<1>14. ASSUME NEW p \in Procs, SaveMarks(p) PROVE TypeOK'
  <2> DEFINE r == run[p]
  <2>1. r.todo # <<>> /\ r.mem \in [SourceNames -> RunStates] /\ r.done \subseteq Filings
    BY <1>2, <1>14 DEF SaveMarks, At, AtHouse, Visiting, Runs
  <2>2. HouseClerk \in SourceNames
    BY <1>2, <1>14, NextSource DEF SaveMarks, At, AtHouse, Visiting
  <2>3. [Next1(r) EXCEPT !.mem = MarkOk(r.mem, HouseClerk)] \in Runs
    BY <1>2, <2>1, <2>2, StateType, Next1Type
  <2>4. [r EXCEPT !.pc = "filing", !.pending = {}] \in Runs
    BY <1>2 DEF Runs
  <2>5. run' \in [Procs -> Runs]
    BY <1>0, <1>14, <2>3, <2>4, SetType DEF SaveMarks
  <2>6. doneFile' \subseteq Filings /\ dryMarked' \subseteq Filings
    BY <1>0, <1>14, <2>1 DEF SaveMarks
  <2> QED BY <1>0, <1>14, <2>5, <2>6, LockType DEF SaveMarks, TypeOK
<1>15. ASSUME NEW p \in Procs, HouseFails(p) PROVE TypeOK'
  <2>1. run[p].todo # <<>>
    BY <1>15 DEF HouseFails, At, AtHouse, Visiting
  <2> QED BY <1>1, <1>2, <1>15, <2>1, Next1Type DEF HouseFails, sourceVars
<1>16. CASE Publish
  <2>1. Cardinality(index) + 1 \in Filings
    <3>1. IsFiniteSet(Filings) /\ Cardinality(Filings) = NumFilings
      BY FS_Interval DEF Filings
    <3>2. IsFiniteSet(index) /\ Cardinality(index) < Cardinality(Filings)
      <4>1. IsFiniteSet(index) /\ Cardinality(index) <= Cardinality(Filings)
        BY <1>0, <3>1, FS_Subset
      <4>2. Cardinality(index) # Cardinality(Filings)
        BY <1>0, <1>16, <3>1, FS_Subset DEF Publish
      <4> QED BY <3>1, <4>1, <4>2, FS_CardinalityType
    <3>3. Cardinality(index) \in Nat
      BY <3>2, FS_CardinalityType
    <3> QED BY <3>1, <3>2, <3>3 DEF Filings
  <2> QED BY <1>0, <1>16, <2>1, LockType DEF Publish, TypeOK
<1>17. CASE Tick
  <2>1. LockTypeOK'
    BY <1>0, <1>17, LockType DEF Tick
  <2>2. runFile' \in [SourceNames -> RunStates]
    BY <1>0, <1>17, OlderType DEF Tick
  <2>3. ASSUME NEW p \in Procs PROVE [run[p] EXCEPT !.mem = Older(@)] \in Runs
    <3>1. Older(run[p].mem) \in [SourceNames -> RunStates]
      BY <1>2, OlderType DEF Runs
    <3> QED BY <1>2, <3>1 DEF Runs
  <2>4. run' \in [Procs -> Runs]
    BY <1>2, <1>17, <2>3 DEF Tick
  <2>5. asked' \in [SourceNames -> 0 .. MaxRetry]
    <3>1. ASSUME NEW s \in SourceNames
          PROVE  (IF asked[s] = 0 THEN 0 ELSE asked[s] - 1) \in 0 .. MaxRetry
      <4>1. asked[s] \in 0 .. MaxRetry
        BY <1>0
      <4> QED BY <4>1
    <3> QED BY <1>17, <3>1 DEF Tick
  <2>6. forgot' \subseteq SourceNames
    BY <1>0, <1>17 DEF Tick
  <2> QED BY <1>0, <1>17, <2>1, <2>2, <2>4, <2>5, <2>6 DEF Tick, sourceVars, TypeOK
<1>18. CASE UNCHANGED vars
  BY <1>0, <1>18, LockType DEF vars, TypeOK
<1> QED BY <1>3, <1>4, <1>5, <1>6, <1>7, <1>8, <1>9, <1>10, <1>11, <1>12, <1>13, <1>14, <1>15, <1>16,
           <1>17, <1>18 DEF Next, Step

-----------------------------------------------------------------------------
(* Mutual exclusion. *)

Unbroken == ~raced /\ ~overran

\* As long as nothing broke the lock, one process at most is past its test, and the file of
\* the one that is in is as old as its stay and not stale.
LockHeld ==
  Unbroken =>
    /\ \A p, q \in Procs : stage[p] # "out" /\ stage[q] # "out" => p = q
    /\ \A p \in Procs : stage[p] = "in" => lockFile = Held(inside[p]) /\ inside[p] < Stale

\* Only a process under the lock has a run.
RunsInside == \A p \in Procs : run[p].pc # "none" => stage[p] = "in"

\* Every step of the lock keeps it held.
LEMMA LockHeldStep ==
  ASSUME LockTypeOK, LockHeld,
         \/ \E p \in Procs : TestLock(p) \/ OpenLock(p) \/ StampLock(p) \/ Unlink(p) \/ Die(p)
         \/ LockAges
         \/ UNCHANGED lockVars
  PROVE  LockHeld' /\ (Unbroken' => Unbroken)
<1> USE StaleAssumption
<1>0. /\ stage \in [Procs -> {"out", "tested", "opened", "in"}] /\ inside \in [Procs -> 0 .. Stale]
      /\ raced \in BOOLEAN /\ overran \in BOOLEAN
  BY DEF LockTypeOK
<1>1. Unbroken' => Unbroken
  BY DEF Unbroken, TestLock, OpenLock, StampLock, Unlink, Die, LockAges, lockVars
<1>2. ASSUME Unbroken', NEW p \in Procs, TestLock(p) PROVE LockHeld'
  <2>1. \A q \in Procs : stage[q] \notin {"tested", "opened"}
    BY <1>2 DEF TestLock, Unbroken, Entering
  <2>2. \A q \in Procs : stage[q] # "in"
    BY <1>0, <1>1, <1>2 DEF TestLock, LockHeld, Free, Held
  <2> QED BY <1>0, <1>2, <2>1, <2>2 DEF TestLock, LockHeld
<1>3. ASSUME Unbroken', NEW p \in Procs, OpenLock(p) PROVE LockHeld'
  <2>1. \A q \in Procs \ {p} : stage[q] = "out"
    BY <1>1, <1>3 DEF OpenLock, LockHeld
  <2> QED BY <1>0, <1>3, <2>1 DEF OpenLock, LockHeld
<1>4. ASSUME Unbroken', NEW p \in Procs, StampLock(p) PROVE LockHeld'
  <2>1. \A q \in Procs \ {p} : stage[q] = "out"
    BY <1>1, <1>4 DEF StampLock, LockHeld
  <2>2. inside'[p] = 0 /\ lockFile' = Held(0) /\ 0 < Stale
    BY <1>0, <1>4 DEF StampLock
  <2> QED BY <1>0, <1>4, <2>1, <2>2 DEF StampLock, LockHeld
<1>5. ASSUME Unbroken', NEW p \in Procs, Unlink(p) \/ Die(p) PROVE LockHeld'
  <2>1. \A q \in Procs : stage'[q] # "out" => q # p /\ stage[q] # "out" /\ stage'[q] = stage[q] /\ inside'[q] = inside[q]
    BY <1>0, <1>5 DEF Unlink, Die
  <2>2. \A q \in Procs : stage'[q] = "out"
    BY <1>1, <1>5, <2>1 DEF Unlink, Die, LockHeld
  <2> QED BY <2>2 DEF LockHeld
<1>6. ASSUME Unbroken', LockAges PROVE LockHeld'
  <2>1. ASSUME NEW p \in Procs, stage'[p] = "in"
        PROVE  lockFile' = Held(inside'[p]) /\ inside'[p] < Stale
    <3>1. stage[p] = "in" /\ lockFile = Held(inside[p]) /\ inside[p] < Stale
      BY <1>1, <1>6, <2>1 DEF LockAges, LockHeld
    <3>2. inside[p] + 1 < Stale
      <4>1. ~(inside[p] + 1 >= Stale)
        BY <1>6, <3>1 DEF LockAges, Unbroken
      <4>2. inside[p] \in Nat
        BY <1>0
      <4> QED BY <4>1, <4>2
    <3>3. Hour(inside[p], Stale) = inside[p] + 1
      BY <1>0, <3>1 DEF Hour
    <3>4. inside'[p] = Hour(inside[p], Stale)
      BY <1>6, <3>1 DEF LockAges
    <3>5. lockFile' = [Held(inside[p]) EXCEPT !.age = Hour(inside[p], Stale)]
      BY <1>6, <3>1 DEF LockAges, Held
    <3> QED BY <3>2, <3>3, <3>4, <3>5 DEF Held
  <2> QED BY <1>1, <1>6, <2>1 DEF LockAges, LockHeld
<1>7. ASSUME Unbroken', UNCHANGED lockVars PROVE LockHeld'
  BY <1>1, <1>7 DEF lockVars, LockHeld
<1> QED BY <1>1, <1>2, <1>3, <1>4, <1>5, <1>6, <1>7 DEF LockHeld

\* What a step of the orchestrator does to the lock.
LEMMA LockSteps ==
  ASSUME [Next]_vars
  PROVE  \/ \E p \in Procs : TestLock(p) \/ OpenLock(p) \/ StampLock(p) \/ Unlink(p) \/ Die(p)
         \/ LockAges
         \/ UNCHANGED lockVars
<1>1. ASSUME NEW p \in Procs, Step(p) \/ Crash(p)
      PROVE  \/ TestLock(p) \/ OpenLock(p) \/ StampLock(p) \/ Unlink(p) \/ Die(p)
             \/ UNCHANGED lockVars
  BY <1>1 DEF Step, Crash, Enter, LoadState, SkipSource, CallSource, SaveState, ReloadState, Metrics, Exit,
              CallHouse, VisitFiling, WriteRows, SaveMarks, HouseFails
<1>2. CASE Publish \/ Tick \/ UNCHANGED vars
  BY <1>2 DEF Publish, Tick, vars
<1> QED BY <1>1, <1>2 DEF Next

\* A step of one process leaves the runs of the others alone.
LEMMA OthersUntouched ==
  ASSUME TypeOK, NEW p \in Procs, Step(p) \/ Crash(p), NEW q \in Procs, q # p
  PROVE  run'[q] = run[q]
<1>1. run \in [Procs -> Runs]
  BY DEF TypeOK
<1> USE <1>1 DEF Set
<1>2. CASE Enter(p) \/ LoadState(p) \/ SkipSource(p) \/ CallSource(p) \/ SaveState(p)
  BY <1>2 DEF Enter, LoadState, SkipSource, CallSource, SaveState
<1>3. CASE ReloadState(p) \/ Metrics(p) \/ Exit(p) \/ CallHouse(p) \/ VisitFiling(p)
  BY <1>3 DEF ReloadState, Metrics, Exit, CallHouse, VisitFiling
<1>4. CASE WriteRows(p) \/ SaveMarks(p) \/ HouseFails(p) \/ Crash(p)
  BY <1>4 DEF WriteRows, SaveMarks, HouseFails, Crash
<1> QED BY <1>2, <1>3, <1>4 DEF Step

\* A run exists from the load of the run state to the end of the process.
LEMMA RunsInsideStep ==
  ASSUME TypeOK, RunsInside, [Next]_vars
  PROVE  RunsInside'
<1> SUFFICES ASSUME NEW q \in Procs, run'[q].pc # "none" PROVE stage'[q] = "in"
  BY DEF RunsInside
<1>0. run \in [Procs -> Runs] /\ stage \in [Procs -> {"out", "tested", "opened", "in"}]
  BY DEF TypeOK, LockTypeOK
<1>1. CASE UNCHANGED <<run, stage>>
  BY <1>1 DEF RunsInside
<1>2. ASSUME NEW p \in Procs, Enter(p) PROVE stage'[q] = "in"
  <2>1. stage[q] = "in"
    BY <1>2 DEF Enter, RunsInside
  <2> QED BY <1>0, <1>2, <2>1 DEF Enter, TestLock, OpenLock, StampLock
<1>3. ASSUME NEW p \in Procs, Exit(p) \/ Crash(p) PROVE stage'[q] = "in"
  <2>1. q # p
    <3> SUFFICES ASSUME q = p PROVE FALSE
      OBVIOUS
    <3>1. run'[p] = NoRun
      BY <1>0, <1>3 DEF Exit, Crash, Set
    <3> QED BY <3>1 DEF NoRun
  <2>2. run'[q] = run[q]
    BY <1>3, <2>1, OthersUntouched DEF Step
  <2> QED BY <1>0, <1>3, <2>1, <2>2 DEF RunsInside, Exit, Crash, Unlink, Die
<1>4. ASSUME NEW p \in Procs,
             \/ LoadState(p) \/ SkipSource(p) \/ CallSource(p) \/ SaveState(p) \/ ReloadState(p)
             \/ Metrics(p) \/ CallHouse(p) \/ VisitFiling(p) \/ WriteRows(p) \/ SaveMarks(p)
             \/ HouseFails(p)
      PROVE  stage'[q] = "in"
  <2>1. stage[p] = "in" /\ UNCHANGED stage
    BY <1>4 DEF LoadState, SkipSource, CallSource, SaveState, ReloadState, Metrics, CallHouse, VisitFiling,
                WriteRows, SaveMarks, HouseFails, Calling, At, lockVars
  <2>2. q # p => run'[q] = run[q]
    BY <1>4, OthersUntouched DEF Step
  <2> QED BY <2>1, <2>2 DEF RunsInside
<1>5. CASE Publish \/ UNCHANGED vars
  BY <1>1, <1>5 DEF Publish, vars, lockVars
<1>6. CASE Tick
  <2>1. run'[q].pc = run[q].pc
    BY <1>0, <1>6 DEF Tick, Runs
  <2> QED BY <1>6, <2>1 DEF Tick, LockAges, RunsInside
<1> QED BY <1>2, <1>3, <1>4, <1>5, <1>6 DEF Next, Step

-----------------------------------------------------------------------------
(* What a run carries. *)

\* A filing a real run calls done is stored, has no trade, was marked by a dry run, or waits
\* in the batch; past the write of the batch it is stored.
Backed(r) ==
  ~r.dry => /\ r.done \subseteq stored \cup Tradeless \cup dryMarked \cup r.pending
            /\ r.pc = "marks" => r.pending \subseteq stored

AllBacked == \A p \in Procs : Backed(run[p])

\* A run that visits filings knows of every saved mark.
MarksIncluded ==
  ~Overlapped => \A p \in Procs : run[p].pc \in Visiting => doneFile \subseteq run[p].done

\* Either the run or the file remembers what the servers asked for.
Rereads == {"none", "end", "reload"}
Remembered(mem) == \A s \in SourceNames \ forgot : asked[s] <= mem[s].retry
Deferrals ==
  ~Overlapped =>
    /\ \A p \in Procs : run[p].pc \notin Rereads => Remembered(run[p].mem)
    /\ (\A p \in Procs : run[p].pc \in Rereads) => Remembered(runFile)

\* The inductive invariant.
IInv ==
  TypeOK /\ LockHeld /\ RunsInside /\ AtHouse /\ AllBacked /\ DoneIsStored /\ MarksIncluded /\ Deferrals

-----------------------------------------------------------------------------
(* What a step makes of the run of its process, field by field. *)

\* A run begins with the saved run state, or has nothing to do.
LEMMA LoadFields ==
  ASSUME TypeOK, NEW p \in Procs, LoadState(p)
  PROVE  /\ run[p].pc = "none" /\ run'[p].pc \in {"source", "end"}
         /\ run'[p].done = {} /\ run'[p].pending = {}
         /\ run'[p].pc = "source" => run'[p].mem = runFile
<1>1. PICK mode \in Modes, dry \in BOOLEAN :
        Set(p, IF mode = "hourly" /\ ~seeded THEN [NoRun EXCEPT !.pc = "end", !.mode = mode]
               ELSE [NoRun EXCEPT !.pc = "source", !.mode = mode, !.dry = dry,
                                  !.todo = Daily, !.mem = runFile])
  BY DEF LoadState
<1>2. run'[p] \in {[NoRun EXCEPT !.pc = "end", !.mode = mode],
                   [NoRun EXCEPT !.pc = "source", !.mode = mode, !.dry = dry,
                                 !.todo = Daily, !.mem = runFile]}
  BY <1>1 DEF Set, TypeOK
<1> QED BY <1>2 DEF NoRun, LoadState, At

\* A source that is not due leaves the run state alone.
LEMMA SkipFields ==
  ASSUME TypeOK, NEW p \in Procs, SkipSource(p)
  PROVE  /\ run[p].pc = "source" /\ run'[p].pc = "source"
         /\ run'[p].done = {} /\ run'[p].pending = {} /\ run'[p].mem = run[p].mem
BY SetType, Next1Type DEF TypeOK, SkipSource, At

\* The three outcomes of a source: it returns, fails, or is deferred by its server.
LEMMA CallFields ==
  ASSUME TypeOK, NEW p \in Procs, CallSource(p)
  PROVE  LET r == run[p]
             s == Source(r)
         IN  /\ r.pc = "source" /\ run'[p].pc = "source"
             /\ run'[p].done = {} /\ run'[p].pending = {}
             /\ s \in SourceNames /\ r.mem[s].retry = 0
             /\ \/ run'[p].mem = MarkOk(r.mem, s) /\ UNCHANGED <<asked, forgot>>
                \/ run'[p].mem = r.mem /\ UNCHANGED <<asked, forgot>>
                \/ \E h \in 1 .. MaxRetry :
                     /\ run'[p].mem = [r.mem EXCEPT ![s].retry = h]
                     /\ asked' = [asked EXCEPT ![s] = h]
                     /\ forgot' = forgot \ {s}
<1> DEFINE r == run[p]
           s == Source(r)
<1>1. /\ r \in Runs /\ r.pc = "source" /\ r.todo # <<>> /\ s \in SourceNames /\ r.mem[s].retry = 0
      /\ run \in [Procs -> Runs] /\ r.mem \in [SourceNames -> RunStates]
  BY NextSource DEF TypeOK, CallSource, Calling, ShouldRun, At, Runs
<1>2. ASSUME NEW mem \in [SourceNames -> RunStates], Set(p, [Next1(r) EXCEPT !.mem = mem])
      PROVE  run'[p].pc = "source" /\ run'[p].done = {} /\ run'[p].pending = {} /\ run'[p].mem = mem
  <2> HIDE DEF r, s
  <2>1. [Next1(r) EXCEPT !.mem = mem] \in Runs
    BY <1>1, Next1Type
  <2>2. run'[p] = [Next1(r) EXCEPT !.mem = mem]
    BY <1>1, <1>2, <2>1, SetType
  <2> QED BY <1>1, <2>2, Next1Type
<1>3. CASE Set(p, [Next1(r) EXCEPT !.mem = MarkOk(r.mem, s)]) /\ UNCHANGED <<asked, forgot>>
  BY <1>1, <1>2, <1>3, StateType
<1>4. CASE Set(p, Next1(r)) /\ UNCHANGED <<asked, forgot>>
  BY <1>1, <1>4, SetType, Next1Type
<1>5. ASSUME NEW h \in 1 .. MaxRetry, Set(p, [Next1(r) EXCEPT !.mem = MarkFail(r.mem, s, h)]),
             asked' = [asked EXCEPT ![s] = h], forgot' = forgot \ {s}
      PROVE  /\ run'[p].pc = "source" /\ run'[p].done = {} /\ run'[p].pending = {}
             /\ run'[p].mem = [r.mem EXCEPT ![s].retry = h]
  <2>1. h \in 0 .. MaxRetry /\ h # 0
    BY PoliticalAssumption
  <2>2. MarkFail(r.mem, s, h) \in [SourceNames -> RunStates]
    <3> HIDE DEF r, s
    <3> QED BY <1>1, <2>1, StateType
  <2>3. MarkFail(r.mem, s, h) = [r.mem EXCEPT ![s].retry = h]
    BY <2>1 DEF MarkFail
  <2> HIDE DEF r, s
  <2> QED BY <1>2, <1>5, <2>2, <2>3
<1> QED BY <1>1, <1>3, <1>4, <1>5 DEF CallSource

\* A saved run goes to its weekly part or ends.
LEMMA SaveFields ==
  ASSUME TypeOK, NEW p \in Procs, SaveState(p)
  PROVE  /\ run[p].pc \in {"source", "metrics"} /\ run'[p].pc \in {"reload", "end"}
         /\ run'[p].done = run[p].done /\ run'[p].pending = run[p].pending
         /\ run'[p].dry = run[p].dry
BY DEF TypeOK, SaveState, At, Set, Runs

\* The weekly part begins with the saved run state.
LEMMA ReloadFields ==
  ASSUME TypeOK, NEW p \in Procs, ReloadState(p)
  PROVE  /\ run[p].pc = "reload" /\ run'[p].pc = "source" /\ run'[p].mem = runFile
         /\ run'[p].done = run[p].done /\ run'[p].pending = run[p].pending
         /\ run'[p].dry = run[p].dry
BY DEF TypeOK, ReloadState, At, Set, Runs

\* The metrics snapshot is taken, or raises and ends the run unsaved.
LEMMA MetricsFields ==
  ASSUME TypeOK, NEW p \in Procs, Metrics(p)
  PROVE  /\ run[p].pc = "source"
         /\ run'[p].done = run[p].done /\ run'[p].pending = run[p].pending
         /\ run'[p].dry = run[p].dry
         /\ \/ run'[p].pc = "metrics" /\ run'[p].mem = run[p].mem /\ UNCHANGED forgot
            \/ run'[p].pc = "end" /\ forgot' = forgot \cup Unsaved(run[p])
<1>1. run \in [Procs -> Runs] /\ run[p] \in Runs /\ run[p].pc = "source"
  BY DEF TypeOK, Metrics, At
<1>2. CASE Set(p, [run[p] EXCEPT !.pc = "metrics"]) /\ UNCHANGED forgot
  BY <1>1, <1>2 DEF Set, Runs
<1>3. CASE Set(p, [run[p] EXCEPT !.pc = "end", !.mem = runFile]) /\ forgot' = forgot \cup Unsaved(run[p])
  BY <1>1, <1>3 DEF Set, Runs
<1> QED BY <1>2, <1>3 DEF Metrics

\* A process that exits or dies has no run.
LEMMA QuitFields ==
  ASSUME TypeOK, NEW p \in Procs, Exit(p) \/ Crash(p)
  PROVE  run'[p] = NoRun
BY DEF TypeOK, Exit, Crash, Set

\* The House Clerk source starts from the saved done set, and is not cooling down.
LEMMA HouseFields ==
  ASSUME TypeOK, NEW p \in Procs, CallHouse(p)
  PROVE  /\ run[p].pc = "source" /\ run'[p].pc = "filing" /\ run'[p].done = doneFile
         /\ run'[p].mem = run[p].mem /\ run'[p].todo = run[p].todo
         /\ run[p].todo # <<>> /\ Source(run[p]) = HouseClerk /\ run[p].mem[HouseClerk].retry = 0
BY DEF TypeOK, CallHouse, Calling, ShouldRun, At, Set, Runs

\* A visited filing is done only without trades or with its trades in the batch.
LEMMA FilingFields ==
  ASSUME TypeOK, NEW p \in Procs, VisitFiling(p)
  PROVE  /\ run[p].pc = "filing" /\ run'[p].pc \in {"filing", "rows"}
         /\ run'[p].mem = run[p].mem /\ run'[p].todo = run[p].todo /\ run'[p].dry = run[p].dry
         /\ run[p].done \subseteq run'[p].done /\ run[p].pending \subseteq run'[p].pending
         /\ run'[p].done \subseteq run[p].done \cup Tradeless \cup run'[p].pending
<1> DEFINE r == run[p]
           left(f) == [r EXCEPT !.visit = @ \ {f}]
           parsed(f) == [left(f) EXCEPT !.done = @ \cup {f}]
           full(f, pc) == [parsed(f) EXCEPT !.pending = @ \cup {f}, !.pc = pc]
<1>1. run \in [Procs -> Runs] /\ r \in Runs /\ r.pc = "filing"
  BY DEF TypeOK, VisitFiling, At
<1>2. PICK f \in r.visit :
        \/ Set(p, left(f))
        \/ f \in Tradeless /\ Set(p, parsed(f))
        \/ \E pc \in {"rows", "filing"} : Set(p, full(f, pc))
  BY DEF VisitFiling
<1>3. \A new : Set(p, new) => run'[p] = new
  BY <1>1 DEF Set
<1>4. CASE Set(p, left(f))
  <2>1. run'[p] = left(f)
    BY <1>3, <1>4
  <2> QED BY <1>1, <2>1 DEF Runs
<1>5. CASE f \in Tradeless /\ Set(p, parsed(f))
  <2>1. run'[p] = parsed(f)
    BY <1>3, <1>5
  <2> QED BY <1>1, <1>5, <2>1 DEF Runs
<1>6. CASE \E pc \in {"rows", "filing"} : Set(p, full(f, pc))
  <2>1. PICK pc \in {"rows", "filing"} : run'[p] = full(f, pc)
    BY <1>3, <1>6
  <2>2. /\ run'[p].pc = pc /\ run'[p].mem = r.mem /\ run'[p].todo = r.todo /\ run'[p].dry = r.dry
        /\ run'[p].done = r.done \cup {f} /\ run'[p].pending = r.pending \cup {f}
    BY <1>1, <2>1 DEF Runs
  <2> QED BY <1>1, <2>2
<1> QED BY <1>2, <1>4, <1>5, <1>6

\* The write of a batch leaves the run's sets alone.
LEMMA RowsFields ==
  ASSUME TypeOK, NEW p \in Procs, WriteRows(p)
  PROVE  /\ run[p].pc \in {"filing", "rows"} /\ run'[p].pc = "marks"
         /\ run'[p].mem = run[p].mem /\ run'[p].todo = run[p].todo /\ run'[p].dry = run[p].dry
         /\ run'[p].done = run[p].done /\ run'[p].pending = run[p].pending
BY DEF TypeOK, WriteRows, At, Set, Runs

\* The save of the marks goes on with an empty batch, or marks the source ok.
LEMMA MarksFields ==
  ASSUME TypeOK, AtHouse, NEW p \in Procs, SaveMarks(p)
  PROVE  /\ run[p].pc = "marks" /\ run'[p].dry = run[p].dry /\ run'[p].pending = {}
         /\ run[p].mem \in [SourceNames -> RunStates] /\ HouseClerk \in SourceNames
         /\ run[p].mem[HouseClerk].retry = 0
         /\ \/ /\ run'[p].pc = "source" /\ run'[p].done = {}
               /\ run'[p].mem = MarkOk(run[p].mem, HouseClerk)
            \/ /\ run'[p].pc = "filing" /\ run'[p].done = run[p].done
               /\ run'[p].mem = run[p].mem /\ run'[p].todo = run[p].todo
<1> DEFINE r == run[p]
<1>1. /\ run \in [Procs -> Runs] /\ r \in Runs /\ r.pc = "marks"
      /\ r.todo # <<>> /\ Source(r) = HouseClerk /\ r.mem[HouseClerk].retry = 0
  BY DEF TypeOK, SaveMarks, At, AtHouse, Visiting
<1>2. HouseClerk \in SourceNames /\ r.mem \in [SourceNames -> RunStates]
  BY <1>1, NextSource DEF Runs
<1>3. CASE Set(p, [Next1(r) EXCEPT !.mem = MarkOk(r.mem, HouseClerk)])
  <2>1. MarkOk(r.mem, HouseClerk) \in [SourceNames -> RunStates]
    BY <1>2, StateType
  <2>2. run'[p] = [Next1(r) EXCEPT !.mem = MarkOk(r.mem, HouseClerk)]
    BY <1>1, <1>3 DEF Set
  <2> HIDE DEF r
  <2>3. /\ run'[p].pc = "source" /\ run'[p].done = {} /\ run'[p].dry = r.dry /\ run'[p].pending = {}
        /\ run'[p].mem = MarkOk(r.mem, HouseClerk)
    BY <1>1, <2>1, <2>2, Next1Type
  <2> QED BY <1>1, <1>2, <2>3 DEF r
<1>4. CASE Set(p, [r EXCEPT !.pc = "filing", !.pending = {}])
  BY <1>1, <1>2, <1>4 DEF Set, Runs
<1> QED BY <1>3, <1>4 DEF SaveMarks

\* A refused batch ends the source without its marks.
LEMMA FailFields ==
  ASSUME TypeOK, AtHouse, NEW p \in Procs, HouseFails(p)
  PROVE  /\ run[p].pc \in {"filing", "rows"} /\ run'[p].pc = "source"
         /\ run'[p].done = {} /\ run'[p].pending = {} /\ run'[p].mem = run[p].mem
<1>1. run \in [Procs -> Runs] /\ run[p] \in Runs /\ run[p].pc \in {"filing", "rows"} /\ run[p].todo # <<>>
  BY DEF TypeOK, HouseFails, At, AtHouse, Visiting
<1> QED BY <1>1, SetType, Next1Type DEF HouseFails

\* An hour changes nothing of a run but the ages in its run state.
LEMMA TickFields ==
  ASSUME TypeOK, Tick, NEW p \in Procs
  PROVE  /\ run'[p].pc = run[p].pc /\ run'[p].todo = run[p].todo /\ run'[p].dry = run[p].dry
         /\ run'[p].done = run[p].done /\ run'[p].pending = run[p].pending
         /\ run[p].pc # "none" => run'[p].mem = Older(run[p].mem)
         /\ run[p].mem \in [SourceNames -> RunStates]
BY DEF TypeOK, Tick, Runs

-----------------------------------------------------------------------------
(* The invariant is inductive. *)

\* An empty database and no process: the invariant holds.
LEMMA InitInv == Init => IInv
<1> SUFFICES ASSUME Init PROVE IInv
  OBVIOUS
<1> USE PoliticalAssumption, StaleAssumption DEF Init, LockInit
<1>1. TypeOK
  <2>1. Absent \in [is : {"absent", "empty", "held"}, age : 0 .. Stale]
    BY DEF Absent
  <2>2. lockFile \in [is : {"absent", "empty", "held"}, age : 0 .. Stale]
    BY <2>1
  <2>3. stage \in [Procs -> {"out", "tested", "opened", "in"}] /\ inside \in [Procs -> 0 .. Stale]
    OBVIOUS
  <2>4. LockTypeOK
    BY <2>2, <2>3 DEF LockTypeOK
  <2>5. asked \in [SourceNames -> 0 .. MaxRetry]
    OBVIOUS
  <2>6. run \in [Procs -> Runs] /\ runFile \in [SourceNames -> RunStates]
    BY NoRunType
  <2>7. /\ seeded \in BOOLEAN /\ doneFile = {} /\ stored = {} /\ index = {} /\ forgot = {}
        /\ dryMarked = {}
    OBVIOUS
  <2> QED BY <2>4, <2>5, <2>6, <2>7 DEF TypeOK
<1>2. \A p \in Procs : run[p] = NoRun /\ stage[p] = "out"
  OBVIOUS
<1>3. LockHeld /\ RunsInside /\ AtHouse /\ AllBacked /\ MarksIncluded
  BY <1>2 DEF LockHeld, RunsInside, AtHouse, AllBacked, Backed, MarksIncluded, NoRun, Visiting
<1>4. Deferrals
  <2>1. Remembered(runFile)
    BY <1>1 DEF TypeOK, Remembered, RunStates
  <2> QED BY <1>2, <2>1 DEF Deferrals, NoRun, Rereads
<1> QED BY <1>1, <1>3, <1>4 DEF IInv, DoneIsStored

\* An action that is not a step of process p keeps its run, but for the hour that passes.
LEMMA OtherSteps ==
  ASSUME TypeOK, [Next]_vars, NEW p \in Procs, ~(Step(p) \/ Crash(p)), ~Tick
  PROVE  run'[p] = run[p]
<1>1. CASE Publish \/ UNCHANGED vars
  BY <1>1 DEF Publish, vars
<1>2. ASSUME NEW q \in Procs, Step(q) \/ Crash(q) PROVE run'[p] = run[p]
  BY <1>2, OthersUntouched
<1> QED BY <1>1, <1>2 DEF Next

\* Every step keeps the runs that visit filings at the House Clerk source.
LEMMA AtHouseStep ==
  ASSUME TypeOK, AtHouse, [Next]_vars
  PROVE  AtHouse'
<1> SUFFICES ASSUME NEW p \in Procs, run'[p].pc \in Visiting
             PROVE  /\ run'[p].todo # <<>> /\ Source(run'[p]) = HouseClerk
                    /\ run'[p].mem[HouseClerk].retry = 0
  BY DEF AtHouse
<1> USE DEF Visiting
<1>1. CASE run'[p] = run[p]
  BY <1>1 DEF AtHouse
<1>2. ASSUME run[p].pc \in Visiting, run'[p].mem = run[p].mem, run'[p].todo = run[p].todo
      PROVE  /\ run'[p].todo # <<>> /\ Source(run'[p]) = HouseClerk
             /\ run'[p].mem[HouseClerk].retry = 0
  BY <1>2 DEF AtHouse, Source
<1>3. CASE Tick
  <2>1. run[p].pc \in Visiting /\ run[p].pc # "none"
    BY <1>3, TickFields
  <2>2. /\ run[p].todo # <<>> /\ Source(run[p]) = HouseClerk /\ run[p].mem[HouseClerk].retry = 0
        /\ run[p] \in Runs
    BY <2>1 DEF AtHouse, TypeOK
  <2>3. HouseClerk \in SourceNames
    BY <2>2, NextSource
  <2>4. run'[p].mem[HouseClerk].retry = 0
    BY <1>3, <2>1, <2>2, <2>3, TickFields, OlderType
  <2> QED BY <1>3, <2>2, <2>4, TickFields DEF Source
<1>4. CASE CallHouse(p)
  BY <1>4, HouseFields DEF Source
<1>5. CASE VisitFiling(p) \/ WriteRows(p)
  BY <1>2, <1>5, FilingFields, RowsFields
<1>6. CASE SaveMarks(p)
  BY <1>2, <1>6, MarksFields
<1>7. CASE LoadState(p) \/ SkipSource(p) \/ CallSource(p) \/ SaveState(p) \/ ReloadState(p)
  BY <1>7, LoadFields, SkipFields, CallFields, SaveFields, ReloadFields
<1>8. CASE Metrics(p) \/ HouseFails(p) \/ Exit(p) \/ Crash(p)
  BY <1>8, MetricsFields, FailFields, QuitFields DEF NoRun
<1>9. CASE Enter(p)
  BY <1>1, <1>9 DEF Enter
<1> QED BY <1>1, <1>3, <1>4, <1>5, <1>6, <1>7, <1>8, <1>9, OtherSteps DEF Step

\* Rows and dry marks are only added, and only by the run that writes them.
LEMMA BackingGrows ==
  ASSUME [Next]_vars
  PROVE  stored \subseteq stored' /\ dryMarked \subseteq dryMarked'
<1>1. ASSUME NEW p \in Procs, WriteRows(p) \/ SaveMarks(p)
      PROVE  stored \subseteq stored' /\ dryMarked \subseteq dryMarked'
  BY <1>1 DEF WriteRows, SaveMarks
<1>2. ASSUME NEW p \in Procs,
             \/ Enter(p) \/ LoadState(p) \/ SkipSource(p) \/ CallSource(p) \/ SaveState(p)
             \/ ReloadState(p) \/ Metrics(p) \/ Exit(p) \/ CallHouse(p) \/ VisitFiling(p)
             \/ HouseFails(p) \/ Crash(p)
      PROVE  UNCHANGED <<stored, dryMarked>>
  BY <1>2 DEF Enter, LoadState, SkipSource, CallSource, SaveState, ReloadState, Metrics, Exit, CallHouse,
              VisitFiling, HouseFails, Crash, sourceVars
<1>3. CASE Publish \/ Tick \/ UNCHANGED vars
  BY <1>3 DEF Publish, Tick, vars, sourceVars
<1> QED BY <1>1, <1>2, <1>3 DEF Next, Step

\* Every step keeps what runs call done backed.
LEMMA BackedStep ==
  ASSUME TypeOK, AtHouse, AllBacked, DoneIsStored, [Next]_vars
  PROVE  AllBacked'
<1> SUFFICES ASSUME NEW p \in Procs, ~run'[p].dry
             PROVE  /\ run'[p].done \subseteq stored' \cup Tradeless \cup dryMarked' \cup run'[p].pending
                    /\ run'[p].pc = "marks" => run'[p].pending \subseteq stored'
  BY DEF AllBacked, Backed
<1> DEFINE r == run[p]
           n == run'[p]
<1>0. ~r.dry => /\ r.done \subseteq stored' \cup Tradeless \cup dryMarked' \cup r.pending
                /\ r.pc = "marks" => r.pending \subseteq stored'
  BY BackingGrows DEF AllBacked, Backed
<1>1. CASE n.dry = r.dry /\ n.done = r.done /\ n.pending = r.pending /\ (n.pc = "marks" => r.pc = "marks")
  BY <1>0, <1>1
<1>2. CASE n.done = {} /\ n.pending = {}
  BY <1>2
<1>3. CASE LoadState(p) \/ SkipSource(p) \/ CallSource(p) \/ HouseFails(p)
  BY <1>2, <1>3, LoadFields, SkipFields, CallFields, FailFields
<1>4. CASE SaveState(p) \/ ReloadState(p) \/ Metrics(p)
  BY <1>1, <1>4, SaveFields, ReloadFields, MetricsFields
<1>5. CASE Exit(p) \/ Crash(p)
  BY <1>2, <1>5, QuitFields DEF NoRun
<1>6. CASE CallHouse(p)
  BY <1>6, BackingGrows, HouseFields DEF DoneIsStored
<1>7. CASE VisitFiling(p)
  BY <1>0, <1>7, FilingFields
<1>8. CASE WriteRows(p)
  <2>1. /\ n.dry = r.dry /\ n.done = r.done /\ n.pending = r.pending /\ n.pc = "marks"
    BY <1>8, RowsFields
  <2>2. r.pending \subseteq stored'
    BY <1>8, <2>1 DEF WriteRows
  <2> QED BY <1>0, <2>1, <2>2
<1>9. CASE SaveMarks(p)
  <2>1. r.pc = "marks" /\ n.dry = r.dry /\ n.pending = {} /\ n.done \in {{}, r.done}
    BY <1>9, MarksFields
  <2> QED BY <1>0, <2>1
<1>10. CASE Tick
  BY <1>1, <1>10, TickFields
<1>11. CASE n = r
  BY <1>1, <1>11
<1>12. CASE Enter(p)
  BY <1>11, <1>12 DEF Enter
<1> QED BY <1>3, <1>4, <1>5, <1>6, <1>7, <1>8, <1>9, <1>10, <1>11, <1>12, OtherSteps DEF Step

\* The done set is written by SaveMarks alone.
LEMMA DoneSteps ==
  ASSUME [Next]_vars
  PROVE  UNCHANGED doneFile \/ \E p \in Procs : SaveMarks(p) /\ doneFile' = run[p].done
<1>1. ASSUME NEW p \in Procs, SaveMarks(p)
      PROVE  UNCHANGED doneFile \/ doneFile' = run[p].done
  BY <1>1 DEF SaveMarks
<1>2. ASSUME NEW p \in Procs,
             \/ Enter(p) \/ LoadState(p) \/ SkipSource(p) \/ CallSource(p) \/ SaveState(p)
             \/ ReloadState(p) \/ Metrics(p) \/ Exit(p) \/ CallHouse(p) \/ VisitFiling(p)
             \/ WriteRows(p) \/ HouseFails(p) \/ Crash(p)
      PROVE  UNCHANGED doneFile
  BY <1>2 DEF Enter, LoadState, SkipSource, CallSource, SaveState, ReloadState, Metrics, Exit, CallHouse,
              VisitFiling, WriteRows, HouseFails, Crash, sourceVars
<1>3. CASE Publish \/ Tick \/ UNCHANGED vars
  BY <1>3 DEF Publish, Tick, vars, sourceVars
<1> QED BY <1>1, <1>2, <1>3 DEF Next, Step

\* Every step keeps the saved marks backed.
LEMMA DoneIsStoredStep ==
  ASSUME TypeOK, AllBacked, DoneIsStored, [Next]_vars
  PROVE  DoneIsStored'
<1>1. CASE UNCHANGED doneFile
  BY <1>1, BackingGrows DEF DoneIsStored
<1>2. ASSUME NEW p \in Procs, SaveMarks(p), doneFile' = run[p].done PROVE DoneIsStored'
  <2>1. CASE run[p].dry
    <3>1. doneFile' = doneFile \/ dryMarked' = dryMarked \cup (run[p].done \ doneFile)
      BY <1>2, <2>1 DEF SaveMarks
    <3> QED BY <1>1, <1>2, <3>1, BackingGrows DEF DoneIsStored
  <2>2. CASE ~run[p].dry
    <3>1. run[p].pc = "marks"
      BY <1>2 DEF SaveMarks, At
    <3>2. run[p].done \subseteq stored \cup Tradeless \cup dryMarked
      BY <2>2, <3>1 DEF AllBacked, Backed
    <3> QED BY <1>2, <3>2, BackingGrows DEF DoneIsStored
  <2> QED BY <2>1, <2>2
<1> QED BY <1>1, <1>2, DoneSteps

\* Unless the lock broke, a process that has a run is the only one.
LEMMA Alone ==
  ASSUME LockHeld, RunsInside, ~Overlapped, NEW p \in Procs, run[p].pc # "none",
         NEW q \in Procs, q # p
  PROVE  run[q].pc = "none"
BY DEF LockHeld, RunsInside, Unbroken, Overlapped

\* Overlap is never forgotten.
LEMMA OverlapStays ==
  ASSUME TypeOK, LockHeld, [Next]_vars, ~Overlapped'
  PROVE  ~Overlapped
BY LockHeldStep, LockSteps DEF TypeOK, Overlapped, Unbroken

\* Every step keeps the saved marks in the runs that may replace them.
LEMMA MarksIncludedStep ==
  ASSUME TypeOK, LockHeld, RunsInside, AtHouse, MarksIncluded, [Next]_vars
  PROVE  MarksIncluded'
<1> SUFFICES ASSUME ~Overlapped', NEW p \in Procs, run'[p].pc \in Visiting
             PROVE  doneFile' \subseteq run'[p].done
  BY DEF MarksIncluded
<1> USE DEF Visiting
<1>0. ~Overlapped
  BY OverlapStays
<1>1. ASSUME run[p].pc \in Visiting, run[p].done \subseteq run'[p].done PROVE doneFile' \subseteq run'[p].done
  <2>1. doneFile \subseteq run'[p].done
    BY <1>0, <1>1 DEF MarksIncluded
  <2>2. ASSUME NEW q \in Procs, SaveMarks(q), doneFile' = run[q].done PROVE q = p
    <3>1. run[q].pc # "none"
      BY <2>2 DEF SaveMarks, At
    <3> QED BY <1>0, <1>1, <3>1, Alone
  <2> QED BY <1>1, <2>1, <2>2, DoneSteps
<1>2. CASE run'[p] = run[p]
  BY <1>1, <1>2
<1>3. CASE Tick
  BY <1>1, <1>3, TickFields
<1>4. CASE CallHouse(p)
  BY <1>4, HouseFields DEF CallHouse, sourceVars
<1>5. CASE VisitFiling(p) \/ WriteRows(p)
  BY <1>1, <1>5, FilingFields, RowsFields
<1>6. CASE SaveMarks(p)
  BY <1>1, <1>6, MarksFields
<1>7. CASE LoadState(p) \/ SkipSource(p) \/ CallSource(p) \/ SaveState(p) \/ ReloadState(p)
  BY <1>7, LoadFields, SkipFields, CallFields, SaveFields, ReloadFields
<1>8. CASE Metrics(p) \/ HouseFails(p) \/ Exit(p) \/ Crash(p)
  BY <1>8, MetricsFields, FailFields, QuitFields DEF NoRun
<1>9. CASE Enter(p)
  BY <1>2, <1>9 DEF Enter
<1> QED BY <1>2, <1>3, <1>4, <1>5, <1>6, <1>7, <1>8, <1>9, OtherSteps DEF Step

\* What is remembered stays remembered when the same hours pass for all.
LEMMA RememberedAges ==
  ASSUME TypeOK, Tick, NEW mem \in [SourceNames -> RunStates], Remembered(mem)
  PROVE  \A s \in SourceNames \ forgot' : asked'[s] <= Older(mem)[s].retry
<1> SUFFICES ASSUME NEW s \in SourceNames, s \notin forgot'
             PROVE  asked'[s] <= Older(mem)[s].retry
  OBVIOUS
<1>1. asked[s] \in Nat /\ mem[s].retry \in Nat /\ asked \in [SourceNames -> 0 .. MaxRetry]
  BY DEF TypeOK, RunStates
<1>2. asked'[s] = IF asked[s] = 0 THEN 0 ELSE asked[s] - 1
  BY DEF Tick
<1>3. Older(mem)[s].retry = IF mem[s].retry = 0 THEN 0 ELSE mem[s].retry - 1
  BY OlderType
<1>4. CASE s \in forgot
  <2>1. asked[s] <= 1
    BY <1>1, <1>4 DEF Tick
  <2> QED BY <1>1, <1>2, <1>3, <2>1
<1>5. CASE s \notin forgot
  <2>1. asked[s] <= mem[s].retry
    BY <1>5 DEF Remembered
  <2> QED BY <1>1, <1>2, <1>3, <2>1
<1> QED BY <1>4, <1>5

\* A run that ends without a save leaves behind what the file does not remember.
LEMMA Forgotten ==
  ASSUME TypeOK, NEW p \in Procs, run[p].pc # "none", Remembered(run[p].mem),
         forgot' = forgot \cup Unsaved(run[p]), UNCHANGED <<asked, runFile>>
  PROVE  Remembered(runFile)'
<1> SUFFICES ASSUME NEW s \in SourceNames, s \notin forgot' PROVE asked[s] <= runFile[s].retry
  BY DEF Remembered
<1>1. asked[s] \in Nat /\ run[p].mem[s].retry \in Nat /\ runFile[s].retry \in Nat
  BY DEF TypeOK, Runs, RunStates
<1>2. asked[s] <= run[p].mem[s].retry
  BY DEF Remembered
<1>3. ~(run[p].mem[s].retry > runFile[s].retry)
  BY DEF Unsaved
<1> QED BY <1>1, <1>2, <1>3

\* Whoever steps knows what the servers asked for, from its run or from the file.
LEMMA MoverRemembers ==
  ASSUME TypeOK, AtHouse, NEW p \in Procs, Step(p) \/ Crash(p), ~Enter(p),
         IF run[p].pc \in Rereads THEN Remembered(runFile) ELSE Remembered(run[p].mem)
  PROVE  IF run'[p].pc \in Rereads THEN Remembered(runFile)' ELSE Remembered(run[p].mem)'
<1> DEFINE r == run[p]
           n == run'[p]
<1> USE DEF Rereads
<1>0. asked \in [SourceNames -> 0 .. MaxRetry] /\ r \in Runs /\ r.mem \in [SourceNames -> RunStates]
  BY DEF TypeOK, Runs
<1>1. CASE LoadState(p) \/ ReloadState(p)
  <2>1. UNCHANGED <<runFile, asked, forgot>> /\ Remembered(runFile)
    BY <1>1, LoadFields, ReloadFields DEF LoadState, ReloadState
  <2>2. n.pc \in Rereads \/ n.mem = runFile
    BY <1>1, LoadFields, ReloadFields
  <2> QED BY <2>1, <2>2 DEF Remembered
<1>2. ASSUME r.pc \notin Rereads, n.pc \notin Rereads, UNCHANGED <<asked, forgot>>,
             \A s \in SourceNames : n.mem[s].retry = r.mem[s].retry
      PROVE  Remembered(run[p].mem)'
  BY <1>2 DEF Remembered
<1>3. CASE SkipSource(p) \/ CallHouse(p) \/ VisitFiling(p) \/ WriteRows(p) \/ HouseFails(p)
  <2>1. UNCHANGED <<asked, forgot>>
    BY <1>3 DEF SkipSource, CallHouse, VisitFiling, WriteRows, HouseFails
  <2>2. r.pc \notin Rereads /\ n.pc \notin Rereads /\ n.mem = r.mem
    BY <1>3, SkipFields, HouseFields, FilingFields, RowsFields, FailFields
  <2> QED BY <1>2, <2>1, <2>2
<1>4. CASE SaveMarks(p)
  <2>1. UNCHANGED <<asked, forgot>>
    BY <1>4 DEF SaveMarks
  <2>2. r.pc \notin Rereads /\ n.pc \notin Rereads
    BY <1>4, MarksFields
  <2>3. \A s \in SourceNames : MarkOk(r.mem, HouseClerk)[s].retry = r.mem[s].retry
    BY <1>0, <1>4, MarksFields DEF MarkOk, RunStates
  <2>4. \A s \in SourceNames : n.mem[s].retry = r.mem[s].retry
    BY <1>4, <2>3, MarksFields
  <2> QED BY <1>2, <2>1, <2>2, <2>4
<1>5. CASE CallSource(p)
  <2> DEFINE s == Source(r)
  <2>1. r.pc \notin Rereads /\ n.pc \notin Rereads /\ s \in SourceNames /\ r.mem[s].retry = 0
    BY <1>5, CallFields
  <2>2. CASE n.mem = MarkOk(r.mem, s) /\ UNCHANGED <<asked, forgot>>
    <3>1. \A t \in SourceNames : n.mem[t].retry = r.mem[t].retry
      <4> HIDE DEF n, s
      <4> QED BY <1>0, <2>1, <2>2 DEF MarkOk, RunStates
    <3> QED BY <1>2, <2>1, <2>2, <3>1
  <2>3. CASE n.mem = r.mem /\ UNCHANGED <<asked, forgot>>
    BY <1>2, <2>1, <2>3
  <2>4. ASSUME NEW h \in 1 .. MaxRetry, n.mem = [r.mem EXCEPT ![s].retry = h],
               asked' = [asked EXCEPT ![s] = h], forgot' = forgot \ {s}
        PROVE  Remembered(run[p].mem)'
    <3> SUFFICES ASSUME NEW t \in SourceNames, t \notin forgot' PROVE asked'[t] <= n.mem[t].retry
      BY DEF Remembered
    <3>1. CASE t = s
      <4>1. asked'[t] = h /\ n.mem[t].retry = h
        BY <1>0, <2>1, <2>4, <3>1 DEF RunStates
      <4> QED BY <4>1, PoliticalAssumption
    <3>2. CASE t # s
      <4>1. asked'[t] = asked[t] /\ n.mem[t] = r.mem[t] /\ t \notin forgot
        BY <1>0, <2>1, <2>4, <3>2
      <4> QED BY <2>1, <4>1 DEF Remembered
    <3> QED BY <3>1, <3>2
  <2> QED BY <1>5, <2>1, <2>2, <2>3, <2>4, CallFields
<1>6. CASE SaveState(p)
  <2>1. r.pc \notin Rereads /\ n.pc \in Rereads /\ runFile' = r.mem /\ UNCHANGED <<asked, forgot>>
    BY <1>6, SaveFields DEF SaveState
  <2> QED BY <2>1 DEF Remembered
<1>7. CASE Metrics(p)
  <2>1. UNCHANGED <<asked, runFile>> /\ r.pc \notin Rereads /\ r.pc # "none"
    BY <1>7, MetricsFields DEF Metrics
  <2>2. CASE n.pc = "metrics" /\ n.mem = r.mem /\ UNCHANGED forgot
    BY <1>2, <2>1, <2>2
  <2>3. CASE n.pc = "end" /\ forgot' = forgot \cup Unsaved(run[p])
    BY <2>1, <2>3, Forgotten
  <2> QED BY <1>7, <2>2, <2>3, MetricsFields
<1>8. CASE Exit(p) \/ Crash(p)
  <2>1. n.pc \in Rereads /\ UNCHANGED <<asked, runFile>>
    <3>1. n.pc = "none"
      BY <1>8, QuitFields DEF NoRun
    <3>2. UNCHANGED <<asked, runFile>>
      BY <1>8 DEF Exit, Crash
    <3> QED BY <3>1, <3>2
  <2>2. CASE r.pc \in Rereads
    <3>1. forgot \subseteq forgot'
      BY <1>8 DEF Exit, Crash
    <3> QED BY <2>1, <2>2, <3>1 DEF Remembered
  <2>3. CASE r.pc \notin Rereads
    <3>1. forgot' = forgot \cup Unsaved(run[p])
      BY <1>8, <2>3 DEF Exit, Crash, At
    <3> QED BY <2>1, <2>3, <3>1, Forgotten
  <2> QED BY <2>2, <2>3
<1> QED BY <1>1, <1>3, <1>4, <1>5, <1>6, <1>7, <1>8 DEF Step

\* Every step keeps the deferrals remembered.
LEMMA DeferralsStep ==
  ASSUME TypeOK, LockHeld, RunsInside, AtHouse, Deferrals, [Next]_vars
  PROVE  Deferrals'
<1> SUFFICES ASSUME ~Overlapped' PROVE Deferrals'
  BY DEF Deferrals
<1> USE DEF Rereads
<1>0. ~Overlapped /\ runFile \in [SourceNames -> RunStates] /\ run \in [Procs -> Runs]
  BY OverlapStays DEF TypeOK
<1>1. CASE UNCHANGED <<run, runFile, asked, forgot>>
  BY <1>0, <1>1 DEF Deferrals, Remembered
<1>2. CASE Tick
  <2>1. ASSUME NEW p \in Procs, run'[p].pc \notin Rereads PROVE Remembered(run[p].mem)'
    <3>1. run[p].pc \notin Rereads /\ run'[p].mem = Older(run[p].mem) /\ run[p].mem \in [SourceNames -> RunStates]
      BY <1>2, <2>1, TickFields
    <3>2. Remembered(run[p].mem)
      BY <1>0, <3>1 DEF Deferrals
    <3>3. \A s \in SourceNames \ forgot' : asked'[s] <= Older(run[p].mem)[s].retry
      BY <1>2, <3>1, <3>2, RememberedAges
    <3> QED BY <3>1, <3>3 DEF Remembered
  <2>2. ASSUME \A p \in Procs : run'[p].pc \in Rereads PROVE Remembered(runFile)'
    <3>1. \A p \in Procs : run[p].pc \in Rereads
      BY <1>2, <2>2, TickFields
    <3>2. Remembered(runFile)
      BY <1>0, <3>1 DEF Deferrals
    <3>3. \A s \in SourceNames \ forgot' : asked'[s] <= Older(runFile)[s].retry
      BY <1>0, <1>2, <3>2, RememberedAges
    <3> QED BY <1>2, <3>3 DEF Remembered, Tick
  <2> QED BY <2>1, <2>2 DEF Deferrals
<1>3. ASSUME NEW p \in Procs, Step(p) \/ Crash(p), ~Enter(p) PROVE Deferrals'
  <2>1. stage[p] # "out"
    BY <1>3 DEF Step, LoadState, SkipSource, CallSource, SaveState, ReloadState, Metrics, Exit, CallHouse,
                VisitFiling, WriteRows, SaveMarks, HouseFails, Crash, Die, Calling, At
  <2>2. \A q \in Procs \ {p} : run[q].pc = "none" /\ run'[q].pc = "none"
    BY <1>0, <1>3, <2>1, OthersUntouched DEF LockHeld, RunsInside, Unbroken, Overlapped
  <2>3. IF run[p].pc \in Rereads THEN Remembered(runFile) ELSE Remembered(run[p].mem)
    BY <1>0, <2>2 DEF Deferrals
  <2>4. IF run'[p].pc \in Rereads THEN Remembered(runFile)' ELSE Remembered(run[p].mem)'
    BY <1>3, <2>3, MoverRemembers
  <2> QED BY <2>2, <2>4 DEF Deferrals
<1>4. ASSUME NEW p \in Procs, Enter(p) PROVE Deferrals'
  BY <1>1, <1>4 DEF Enter
<1>5. CASE Publish \/ UNCHANGED vars
  BY <1>1, <1>5 DEF Publish, vars
<1> QED BY <1>2, <1>3, <1>4, <1>5 DEF Next

\* Every step keeps every part of the invariant.
LEMMA StepInv == IInv /\ [Next]_vars => IInv'
<1> SUFFICES ASSUME IInv, [Next]_vars PROVE IInv'
  OBVIOUS
<1>1. TypeOK' /\ LockHeld'
  BY StepType, LockHeldStep, LockSteps DEF IInv, TypeOK
<1>2. RunsInside' /\ AtHouse'
  BY RunsInsideStep, AtHouseStep DEF IInv
<1>3. AllBacked' /\ DoneIsStored'
  BY BackedStep, DoneIsStoredStep DEF IInv
<1>4. MarksIncluded' /\ Deferrals'
  BY MarksIncludedStep, DeferralsStep DEF IInv
<1> QED BY <1>1, <1>2, <1>3, <1>4 DEF IInv

\* The invariant holds in every state of the orchestrator, and with it the types.
THEOREM Invariant == Spec => []IInv
BY InitInv, StepInv, PTL DEF Spec

\* One process at most is under the lock file, unless two started at the same moment or one
\* outlived the staleness threshold: crashes, torn files and stolen remnants do not break it.
THEOREM LockWorks == Spec => []OneRun
<1>1. IInv => OneRun
  BY DEF IInv, LockHeld, OneRun, Unbroken
<1> QED BY <1>1, Invariant, PTL

\* A Retry-After is respected until it has passed, unless the run that received it ended
\* before it saved the run state or runs overlapped.
THEOREM CooldownRespected == Spec => []CooldownKept
<1>1. IInv => CooldownKept
  <2> SUFFICES ASSUME IInv, NEW p \in Procs, Calling(p), ~Overlapped, Source(run[p]) \notin forgot
               PROVE  asked[Source(run[p])] = 0
    BY DEF CooldownKept
  <2>1. /\ run[p].pc = "source" /\ run[p] \in Runs /\ run[p].todo # <<>>
        /\ run[p].mem[Source(run[p])].retry = 0
    BY DEF Calling, At, ShouldRun, IInv, TypeOK
  <2>2. Source(run[p]) \in SourceNames
    BY <2>1, NextSource
  <2>3. asked[Source(run[p])] \in Nat /\ asked[Source(run[p])] <= 0
    BY <2>1, <2>2 DEF IInv, TypeOK, Deferrals, Rereads, Remembered
  <2> QED BY <2>3
<1> QED BY <1>1, Invariant, PTL

\* The checkpoint is never ahead of the database, whatever crashed, failed or overlapped;
\* only a dry run marks what was never written.
THEOREM MarksAreBacked == Spec => []DoneIsStored
<1>1. IInv => DoneIsStored
  BY DEF IInv
<1> QED BY <1>1, Invariant, PTL

\* No mark is ever lost, although every run replaces the whole done set, unless runs overlapped.
THEOREM MarksAreKept == Spec => MarksKept
<1>1. IInv /\ [Next]_vars => [doneFile \subseteq doneFile' \/ Overlapped]_vars
  <2> SUFFICES ASSUME IInv, [Next]_vars, ~Overlapped PROVE doneFile \subseteq doneFile'
    OBVIOUS
  <2>1. ASSUME NEW p \in Procs, SaveMarks(p) PROVE doneFile \subseteq run[p].done
    BY <2>1 DEF SaveMarks, At, IInv, MarksIncluded, Visiting
  <2> QED BY <2>1, DoneSteps
<1> QED BY <1>1, Invariant, PTL DEF Spec, MarksKept

=============================================================================
