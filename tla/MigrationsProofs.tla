-------------------------- MODULE MigrationsProofs --------------------------
(***************************************************************************)
(* Proofs about the migrations of ClickHouse v2.                            *)
(*                                                                         *)
(* Of the runner, for any number of operators, waves, statements and        *)
(* faults: only a takeover lets two runs overlap, and even overlapping runs *)
(* journal a success only for what was executed and keep the waves in       *)
(* order.                                                                  *)
(*                                                                         *)
(* Of the waves, for every statement of the backfill files, any number of   *)
(* events and any waves that are asked for: a backfill that has settled is  *)
(* complete, and repeating it changes no row.                              *)
(***************************************************************************)
EXTENDS Migrations, FiniteSetTheorems, WellFoundedInduction, TLAPS

\* Until a takeover hits a live run, whoever is past the CREATE owns the lock table.
OwnsLock == ~stolen => \A r \in Runners : Alive(r) => lock # "absent" /\ holder = r

\* Where a run stands: its wave is one of the chosen, and the statements before its step
\* were executed in its version of the file.
Sound(r) ==
  /\ pc(r) \notin {"idle", "unlock"} => run[r].wave \in First(run[r].phase) .. (run[r].through + 1)
  /\ pc(r) \in {"sql", "mark"} => run[r].wave <= run[r].through
  /\ pc(r) # "sql" => run[r].step = 1
  /\ pc(r) = "sql" => \A k \in 1 .. (run[r].step - 1) : <<k, Version(r)>> \in ran[Current(r)]
  /\ pc(r) = "mark" => \A k \in 1 .. Statements : <<k, Version(r)>> \in ran[Current(r)]

\* What a run believes to be done is done.
Ordered(r) ==
  /\ pc(r) \in {"open", "apply", "sql", "mark"} => \A m \in run[r].seen : AllRan(m)
  /\ pc(r) \in {"create", "peek", "drop", "recreate", "stamp", "load", "open"} =>
       run[r].wave = First(run[r].phase)
  /\ pc(r) \in {"apply", "sql", "mark"} =>
       \A w \in First(run[r].phase) .. (run[r].wave - 1) : AllRan(<<run[r].phase, w>>)

RunsSound == \A r \in Runners : Sound(r) /\ Ordered(r)

\* The inductive invariant.
IInv == TypeOK /\ OwnsLock /\ RunsSound /\ SucceededApplied /\ WavesInOrder

-----------------------------------------------------------------------------
(* Type correctness. *)

\* The run record of a process that has not started is well typed.
LEMMA IdleType == Idle \in Runs /\ [Idle EXCEPT !.pc = "unlock"] \in Runs
BY WavesAssumption DEF Idle, Runs, Outside, Inside, Phases

\* A fresh server and idle operators are well typed.
LEMMA InitType == Init => TypeOK
<1> SUFFICES ASSUME Init PROVE TypeOK
  OBVIOUS
<1> USE DEF Init
<1>1. lock \in {"absent", "empty", "fresh", "stale"} /\ holder \in Runners \cup {None} /\ stolen \in BOOLEAN
  OBVIOUS
<1>2. /\ tables \in SUBSET {"journal", "runs"} /\ edited \in SUBSET Migrations
      /\ journal \in [Migrations -> {"none", "running", "failed", "succeeded"}]
      /\ sum \in [Migrations -> Versions]
      /\ ran \in [Migrations -> SUBSET ((1 .. Statements) \X Versions)]
  BY DEF Versions
<1>3. run \in [Runners -> Runs] /\ \A r \in Runners : run[r].through \in WavesOf(run[r].phase)
  <2>1. Idle.through \in WavesOf(Idle.phase)
    BY WavesAssumption DEF Idle, WavesOf, First, Last
  <2> QED BY <2>1, IdleType
<1>4. faults \in 0 .. MaxFaults
  BY WavesAssumption
<1> QED BY <1>1, <1>2, <1>3, <1>4 DEF TypeOK

\* A journal row for the current migration of a run keeps the types.
LEMMA WriteJournalType ==
  ASSUME TypeOK, NEW r \in Runners,
         NEW status \in {"none", "running", "failed", "succeeded"}, WriteJournal(r, status)
  PROVE  /\ journal' \in [Migrations -> {"none", "running", "failed", "succeeded"}]
         /\ sum' \in [Migrations -> Versions]
<1>1. Version(r) \in Versions
  BY DEF Version, Versions
<1> QED BY <1>1 DEF WriteJournal, TypeOK

\* A step that replaces the record of one run by a well-typed one keeps the types.
LEMMA RunType ==
  ASSUME TypeOK, NEW r \in Runners, NEW new \in Runs, new.through \in WavesOf(new.phase),
         run' = [run EXCEPT ![r] = new]
  PROVE  /\ run' \in [Runners -> Runs]
         /\ \A s \in Runners : run'[s].through \in WavesOf(run'[s].phase)
BY DEF TypeOK

\* Setting the pc of a run, or leaving it, at once or through the finally clause.
LEMMA GoType ==
  ASSUME TypeOK, NEW r \in Runners,
         \/ \E to \in Outside \cup Inside : Go(r, to)
         \/ Exit(r) \/ FinallyExit(r) \/ Refused(r)
  PROVE  /\ run' \in [Runners -> Runs]
         /\ \A s \in Runners : run'[s].through \in WavesOf(run'[s].phase)
<1>1. CASE \E to \in Outside \cup Inside : Go(r, to)
  <2>1. PICK to \in Outside \cup Inside : run' = [run EXCEPT ![r].pc = to]
    BY <1>1 DEF Go
  <2> DEFINE new == [run[r] EXCEPT !.pc = to]
  <2>2. new \in Runs /\ new.through \in WavesOf(new.phase) /\ run' = [run EXCEPT ![r] = new]
    BY <2>1 DEF TypeOK, Runs
  <2> HIDE DEF new
  <2> QED BY <2>2, RunType
<1>2. CASE Exit(r) \/ FinallyExit(r) \/ Refused(r)
  <2> DEFINE quit == [Idle EXCEPT !.pc = "unlock"]
  <2>1. \E new \in {Idle, quit} : run' = [run EXCEPT ![r] = new]
    BY <1>2 DEF Exit, FinallyExit, Refused
  <2>2. \A new \in {Idle, quit} : new.through \in WavesOf(new.phase)
    BY WavesAssumption DEF Idle, WavesOf, First, Last
  <2> HIDE DEF quit
  <2> QED BY <2>1, <2>2, RunType, IdleType DEF quit
<1> QED BY <1>1, <1>2

\* The chosen migrations are migrations, and the current one while a run has waves left.
LEMMA ChosenType ==
  ASSUME TypeOK, NEW r \in Runners
  PROVE  Chosen(r) \in SUBSET Migrations
BY WavesAssumption DEF TypeOK, Chosen, Migrations, Runs, Phases, WavesOf, First, Last

\* Every step of a runner keeps the types.
LEMMA RunnerType ==
  ASSUME TypeOK, NEW r \in Runners,
         Start(r) \/ Proceed(r) \/ LockCommandFails(r) \/ ApplyFails(r) \/ Crash(r)
  PROVE  TypeOK'
<1> USE WavesAssumption DEF Locking, Database, Journals
<1>0. /\ run[r] \in Runs /\ run \in [Runners -> Runs] /\ run[r].through \in WavesOf(run[r].phase)
      /\ {"peek", "drop", "recreate", "stamp", "load", "open", "apply", "sql", "mark"}
           \subseteq Outside \cup Inside
  BY DEF TypeOK, Outside, Inside
<1>1. CASE Start(r)
  <2>0. PICK phase \in Phases : \E through \in WavesOf(phase) :
          run' = [run EXCEPT ![r] = [Idle EXCEPT !.pc = "create", !.phase = phase,
                                       !.wave = First(phase), !.through = through, !.files = edited]]
    BY <1>1 DEF Start
  <2>1. PICK through \in WavesOf(phase) :
          run' = [run EXCEPT ![r] = [Idle EXCEPT !.pc = "create", !.phase = phase,
                                       !.wave = First(phase), !.through = through, !.files = edited]]
    BY <2>0
  <2>2. First(phase) \in Nat /\ through \in Nat
    BY DEF First, Last, WavesOf, Phases
  <2> DEFINE new == [Idle EXCEPT !.pc = "create", !.phase = phase, !.wave = First(phase),
                                 !.through = through, !.files = edited]
  <2>3. new \in Runs /\ new.through \in WavesOf(new.phase)
    BY <2>1, <2>2, IdleType DEF Runs, Outside, TypeOK, Idle
  <2> HIDE DEF new
  <2>4. run' \in [Runners -> Runs] /\ \A s \in Runners : run'[s].through \in WavesOf(run'[s].phase)
    BY <2>1, <2>3, RunType DEF new
  <2> QED BY <1>1, <2>4 DEF Start, TypeOK
<1>2. CASE CreateLock(r) \/ PeekLock(r) \/ DropStale(r) \/ StampLock(r) \/ Unlock(r)
           \/ LockCommandFails(r) \/ Crash(r) \/ OpenRun(r)
  <2>1. run' \in [Runners -> Runs] /\ \A s \in Runners : run'[s].through \in WavesOf(run'[s].phase)
    BY <1>0, <1>2, GoType
       DEF CreateLock, PeekLock, DropStale, StampLock, Unlock, LockCommandFails, Crash, OpenRun
  <2>2. /\ lock' \in {"absent", "empty", "fresh", "stale"} /\ holder' \in Runners \cup {None}
        /\ stolen' \in BOOLEAN
    BY <1>2 DEF CreateLock, PeekLock, DropStale, StampLock, Unlock, LockCommandFails, Crash, OpenRun,
                TypeOK
  <2>3. faults' \in 0 .. MaxFaults
    BY <1>2 DEF CreateLock, PeekLock, DropStale, StampLock, Unlock, LockCommandFails, Crash, OpenRun,
                TypeOK, Fault
  <2>4. UNCHANGED <<tables, journal, sum, ran, edited>>
    BY <1>2 DEF CreateLock, PeekLock, DropStale, StampLock, Unlock, LockCommandFails, Crash, OpenRun
  <2> QED BY <2>1, <2>2, <2>3, <2>4 DEF TypeOK
<1>3. CASE Load(r)
  <2> DEFINE seen == {m \in Chosen(r) : journal[m] = "succeeded"}
             new  == [run[r] EXCEPT !.pc = "open", !.seen = seen]
  <2>1. seen \in SUBSET Migrations
    BY ChosenType
  <2> HIDE DEF seen
  <2>2. new \in Runs /\ new.through \in WavesOf(new.phase)
    BY <1>0, <2>1 DEF Runs
  <2>3. FinallyExit(r) \/ run' = [run EXCEPT ![r] = new]
    BY <1>0, <1>3 DEF Load, seen
  <2> HIDE DEF new
  <2>4. run' \in [Runners -> Runs] /\ \A s \in Runners : run'[s].through \in WavesOf(run'[s].phase)
    BY <2>2, <2>3, RunType, GoType
  <2> QED BY <1>3, <2>4 DEF Load, TypeOK
<1>4. CASE NextMigration(r) \/ Mark(r)
  <2> DEFINE skip == [run[r] EXCEPT !.wave = @ + 1]
             new  == [run[r] EXCEPT !.pc = "apply", !.wave = @ + 1]
  <2>1. /\ skip \in Runs /\ skip.through \in WavesOf(skip.phase)
        /\ new \in Runs /\ new.through \in WavesOf(new.phase)
    <3>1. run[r].wave + 1 \in Nat
      BY <1>0 DEF Runs
    <3>2. "apply" \in Outside \cup Inside
      BY <1>0
    <3> QED BY <1>0, <3>1, <3>2 DEF Runs
  <2>2. FinallyExit(r) \/ Go(r, "sql") \/ (\E x \in {skip, new} : run' = [run EXCEPT ![r] = x])
    BY <1>0, <1>4 DEF NextMigration, Mark
  <2> HIDE DEF skip, new
  <2>3. run' \in [Runners -> Runs] /\ \A s \in Runners : run'[s].through \in WavesOf(run'[s].phase)
    BY <1>0, <2>1, <2>2, RunType, GoType
  <2>4. \/ UNCHANGED <<journal, sum>>
        \/ \E status \in {"running", "succeeded"} : WriteJournal(r, status)
    BY <1>4 DEF NextMigration, Mark
  <2>5. /\ journal' \in [Migrations -> {"none", "running", "failed", "succeeded"}]
        /\ sum' \in [Migrations -> Versions]
    BY <2>4, WriteJournalType DEF TypeOK
  <2> QED BY <1>4, <2>3, <2>5 DEF NextMigration, Mark, TypeOK
<1>5. CASE Statement(r)
  <2> DEFINE done == [run[r] EXCEPT !.pc = "mark", !.step = 1]
             more == [run[r] EXCEPT !.step = @ + 1]
  <2>1. done \in Runs /\ done.through \in WavesOf(done.phase)
    <3>1. 1 \in 1 .. Statements
      OBVIOUS
    <3>2. "mark" \in Outside \cup Inside
      BY <1>0
    <3> QED BY <1>0, <3>1, <3>2 DEF Runs
  <2>2. run[r].step # Statements => more \in Runs /\ more.through \in WavesOf(more.phase)
    BY <1>0 DEF Runs
  <2>3. \/ run' = [run EXCEPT ![r] = done]
        \/ run[r].step # Statements /\ run' = [run EXCEPT ![r] = more]
    BY <1>0, <1>5 DEF Statement, AtLast
  <2> HIDE DEF done, more
  <2>4. run' \in [Runners -> Runs] /\ \A s \in Runners : run'[s].through \in WavesOf(run'[s].phase)
    BY <2>1, <2>2, <2>3, RunType
  <2>5. ran' \in [Migrations -> SUBSET ((1 .. Statements) \X Versions)]
    <3>1. <<run[r].step, Version(r)>> \in (1 .. Statements) \X Versions
      <4>1. Version(r) \in Versions
        BY DEF Version, Versions
      <4> QED BY <1>0, <4>1 DEF Runs
    <3> QED BY <1>5, <3>1 DEF Statement, TypeOK
  <2>6. tables' \in SUBSET {"journal", "runs"}
    BY <1>5 DEF Statement, CreatedBy, TypeOK
  <2> QED BY <1>5, <2>4, <2>5, <2>6 DEF Statement, TypeOK
<1>6. CASE ApplyFails(r)
  <2>1. run' \in [Runners -> Runs] /\ \A s \in Runners : run'[s].through \in WavesOf(run'[s].phase)
    BY <1>6, GoType DEF ApplyFails, AfterFailure
  <2>2. /\ journal' \in [Migrations -> {"none", "running", "failed", "succeeded"}]
        /\ sum' \in [Migrations -> Versions]
    BY <1>6, WriteJournalType DEF ApplyFails, TypeOK
  <2>3. faults' \in 0 .. MaxFaults
    BY <1>6 DEF ApplyFails, Fault, TypeOK
  <2> QED BY <1>6, <2>1, <2>2, <2>3 DEF ApplyFails, TypeOK
<1> QED BY <1>1, <1>2, <1>3, <1>4, <1>5, <1>6 DEF Proceed

\* Every step keeps the types.
LEMMA StepType == TypeOK /\ [Next]_vars => TypeOK'
<1> SUFFICES ASSUME TypeOK, [Next]_vars PROVE TypeOK'
  OBVIOUS
<1>1. CASE ServerRestart \/ LockAges \/ ClearLock \/ \E m \in Migrations : Edit(m)
  <2> USE DEF TypeOK, Locking, Database
  <2>1. CASE ServerRestart
    BY <2>1, WavesAssumption DEF ServerRestart, Fault
  <2>2. CASE LockAges \/ ClearLock
    BY <2>2 DEF LockAges, ClearLock
  <2>3. CASE \E m \in Migrations : Edit(m)
    BY <2>3 DEF Edit
  <2> QED BY <1>1, <2>1, <2>2, <2>3
<1>2. CASE UNCHANGED vars
  BY <1>2 DEF vars, TypeOK
<1> QED BY <1>1, <1>2, RunnerType DEF Next

\* Every table, journal row and run record stays in its type.
THEOREM TypeCorrect == Spec => []TypeOK
BY InitType, StepType, PTL DEF Spec

-----------------------------------------------------------------------------
(* Mutual exclusion. *)

\* A step of one runner leaves the records of the others alone.
LEMMA OthersUntouched ==
  ASSUME TypeOK, NEW r \in Runners, NEW s \in Runners, s # r,
         Start(r) \/ Proceed(r) \/ LockCommandFails(r) \/ ApplyFails(r) \/ Crash(r)
  PROVE  run'[s] = run[s]
<1> USE DEF TypeOK, Go, Exit, FinallyExit, Refused
<1>1. CASE Start(r)
  BY <1>1 DEF Start
<1>2. CASE Proceed(r)
  BY <1>2 DEF Proceed, CreateLock, PeekLock, DropStale, StampLock, Unlock, Load, OpenRun,
              NextMigration, Statement, Mark
<1>3. CASE LockCommandFails(r) \/ ApplyFails(r) \/ Crash(r)
  BY <1>3 DEF LockCommandFails, ApplyFails, AfterFailure, Crash
<1> QED BY <1>1, <1>2, <1>3

\* A run that begins is not under the lock, and one comes under it only by creating its table.
LEMMA EntersByCreating ==
  ASSUME TypeOK, NEW r \in Runners, ~Alive(r), Alive(r)',
         Start(r) \/ Proceed(r) \/ LockCommandFails(r) \/ ApplyFails(r) \/ Crash(r)
  PROVE  lock = "absent" /\ lock' = "empty" /\ holder' = r /\ stolen' = stolen
<1>0. run \in [Runners -> Runs]
  BY DEF TypeOK
<1> USE <1>0 DEF Go, Exit, FinallyExit, Refused, pc, Alive, Inside, Idle, Locking
<1>1. ~Start(r)
  <2> SUFFICES ASSUME Start(r) PROVE FALSE
    OBVIOUS
  <2>1. run'[r].pc = "create"
    BY DEF Start
  <2> QED BY <2>1
<1>2. ~(LockCommandFails(r) \/ ApplyFails(r) \/ Crash(r))
  BY DEF LockCommandFails, ApplyFails, Crash, AfterFailure
<1>3. CASE CreateLock(r)
  <2>1. lock = "absent"
    <3> SUFFICES ASSUME lock # "absent" PROVE FALSE
      OBVIOUS
    <3>1. run' = [run EXCEPT ![r].pc = "peek"] \/ run' = [run EXCEPT ![r] = Idle]
      BY <1>3 DEF CreateLock
    <3> QED BY <3>1 DEF Runs
  <2> QED BY <1>3, <2>1 DEF CreateLock
<1>4. ~(PeekLock(r) \/ DropStale(r))
  <2> SUFFICES ASSUME PeekLock(r) \/ DropStale(r) PROVE FALSE
    OBVIOUS
  <2>1. \/ run' = [run EXCEPT ![r].pc = "drop"] \/ run' = [run EXCEPT ![r].pc = "recreate"]
        \/ run' = [run EXCEPT ![r] = Idle]
    BY DEF PeekLock, DropStale
  <2> QED BY <2>1 DEF Runs
<1>5. ~(StampLock(r) \/ Unlock(r) \/ Load(r) \/ OpenRun(r) \/ NextMigration(r) \/ Statement(r) \/ Mark(r))
  BY DEF StampLock, Unlock, Load, OpenRun, NextMigration, Statement, Mark
<1> QED BY <1>1, <1>2, <1>3, <1>4, <1>5 DEF Proceed

\* Every step keeps the lock table with the runs that are under it.
LEMMA OwnsLockStep == TypeOK /\ OwnsLock /\ [Next]_vars => OwnsLock'
<1> SUFFICES ASSUME TypeOK, OwnsLock, [Next]_vars, ~stolen', NEW s \in Runners, Alive(s)'
             PROVE  lock' # "absent" /\ holder' = s
  BY DEF OwnsLock
<1> USE DEF Locking
<1>1. CASE ServerRestart \/ LockAges \/ ClearLock \/ (\E m \in Migrations : Edit(m)) \/ UNCHANGED vars
  <2>1. stolen' = stolen /\ run' = run
    BY <1>1 DEF ServerRestart, LockAges, ClearLock, Edit, vars
  <2>2. Alive(s) /\ lock # "absent" /\ holder = s
    BY <2>1 DEF Alive, pc, OwnsLock
  <2> QED BY <1>1, <2>2 DEF ServerRestart, LockAges, ClearLock, Edit, vars
<1>2. ASSUME NEW r \in Runners,
             Start(r) \/ Proceed(r) \/ LockCommandFails(r) \/ ApplyFails(r) \/ Crash(r)
      PROVE  lock' # "absent" /\ holder' = s
  <2>1. CASE ~Alive(s)
    <3>1. r = s
      BY <1>2, <2>1, OthersUntouched DEF Alive, pc
    <3> QED BY <1>2, <2>1, <3>1, EntersByCreating
  <2>2. CASE Alive(s)
    <3>1. ~stolen
      BY <1>2 DEF Start, Proceed, CreateLock, PeekLock, DropStale, StampLock, Unlock, Load, OpenRun,
                  NextMigration, Statement, Mark, LockCommandFails, ApplyFails, Crash
    <3>2. lock # "absent" /\ holder = s
      BY <2>2, <3>1 DEF OwnsLock
    <3>3. CASE CreateLock(r) \/ StampLock(r)
      BY <3>2, <3>3 DEF CreateLock, StampLock
    <3>4. ~DropStale(r)
      BY <2>2, <3>2 DEF DropStale
    <3>5. ~Unlock(r)
      <4> SUFFICES ASSUME Unlock(r) PROVE FALSE
        OBVIOUS
      <4>1. Alive(r) /\ r = s
        BY <3>1, <3>2 DEF Unlock, Alive, Inside, OwnsLock
      <4> QED BY <4>1 DEF Unlock, Exit, TypeOK, Alive, pc, Inside, Idle
    <3>6. CASE \/ Start(r) \/ PeekLock(r) \/ Load(r) \/ OpenRun(r) \/ NextMigration(r) \/ Statement(r)
               \/ Mark(r) \/ LockCommandFails(r) \/ ApplyFails(r) \/ Crash(r)
      BY <3>2, <3>6 DEF Start, PeekLock, Load, OpenRun, NextMigration, Statement, Mark, LockCommandFails,
                        ApplyFails, Crash
    <3> QED BY <1>2, <3>3, <3>4, <3>5, <3>6 DEF Proceed
  <2> QED BY <2>1, <2>2
<1> QED BY <1>1, <1>2 DEF Next

\* Whatever fails, dies or restarts, two runs are under the lock only after a takeover
\* dropped the lock table of a live run.
THEOREM Exclusive == Spec => []MutualExclusion
<1>1. Init => OwnsLock
  BY DEF Init, OwnsLock, Alive, pc, Idle, Inside
<1>2. OwnsLock => MutualExclusion
  BY DEF OwnsLock, MutualExclusion
<1> QED BY <1>1, <1>2, InitType, StepType, OwnsLockStep, PTL DEF Spec

-----------------------------------------------------------------------------
(* What runs have executed. *)

\* The record of a run whose pc moves keeps everything else.
LEMMA MoveFields ==
  ASSUME TypeOK, NEW r \in Runners, NEW to \in Outside \cup Inside, Go(r, to)
  PROVE  /\ run'[r].pc = to
         /\ run'[r].phase = run[r].phase /\ run'[r].wave = run[r].wave
         /\ run'[r].through = run[r].through /\ run'[r].step = run[r].step
         /\ run'[r].seen = run[r].seen /\ run'[r].files = run[r].files
BY DEF TypeOK, Go, Runs

\* What a run chose, up to its through, are migrations.
LEMMA WaveMigrations ==
  ASSUME TypeOK, NEW r \in Runners, NEW w \in First(run[r].phase) .. run[r].through
  PROVE  <<run[r].phase, w>> \in Migrations
BY WavesAssumption DEF TypeOK, Runs, Phases, WavesOf, First, Last, Migrations

\* Executed statements are never undone.
LEMMA RanGrows ==
  ASSUME TypeOK, [Next]_vars
  PROVE  \A m \in Migrations : ran[m] \subseteq ran'[m] /\ (AllRan(m) => AllRan(m)')
<1>1. ASSUME NEW r \in Runners, Statement(r)
      PROVE  \A m \in Migrations : ran[m] \subseteq ran'[m]
  BY <1>1 DEF Statement, TypeOK
<1>2. ASSUME NEW r \in Runners,
             \/ Start(r) \/ CreateLock(r) \/ PeekLock(r) \/ DropStale(r) \/ StampLock(r) \/ Unlock(r)
             \/ Load(r) \/ OpenRun(r) \/ NextMigration(r) \/ Mark(r)
             \/ LockCommandFails(r) \/ ApplyFails(r) \/ Crash(r)
      PROVE  ran' = ran
  BY <1>2 DEF Start, CreateLock, PeekLock, DropStale, StampLock, Unlock, Load, OpenRun, NextMigration,
              Mark, LockCommandFails, ApplyFails, Crash, Database
<1>3. CASE ServerRestart \/ LockAges \/ ClearLock \/ (\E m \in Migrations : Edit(m)) \/ UNCHANGED vars
  BY <1>3 DEF ServerRestart, LockAges, ClearLock, Edit, vars, Database, AllRan
<1>4. \A m \in Migrations : ran[m] \subseteq ran'[m]
  BY <1>1, <1>2, <1>3 DEF Next, Proceed
<1> QED BY <1>4 DEF AllRan

\* A run whose record stays as it is stays sound.
LEMMA StaysSound ==
  ASSUME TypeOK, [Next]_vars, NEW s \in Runners, Sound(s), Ordered(s), run'[s] = run[s]
  PROVE  Sound(s)' /\ Ordered(s)'
<1>1. Current(s)' = Current(s) /\ Version(s)' = Version(s) /\ pc(s)' = pc(s)
  BY DEF Current, Version, pc
<1>2. pc(s) \in {"sql", "mark"} => ran[Current(s)] \subseteq ran'[Current(s)]
  BY RanGrows, WaveMigrations DEF Sound, Current, pc
<1>3. Sound(s)'
  BY <1>1, <1>2 DEF Sound
<1>4. run[s].seen \subseteq Migrations
  BY DEF TypeOK, Runs
<1>5. pc(s) \in {"apply", "sql", "mark"} =>
        \A w \in First(run[s].phase) .. (run[s].wave - 1) : <<run[s].phase, w>> \in Migrations
  <2> SUFFICES ASSUME pc(s) \in {"apply", "sql", "mark"},
                      NEW w \in First(run[s].phase) .. (run[s].wave - 1)
               PROVE  w \in First(run[s].phase) .. run[s].through
    BY WaveMigrations
  <2> QED BY DEF Sound, TypeOK, Runs, First
<1> QED BY <1>1, <1>3, <1>4, <1>5, RanGrows DEF Ordered

\* A run that left the lock, or is about to, has nothing to answer for.
LEMMA QuitSound ==
  ASSUME TypeOK, NEW r \in Runners, Exit(r) \/ FinallyExit(r) \/ Refused(r)
  PROVE  Sound(r)' /\ Ordered(r)'
<1>1. run'[r].pc \in {"idle", "unlock"} /\ run'[r].step = 1
  BY DEF Exit, FinallyExit, Refused, TypeOK, Idle
<1> QED BY <1>1 DEF Sound, Ordered, pc

\* A success in the journal, or in what a run read from it, was executed in full.
LEMMA SucceededRan ==
  ASSUME SucceededApplied, NEW m \in Migrations, journal[m] = "succeeded"
  PROVE  AllRan(m)
<1> SUFFICES ASSUME NEW k \in 1 .. Statements PROVE \E s \in ran[m] : s[1] = k
  BY DEF AllRan
<1>1. <<k, sum[m]>> \in ran[m] /\ <<k, sum[m]>>[1] = k
  BY DEF SucceededApplied
<1> QED BY <1>1

\* Every step of a run keeps it sound.
LEMMA RunnerSound ==
  ASSUME TypeOK, SucceededApplied, NEW r \in Runners, Sound(r), Ordered(r), [Next]_vars,
         Start(r) \/ Proceed(r) \/ LockCommandFails(r) \/ ApplyFails(r) \/ Crash(r)
  PROVE  Sound(r)' /\ Ordered(r)'
<1> USE WavesAssumption
<1>0. /\ run[r] \in Runs /\ run \in [Runners -> Runs] /\ run[r].through \in WavesOf(run[r].phase)
      /\ {"peek", "drop", "recreate", "stamp", "load", "open", "apply", "sql", "mark"}
           \subseteq Outside \cup Inside
  BY DEF TypeOK, Outside, Inside
<1>1. CASE Start(r)
  <2>0. PICK phase \in Phases : \E through \in WavesOf(phase) :
          run' = [run EXCEPT ![r] = [Idle EXCEPT !.pc = "create", !.phase = phase,
                                       !.wave = First(phase), !.through = through, !.files = edited]]
    BY <1>1 DEF Start
  <2>1. PICK through \in WavesOf(phase) :
          run' = [run EXCEPT ![r] = [Idle EXCEPT !.pc = "create", !.phase = phase,
                                       !.wave = First(phase), !.through = through, !.files = edited]]
    BY <2>0
  <2>2. /\ run'[r].pc = "create" /\ run'[r].phase = phase /\ run'[r].wave = First(phase)
        /\ run'[r].through = through /\ run'[r].step = 1
    BY <1>0, <2>1 DEF Idle
  <2>3. First(phase) \in First(phase) .. (through + 1)
    BY DEF WavesOf, First, Last, Phases
  <2> QED BY <2>2, <2>3 DEF Sound, Ordered, pc
<1>2. CASE Exit(r) \/ FinallyExit(r) \/ Refused(r)
  BY <1>2, QuitSound
<1>3. CASE \E to \in {"peek", "drop", "recreate", "stamp", "load"} :
             Go(r, to) /\ pc(r) \in {"create", "peek", "drop", "recreate", "stamp"}
  <2>1. PICK to \in {"peek", "drop", "recreate", "stamp", "load"} :
          Go(r, to) /\ pc(r) \in {"create", "peek", "drop", "recreate", "stamp"}
    BY <1>3
  <2>2. /\ run'[r].pc = to /\ run'[r].phase = run[r].phase /\ run'[r].wave = run[r].wave
        /\ run'[r].through = run[r].through /\ run'[r].step = run[r].step
    BY <1>0, <2>1, MoveFields
  <2> QED BY <2>1, <2>2 DEF Sound, Ordered, pc
<1>4. CASE pc(r) = "load" /\ run' = [run EXCEPT ![r].pc = "open",
                             ![r].seen = {m \in Chosen(r) : journal[m] = "succeeded"}]
  <2>1. /\ run'[r].pc = "open" /\ run'[r].phase = run[r].phase /\ run'[r].wave = run[r].wave
        /\ run'[r].through = run[r].through /\ run'[r].step = run[r].step
        /\ run'[r].seen = {m \in Chosen(r) : journal[m] = "succeeded"}
    BY <1>0, <1>4 DEF Runs
  <2>2. \A m \in run'[r].seen : AllRan(m)'
    BY <2>1, ChosenType, SucceededRan, RanGrows
  <2> QED BY <1>4, <2>1, <2>2 DEF Sound, Ordered, pc
<1>5. CASE pc(r) = "open" /\ Go(r, "apply")
  <2>1. /\ run'[r].pc = "apply" /\ run'[r].phase = run[r].phase /\ run'[r].wave = run[r].wave
        /\ run'[r].through = run[r].through /\ run'[r].step = run[r].step /\ run'[r].seen = run[r].seen
    BY <1>0, <1>5, MoveFields
  <2>2. \A m \in run[r].seen : AllRan(m)'
    BY <1>0, <1>5, RanGrows DEF Ordered, Runs
  <2>3. run[r].wave = First(run[r].phase) /\ First(run[r].phase) \in Nat
    BY <1>5 DEF Ordered, First
  <2>4. First(run[r].phase) .. (run[r].wave - 1) = {}
    BY <2>3
  <2> QED BY <1>5, <2>1, <2>2, <2>4 DEF Sound, Ordered, pc
<1>6. CASE NextMigration(r) /\ ~FinallyExit(r)
  <2>1. CASE Go(r, "sql") /\ run[r].wave <= run[r].through
    <3>1. /\ run'[r].pc = "sql" /\ run'[r].phase = run[r].phase /\ run'[r].wave = run[r].wave
          /\ run'[r].through = run[r].through /\ run'[r].step = run[r].step /\ run'[r].seen = run[r].seen
      BY <1>0, <2>1, MoveFields
    <3>2. pc(r) = "apply" /\ run[r].step = 1
      BY <1>6 DEF NextMigration, Sound
    <3>3. \A m \in run[r].seen : AllRan(m)'
      BY <1>0, <3>2, RanGrows DEF Ordered, Runs
    <3>4. \A w \in First(run[r].phase) .. (run[r].wave - 1) : AllRan(<<run[r].phase, w>>)'
      <4> SUFFICES ASSUME NEW w \in First(run[r].phase) .. (run[r].wave - 1)
                   PROVE  AllRan(<<run[r].phase, w>>)'
        OBVIOUS
      <4>1. w \in First(run[r].phase) .. run[r].through
        BY <1>0, <2>1 DEF Runs, First
      <4>2. <<run[r].phase, w>> \in Migrations
        BY <4>1, WaveMigrations
      <4>3. AllRan(<<run[r].phase, w>>)
        BY <3>2 DEF Ordered
      <4> QED BY <3>1, <4>2, <4>3, RanGrows
    <3>5. 1 .. (run'[r].step - 1) = {}
      BY <3>1, <3>2
    <3> QED BY <2>1, <3>1, <3>2, <3>3, <3>4, <3>5 DEF Sound, Ordered, pc
  <2>2. CASE /\ run' = [run EXCEPT ![r].wave = @ + 1] /\ run[r].wave <= run[r].through /\ Skipped(r)
             /\ UNCHANGED ran
    <3>1. /\ run'[r].pc = run[r].pc /\ run'[r].phase = run[r].phase /\ run'[r].wave = run[r].wave + 1
          /\ run'[r].through = run[r].through /\ run'[r].step = run[r].step /\ run'[r].seen = run[r].seen
      BY <1>0, <2>2 DEF Runs
    <3>2. pc(r) = "apply" /\ run[r].step = 1
      BY <1>6 DEF NextMigration, Sound
    <3>3. AllRan(<<run[r].phase, run[r].wave>>)
      BY <2>2, <3>2 DEF Skipped, Current, Ordered
    <3>4. \A w \in First(run[r].phase) .. (run'[r].wave - 1) : AllRan(<<run[r].phase, w>>)
      <4> SUFFICES ASSUME NEW w \in First(run[r].phase) .. (run'[r].wave - 1)
                   PROVE  AllRan(<<run[r].phase, w>>)
        OBVIOUS
      <4>1. w = run[r].wave \/ w \in First(run[r].phase) .. (run[r].wave - 1)
        BY <1>0, <3>1 DEF Runs, First
      <4> QED BY <3>2, <3>3, <4>1 DEF Ordered
    <3>5. \A m : AllRan(m)' = AllRan(m)
      BY <2>2 DEF AllRan
    <3>6. run'[r].wave \in First(run[r].phase) .. (run[r].through + 1)
      BY <1>0, <2>2, <3>1, <3>2 DEF Sound, Runs, First, pc
    <3> QED BY <3>1, <3>2, <3>4, <3>5, <3>6 DEF Sound, Ordered, pc
  <2> QED BY <1>6, <2>1, <2>2 DEF NextMigration
<1>7. CASE Statement(r)
  <2>1. /\ run'[r].pc = IF AtLast(run[r].step) THEN "mark" ELSE "sql"
        /\ run'[r].step = IF AtLast(run[r].step) THEN 1 ELSE run[r].step + 1
        /\ run'[r].phase = run[r].phase /\ run'[r].wave = run[r].wave
        /\ run'[r].through = run[r].through /\ run'[r].seen = run[r].seen /\ run'[r].files = run[r].files
    BY <1>0, <1>7 DEF Statement, Runs, pc
  <2>2. pc(r) = "sql" /\ run[r].wave <= run[r].through /\ Current(r) \in Migrations
    BY <1>0, <1>7, WaveMigrations DEF Statement, Sound, Current, First, Runs
  <2>3. \A k \in 1 .. run[r].step : <<k, Version(r)>> \in ran'[Current(r)]
    <3>1. ran'[Current(r)] = ran[Current(r)] \cup {<<run[r].step, Version(r)>>}
      BY <1>7, <2>2 DEF Statement, TypeOK
    <3>2. \A k \in 1 .. run[r].step : k = run[r].step \/ k \in 1 .. (run[r].step - 1)
      BY <1>0 DEF Runs
    <3> QED BY <2>2, <3>1, <3>2 DEF Sound
  <2>4. Current(r)' = Current(r) /\ Version(r)' = Version(r)
    BY <2>1 DEF Current, Version
  <2>5. \A m \in run[r].seen : AllRan(m)'
    BY <1>0, <2>2, RanGrows DEF Ordered, Runs
  <2>6. \A w \in First(run[r].phase) .. (run[r].wave - 1) : AllRan(<<run[r].phase, w>>)'
    <3> SUFFICES ASSUME NEW w \in First(run[r].phase) .. (run[r].wave - 1)
                 PROVE  AllRan(<<run[r].phase, w>>)'
      OBVIOUS
    <3>1. w \in First(run[r].phase) .. run[r].through
      BY <1>0, <2>2 DEF Runs, First
    <3>2. <<run[r].phase, w>> \in Migrations
      BY <3>1, WaveMigrations
    <3>3. AllRan(<<run[r].phase, w>>)
      BY <2>2 DEF Ordered
    <3> QED BY <2>1, <3>2, <3>3, RanGrows
  <2>7. Ordered(r)'
    BY <2>1, <2>5, <2>6 DEF Ordered, pc
  <2>8. Sound(r)'
    <3>1. run'[r].wave \in First(run'[r].phase) .. (run'[r].through + 1) /\ run'[r].wave <= run'[r].through
      BY <2>1, <2>2 DEF Sound
    <3>2. CASE AtLast(run[r].step)
      BY <2>1, <2>3, <2>4, <3>1, <3>2 DEF Sound, pc, AtLast
    <3>3. CASE ~AtLast(run[r].step)
      <4>1. run'[r].step - 1 = run[r].step
        BY <1>0, <2>1, <3>3 DEF Runs
      <4> QED BY <2>1, <2>3, <2>4, <3>1, <3>3, <4>1 DEF Sound, pc
    <3> QED BY <3>2, <3>3
  <2> QED BY <2>7, <2>8
<1>8. CASE Mark(r)
  <2>1. /\ run'[r].pc = "apply" /\ run'[r].phase = run[r].phase /\ run'[r].wave = run[r].wave + 1
        /\ run'[r].through = run[r].through /\ run'[r].step = run[r].step /\ run'[r].seen = run[r].seen
    BY <1>0, <1>8 DEF Mark, Runs
  <2>2. pc(r) = "mark" /\ run[r].step = 1 /\ UNCHANGED ran
    BY <1>8 DEF Mark, Sound
  <2>3. AllRan(Current(r))
    <3> SUFFICES ASSUME NEW k \in 1 .. Statements PROVE \E s \in ran[Current(r)] : s[1] = k
      BY DEF AllRan
    <3>1. <<k, Version(r)>> \in ran[Current(r)] /\ <<k, Version(r)>>[1] = k
      BY <2>2 DEF Sound
    <3> QED BY <3>1
  <2>4. \A w \in First(run[r].phase) .. (run'[r].wave - 1) : AllRan(<<run[r].phase, w>>)
    <3> SUFFICES ASSUME NEW w \in First(run[r].phase) .. (run'[r].wave - 1)
                 PROVE  AllRan(<<run[r].phase, w>>)
      OBVIOUS
    <3>1. w = run[r].wave \/ w \in First(run[r].phase) .. (run[r].wave - 1)
      BY <1>0, <2>1 DEF Runs, First
    <3> QED BY <2>2, <2>3, <3>1 DEF Ordered, Current
  <2>5. \A m : AllRan(m)' = AllRan(m)
    BY <2>2 DEF AllRan
  <2>6. run'[r].wave \in First(run[r].phase) .. (run[r].through + 1)
    BY <1>0, <2>1, <2>2 DEF Sound, Runs, First
  <2> QED BY <2>1, <2>2, <2>4, <2>5, <2>6 DEF Sound, Ordered, pc
<1>9. CASE CreateLock(r) \/ PeekLock(r) \/ DropStale(r) \/ StampLock(r)
  BY <1>2, <1>3, <1>9 DEF CreateLock, PeekLock, DropStale, StampLock
<1>10. CASE Unlock(r) \/ Load(r) \/ OpenRun(r) \/ LockCommandFails(r) \/ ApplyFails(r) \/ Crash(r)
  BY <1>2, <1>4, <1>5, <1>10 DEF Unlock, Load, OpenRun, LockCommandFails, ApplyFails, AfterFailure, Crash
<1> QED BY <1>1, <1>2, <1>6, <1>7, <1>8, <1>9, <1>10 DEF Proceed

\* Every step keeps the journal's successes executed.
LEMMA SucceededStep ==
  ASSUME TypeOK, RunsSound, SucceededApplied, [Next]_vars
  PROVE  SucceededApplied'
<1> SUFFICES ASSUME NEW m \in Migrations, journal'[m] = "succeeded", NEW k \in 1 .. Statements
             PROVE  <<k, sum'[m]>> \in ran'[m]
  BY DEF SucceededApplied
<1>1. CASE journal[m] = "succeeded" /\ sum'[m] = sum[m]
  BY <1>1, RanGrows DEF SucceededApplied
<1>2. CASE UNCHANGED <<journal, sum>>
  BY <1>1, <1>2
<1>3. ASSUME NEW r \in Runners, NEW status \in {"running", "failed"}, WriteJournal(r, status)
      PROVE  journal[m] = "succeeded" /\ sum'[m] = sum[m]
  BY <1>3 DEF WriteJournal, TypeOK
<1>4. ASSUME NEW r \in Runners, Mark(r)
      PROVE  <<k, sum'[m]>> \in ran'[m]
  <2>1. CASE m = Current(r)
    <3>1. sum'[m] = Version(r) /\ pc(r) = "mark" /\ ran' = ran
      BY <1>4, <2>1 DEF Mark, WriteJournal, TypeOK
    <3>2. <<k, Version(r)>> \in ran[Current(r)]
      BY <3>1 DEF RunsSound, Sound
    <3> QED BY <2>1, <3>1, <3>2
  <2>2. CASE m # Current(r)
    BY <1>1, <1>4, <2>2 DEF Mark, WriteJournal, TypeOK
  <2> QED BY <2>1, <2>2
<1>5. ASSUME NEW r \in Runners, NextMigration(r) \/ ApplyFails(r)
      PROVE  UNCHANGED <<journal, sum>> \/ \E status \in {"running", "failed"} : WriteJournal(r, status)
  BY <1>5 DEF NextMigration, ApplyFails, Journals
<1>6. ASSUME NEW r \in Runners,
             \/ Start(r) \/ CreateLock(r) \/ PeekLock(r) \/ DropStale(r) \/ StampLock(r) \/ Unlock(r)
             \/ Load(r) \/ OpenRun(r) \/ Statement(r) \/ LockCommandFails(r) \/ Crash(r)
      PROVE  UNCHANGED <<journal, sum>>
  BY <1>6 DEF Start, CreateLock, PeekLock, DropStale, StampLock, Unlock, Load, OpenRun, Statement,
              LockCommandFails, Crash, Database, Journals
<1>7. CASE ServerRestart \/ LockAges \/ ClearLock \/ (\E n \in Migrations : Edit(n)) \/ UNCHANGED vars
  BY <1>2, <1>7 DEF ServerRestart, LockAges, ClearLock, Edit, vars, Database
<1> QED BY <1>1, <1>2, <1>3, <1>4, <1>5, <1>6, <1>7 DEF Next, Proceed

\* Every step keeps the waves of a phase in order.
LEMMA OrderStep ==
  ASSUME TypeOK, RunsSound, WavesInOrder, [Next]_vars
  PROVE  WavesInOrder'
<1> SUFFICES ASSUME NEW m \in Migrations, NEW n \in Migrations,
                    m[1] = n[1], m[2] < n[2], ran'[n] # {}
             PROVE  AllRan(m)'
  BY DEF WavesInOrder
<1>1. CASE ran[n] # {}
  BY <1>1, RanGrows DEF WavesInOrder
<1>2. CASE ran[n] = {}
  <2>1. ran' # ran
    BY <1>2
  <2>2. PICK r \in Runners : Statement(r)
    BY <2>1 DEF Next, Proceed, Start, CreateLock, PeekLock, DropStale, StampLock, Unlock, Load, OpenRun,
                NextMigration, Mark, LockCommandFails, ApplyFails, Crash, ServerRestart, LockAges, ClearLock,
                Edit, vars, Database
  <2>3. n = Current(r) /\ pc(r) = "sql"
    BY <1>2, <2>2 DEF Statement, TypeOK
  <2>4. n[1] = run[r].phase /\ n[2] = run[r].wave
    BY <2>3 DEF Current
  <2>5. m = <<run[r].phase, m[2]>> /\ m[2] \in First(run[r].phase) .. (run[r].wave - 1)
    BY <2>4, WavesAssumption DEF Migrations, First
  <2>6. AllRan(m)
    BY <2>3, <2>5 DEF RunsSound, Ordered
  <2> QED BY <2>6, RanGrows
<1> QED BY <1>1, <1>2

\* The invariant is inductive.
LEMMA InvInit == Init => IInv
<1> SUFFICES ASSUME Init PROVE IInv
  OBVIOUS
<1>1. RunsSound
  BY DEF Init, RunsSound, Sound, Ordered, pc, Idle
<1>2. OwnsLock
  BY DEF Init, OwnsLock, Alive, pc, Idle, Inside
<1>3. SucceededApplied /\ WavesInOrder
  BY DEF Init, SucceededApplied, WavesInOrder
<1> QED BY <1>1, <1>2, <1>3, InitType DEF IInv

\* Every step keeps every part of the invariant.
LEMMA InvStep == IInv /\ [Next]_vars => IInv'
<1> SUFFICES ASSUME IInv, [Next]_vars PROVE IInv'
  OBVIOUS
<1> USE DEF IInv
<1>1. TypeOK' /\ OwnsLock' /\ SucceededApplied' /\ WavesInOrder'
  BY StepType, OwnsLockStep, SucceededStep, OrderStep
<1>2. RunsSound'
  <2> SUFFICES ASSUME NEW s \in Runners PROVE Sound(s)' /\ Ordered(s)'
    BY DEF RunsSound
  <2>1. Sound(s) /\ Ordered(s)
    BY DEF RunsSound
  <2>2. CASE ServerRestart \/ LockAges \/ ClearLock \/ (\E m \in Migrations : Edit(m)) \/ UNCHANGED vars
    <3>1. run'[s] = run[s]
      BY <2>2 DEF ServerRestart, LockAges, ClearLock, Edit, vars
    <3> QED BY <2>1, <3>1, StaysSound
  <2>3. ASSUME NEW r \in Runners,
               Start(r) \/ Proceed(r) \/ LockCommandFails(r) \/ ApplyFails(r) \/ Crash(r)
        PROVE  Sound(s)' /\ Ordered(s)'
    <3>1. CASE r = s
      BY <2>1, <2>3, <3>1, RunnerSound
    <3>2. CASE r # s
      BY <2>1, <2>3, <3>2, OthersUntouched, StaysSound
    <3> QED BY <3>1, <3>2
  <2> QED BY <2>2, <2>3 DEF Next
<1> QED BY <1>1, <1>2

\* A journalled success was executed in full, in the journalled version of the file,
\* even when runs overlap, fail or are retried.
THEOREM JournalSound == Spec => []SucceededApplied
<1>1. IInv => SucceededApplied
  BY DEF IInv
<1> QED BY <1>1, InvInit, InvStep, PTL DEF Spec

\* No wave is begun before the earlier waves of its phase were executed in full.
THEOREM ForwardOnly == Spec => []WavesInOrder
<1>1. IInv => WavesInOrder
  BY DEF IInv
<1> QED BY <1>1, InvInit, InvStep, PTL DEF Spec

-----------------------------------------------------------------------------
(* The checksum drift guard. *)

\* A journal row, and a first statement of wave 0 that ran, need the journal's table.
JournalExists ==
  /\ \A m \in Migrations : journal[m] # "none" => "journal" \in tables
  /\ \A s \in ran[Wave0] : s[1] = 1 => "journal" \in tables

\* A backfill runs after wave 0, and every other statement after its "running" row.
BegunJournalled(r) ==
  /\ pc(r) \notin {"idle", "unlock"} /\ run[r].phase = "backfill" => AllRan(Wave0)
  /\ pc(r) \in {"sql", "mark"} /\ Current(r) # Wave0 => journal[Current(r)] # "none"

\* Behind the guard, a run's files are those of the journal.
NoDrift(r) ==
  pc(r) \in {"open", "apply", "sql", "mark"} =>
    \A m \in Chosen(r) : journal[m] # "none" => sum[m] = (m \in run[r].files)

\* What was executed was executed in the journalled version.
RanAsJournalled ==
  \A m \in Migrations \ {Wave0} : \A s \in ran[m] : journal[m] # "none" /\ s[2] = sum[m]

VersionInv ==
  /\ JournalExists
  /\ \A r \in Runners : BegunJournalled(r)
  /\ ~stolen => RanAsJournalled /\ \A r \in Runners : NoDrift(r)

\* The journal's table is never dropped.
LEMMA TablesGrow ==
  ASSUME [Next]_vars
  PROVE  tables \subseteq tables'
<1>1. ASSUME NEW r \in Runners, Statement(r) PROVE tables \subseteq tables'
  BY <1>1 DEF Statement
<1>2. CASE \A r \in Runners : ~Statement(r)
  <2>1. UNCHANGED tables
    BY <1>2 DEF Next, Proceed, Start, CreateLock, PeekLock, DropStale, StampLock, Unlock, Load, OpenRun,
                NextMigration, Mark, LockCommandFails, ApplyFails, Crash, ServerRestart, LockAges, ClearLock,
                Edit, vars, Database
  <2> QED BY <2>1
<1> QED BY <1>1, <1>2

\* The current migration of a run that has waves left is one it chose.
LEMMA CurrentChosen ==
  ASSUME IInv, NEW r \in Runners, pc(r) \in {"apply", "sql", "mark"}, run[r].wave <= run[r].through
  PROVE  Current(r) \in Chosen(r) /\ Current(r) \in Migrations
<1>1. run[r] \in Runs /\ run[r].through \in WavesOf(run[r].phase) /\ TypeOK
  BY DEF IInv, TypeOK
<1>2. run[r].wave \in First(run[r].phase) .. run[r].through
  BY <1>1, WavesAssumption DEF IInv, RunsSound, Sound, Runs, First
<1>3. Current(r) \in Chosen(r)
  BY <1>2 DEF Current, Chosen
<1> QED BY <1>1, <1>3, ChosenType

\* A first statement of wave 0 that ran created the journal.
LEMMA WaveZeroJournal ==
  ASSUME JournalExists, AllRan(Wave0)
  PROVE  "journal" \in tables
<1>1. 1 \in {s[1] : s \in ran[Wave0]}
  BY WavesAssumption DEF AllRan
<1>2. PICK s \in ran[Wave0] : s[1] = 1
  BY <1>1
<1> QED BY <1>2 DEF JournalExists

\* A run past wave 0 finds the journal.
LEMMA LaterWaveJournal ==
  ASSUME IInv, JournalExists, NEW r \in Runners, BegunJournalled(r),
         pc(r) \in {"apply", "sql", "mark"}, run[r].wave <= run[r].through, Current(r) # Wave0
  PROVE  "journal" \in tables
<1>1. run[r] \in Runs
  BY DEF IInv, TypeOK
<1>2. CASE run[r].phase = "backfill"
  BY <1>2, WaveZeroJournal DEF BegunJournalled
<1>3. CASE run[r].phase = "schema"
  <2>1. run[r].wave \in Nat /\ run[r].wave # 0
    BY <1>1, <1>3 DEF Current, Wave0, Runs
  <2>2. 0 \in First(run[r].phase) .. (run[r].wave - 1)
    BY <1>3, <2>1 DEF First
  <2>3. AllRan(<<run[r].phase, 0>>)
    BY <2>2 DEF IInv, RunsSound, Ordered
  <2> QED BY <1>3, <2>3, WaveZeroJournal DEF Wave0
<1> QED BY <1>1, <1>2, <1>3 DEF Runs, Phases

\* The journal changes only by a row that a run under the lock writes for its current
\* migration, into an existing table.
LEMMA JournalSteps ==
  ASSUME IInv, JournalExists, \A r \in Runners : BegunJournalled(r), [Next]_vars
  PROVE  \/ UNCHANGED <<journal, sum>>
         \/ /\ UNCHANGED <<ran, stolen>>
            /\ "journal" \in tables
            /\ \E r \in Runners, status \in {"running", "failed", "succeeded"} :
                 /\ WriteJournal(r, status)
                 /\ pc(r) \in {"apply", "sql", "mark"}
                 /\ run[r].wave <= run[r].through
<1>1. CASE \A r \in Runners : ~(NextMigration(r) \/ ApplyFails(r) \/ Mark(r))
  BY <1>1 DEF Next, Proceed, Start, CreateLock, PeekLock, DropStale, StampLock, Unlock, Load, OpenRun,
              Statement, LockCommandFails, Crash, ServerRestart, LockAges, ClearLock, Edit, vars,
              Database, Journals
<1>2. ASSUME NEW r \in Runners, NextMigration(r)
      PROVE  \/ UNCHANGED <<journal, sum>>
             \/ /\ UNCHANGED <<ran, stolen>> /\ "journal" \in tables /\ WriteJournal(r, "running")
                /\ pc(r) = "apply" /\ run[r].wave <= run[r].through
  BY <1>2 DEF NextMigration, Journals, Locking
<1>3. ASSUME NEW r \in Runners, ApplyFails(r)
      PROVE  \/ UNCHANGED <<journal, sum>>
             \/ /\ UNCHANGED <<ran, stolen>> /\ "journal" \in tables /\ WriteJournal(r, "failed")
                /\ pc(r) = "sql" /\ run[r].wave <= run[r].through
  BY <1>3 DEF ApplyFails, Journals, Locking, IInv, RunsSound, Sound
<1>4. ASSUME NEW r \in Runners, Mark(r)
      PROVE  /\ UNCHANGED <<ran, stolen>> /\ "journal" \in tables /\ WriteJournal(r, "succeeded")
             /\ pc(r) = "mark" /\ run[r].wave <= run[r].through
  <2>1. pc(r) = "mark" /\ run[r].wave <= run[r].through
    BY <1>4 DEF Mark, IInv, RunsSound, Sound
  <2>2. CASE Current(r) = Wave0
    <3>1. AllRan(Wave0)
      <4> SUFFICES ASSUME NEW k \in 1 .. Statements PROVE \E s \in ran[Wave0] : s[1] = k
        BY DEF AllRan
      <4>1. <<k, Version(r)>> \in ran[Wave0] /\ <<k, Version(r)>>[1] = k
        BY <2>1, <2>2 DEF IInv, RunsSound, Sound
      <4> QED BY <4>1
    <3> QED BY <1>4, <2>1, <3>1, WaveZeroJournal DEF Mark, Locking
  <2>3. CASE Current(r) # Wave0
    BY <1>4, <2>1, <2>3, LaterWaveJournal DEF Mark, Locking
  <2> QED BY <2>2, <2>3
<1> QED BY <1>1, <1>2, <1>3, <1>4

\* Every step keeps the journal's table under its rows.
LEMMA JournalExistsStep ==
  ASSUME IInv, JournalExists, \A r \in Runners : BegunJournalled(r), [Next]_vars
  PROVE  JournalExists'
<1>1. ASSUME NEW m \in Migrations, journal'[m] # "none" PROVE "journal" \in tables'
  BY <1>1, JournalSteps, TablesGrow DEF JournalExists
<1>2. ASSUME NEW s \in ran'[Wave0], s[1] = 1 PROVE "journal" \in tables'
  <2>1. CASE s \in ran[Wave0]
    BY <1>2, <2>1, TablesGrow DEF JournalExists
  <2>2. CASE s \notin ran[Wave0]
    <3>1. PICK r \in Runners : Statement(r)
      <4>1. ran' # ran
        BY <1>2, <2>2
      <4> QED BY <4>1 DEF Next, Proceed, Start, CreateLock, PeekLock, DropStale, StampLock, Unlock, Load,
                  OpenRun, NextMigration, Mark, LockCommandFails, ApplyFails, Crash, ServerRestart, LockAges,
                  ClearLock, Edit, vars, Database
    <3>2. Wave0 \in Migrations
      BY WavesAssumption DEF Wave0, Migrations
    <3>3. Current(r) = Wave0 /\ s = <<run[r].step, Version(r)>>
      <4>1. ran' = [ran EXCEPT ![Current(r)] = @ \cup {<<run[r].step, Version(r)>>}]
        BY <3>1 DEF Statement
      <4>2. ran \in [Migrations -> SUBSET ((1 .. Statements) \X Versions)]
        BY DEF IInv, TypeOK
      <4> QED BY <1>2, <2>2, <3>2, <4>1, <4>2
    <3>4. run[r].step = 1
      BY <1>2, <3>3
    <3>5. tables' = tables \cup {"journal"}
      BY <3>1, <3>3, <3>4 DEF Statement, CreatedBy
    <3> QED BY <3>5
  <2> QED BY <2>1, <2>2
<1> QED BY <1>1, <1>2 DEF JournalExists

\* A journal row is never taken back.
LEMMA JournalGrows ==
  ASSUME IInv, JournalExists, \A r \in Runners : BegunJournalled(r), [Next]_vars
  PROVE  \A m \in Migrations : journal[m] # "none" => journal'[m] # "none"
<1>1. ASSUME NEW r \in Runners, NEW status \in {"running", "failed", "succeeded"}, WriteJournal(r, status)
      PROVE  \A m \in Migrations : journal[m] # "none" => journal'[m] # "none"
  BY <1>1 DEF WriteJournal, IInv, TypeOK
<1> QED BY <1>1, JournalSteps

\* A run whose record stays as it is stays begun.
LEMMA BegunStays ==
  ASSUME IInv, JournalExists, \A r \in Runners : BegunJournalled(r), [Next]_vars,
         NEW s \in Runners, run'[s] = run[s]
  PROVE  BegunJournalled(s)'
<1>1. pc(s)' = pc(s) /\ Current(s)' = Current(s)
  BY DEF pc, Current
<1>2. Wave0 \in Migrations
  BY WavesAssumption DEF Wave0, Migrations
<1>3. pc(s) \in {"sql", "mark"} => Current(s) \in Migrations
  BY CurrentChosen DEF IInv, RunsSound, Sound
<1> QED BY <1>1, <1>2, <1>3, RanGrows, JournalGrows DEF BegunJournalled, IInv

\* Every step keeps the runs begun and journalled.
LEMMA BegunStep ==
  ASSUME IInv, JournalExists, \A r \in Runners : BegunJournalled(r), [Next]_vars
  PROVE  \A r \in Runners : BegunJournalled(r)'
<1> SUFFICES ASSUME NEW s \in Runners PROVE BegunJournalled(s)'
  OBVIOUS
<1> USE DEF IInv
<1>0. /\ TypeOK /\ run[s] \in Runs /\ run \in [Runners -> Runs]
      /\ Wave0 \in Migrations
      /\ {"peek", "drop", "recreate", "stamp", "load", "open", "apply", "sql", "mark"}
           \subseteq Outside \cup Inside
  BY WavesAssumption DEF TypeOK, Outside, Inside, Wave0, Migrations
<1>1. CASE ServerRestart \/ LockAges \/ ClearLock \/ (\E m \in Migrations : Edit(m)) \/ UNCHANGED vars
  <2>1. run'[s] = run[s]
    BY <1>1 DEF ServerRestart, LockAges, ClearLock, Edit, vars
  <2> QED BY <2>1, BegunStays
<1>2. ASSUME NEW r \in Runners,
             Start(r) \/ Proceed(r) \/ LockCommandFails(r) \/ ApplyFails(r) \/ Crash(r),
             r # s
      PROVE  BegunJournalled(s)'
  BY <1>0, <1>2, OthersUntouched, BegunStays
<1>3. CASE Start(s)
  <2>1. PICK phase \in Phases :
          /\ phase = "backfill" => AllRan(Wave0)
          /\ \E through \in WavesOf(phase) :
               run' = [run EXCEPT ![s] = [Idle EXCEPT !.pc = "create", !.phase = phase,
                                            !.wave = First(phase), !.through = through, !.files = edited]]
    BY <1>3 DEF Start, AllRan
  <2>2. run'[s].pc = "create" /\ run'[s].phase = phase
    BY <1>0, <2>1 DEF Idle
  <2>3. phase = "backfill" => AllRan(Wave0)'
    BY <1>0, <2>1, RanGrows
  <2> QED BY <2>2, <2>3 DEF BegunJournalled, pc
<1>4. ASSUME run'[s].pc \in {"idle", "unlock"} PROVE BegunJournalled(s)'
  BY <1>4 DEF BegunJournalled, pc
<1>5. ASSUME Exit(s) \/ FinallyExit(s) \/ Refused(s) PROVE BegunJournalled(s)'
  BY <1>0, <1>4, <1>5 DEF Exit, FinallyExit, Refused, Idle
<1>6. ASSUME pc(s) \notin {"idle", "unlock"}, run'[s].phase = run[s].phase,
             \/ run'[s].pc \notin {"sql", "mark"}
             \/ pc(s) = "sql" /\ run'[s].wave = run[s].wave
      PROVE  BegunJournalled(s)'
  <2>1. run'[s].phase = "backfill" => AllRan(Wave0)'
    BY <1>0, <1>6, RanGrows DEF BegunJournalled
  <2>2. CASE run'[s].pc \notin {"sql", "mark"}
    BY <2>1, <2>2 DEF BegunJournalled, pc
  <2>3. CASE pc(s) = "sql" /\ run'[s].wave = run[s].wave
    <3>1. Current(s)' = Current(s)
      BY <1>6, <2>3 DEF Current
    <3>2. Current(s) \in Migrations
      BY <2>3, CurrentChosen DEF RunsSound, Sound
    <3>3. Current(s) # Wave0 => journal'[Current(s)] # "none"
      BY <2>3, <3>2, JournalGrows DEF BegunJournalled
    <3> QED BY <2>1, <3>1, <3>3 DEF BegunJournalled, pc
  <2> QED BY <1>6, <2>2, <2>3
<1>7. ASSUME \E to \in {"peek", "drop", "recreate", "stamp", "load", "apply"} : Go(s, to),
             pc(s) \notin {"idle", "unlock"}
      PROVE  BegunJournalled(s)'
  <2>1. PICK to \in {"peek", "drop", "recreate", "stamp", "load", "apply"} : Go(s, to)
    BY <1>7
  <2>2. run'[s].pc = to /\ run'[s].phase = run[s].phase
    BY <1>0, <2>1, MoveFields
  <2> QED BY <1>6, <1>7, <2>2
<1>8. CASE CreateLock(s) \/ PeekLock(s) \/ DropStale(s) \/ StampLock(s) \/ Unlock(s) \/ OpenRun(s)
           \/ LockCommandFails(s) \/ ApplyFails(s) \/ Crash(s)
  BY <1>5, <1>7, <1>8 DEF CreateLock, PeekLock, DropStale, StampLock, Unlock, OpenRun,
                          LockCommandFails, ApplyFails, AfterFailure, Crash
<1>9. CASE Load(s)
  <2>1. CASE FinallyExit(s)
    BY <1>5, <2>1
  <2>2. CASE run' = [run EXCEPT ![s].pc = "open",
                       ![s].seen = {m \in Chosen(s) : journal[m] = "succeeded"}]
    <3>1. run'[s].pc = "open" /\ run'[s].phase = run[s].phase
      BY <1>0, <2>2 DEF Runs
    <3> QED BY <1>6, <1>9, <3>1 DEF Load
  <2> QED BY <1>9, <2>1, <2>2 DEF Load
<1>10. CASE NextMigration(s)
  <2>1. CASE FinallyExit(s)
    BY <1>5, <2>1
  <2>2. CASE run' = [run EXCEPT ![s].wave = @ + 1] /\ pc(s) = "apply"
    <3>1. run'[s].pc = run[s].pc /\ run'[s].phase = run[s].phase
      BY <1>0, <2>2 DEF Runs
    <3> QED BY <1>6, <2>2, <3>1 DEF pc
  <2>3. CASE /\ pc(s) = "apply" /\ run[s].wave <= run[s].through /\ Go(s, "sql")
             /\ "journal" \in tables => WriteJournal(s, "running")
    <3>1. run'[s].pc = "sql" /\ run'[s].phase = run[s].phase /\ run'[s].wave = run[s].wave
      BY <1>0, <2>3, MoveFields
    <3>2. run'[s].phase = "backfill" => AllRan(Wave0)'
      BY <1>0, <2>3, <3>1, RanGrows DEF BegunJournalled
    <3>3. Current(s)' = Current(s) /\ Current(s) \in Migrations
      BY <2>3, <3>1, CurrentChosen DEF Current
    <3>4. Current(s) # Wave0 => journal'[Current(s)] = "running"
      BY <2>3, <3>3, LaterWaveJournal DEF WriteJournal, TypeOK
    <3> QED BY <3>1, <3>2, <3>3, <3>4 DEF BegunJournalled, pc
  <2> QED BY <1>10, <2>1, <2>2, <2>3 DEF NextMigration
<1>11. CASE Statement(s)
  <2>1. run'[s].phase = run[s].phase /\ run'[s].wave = run[s].wave
    BY <1>0, <1>11 DEF Statement, Runs
  <2> QED BY <1>6, <1>11, <2>1 DEF Statement
<1>12. CASE Mark(s)
  <2>1. run'[s].pc = "apply" /\ run'[s].phase = run[s].phase
    BY <1>0, <1>12 DEF Mark, Runs
  <2> QED BY <1>6, <1>12, <2>1 DEF Mark
<1> QED BY <1>1, <1>2, <1>3, <1>8, <1>9, <1>10, <1>11, <1>12 DEF Next, Proceed

\* The guard holds as long as no other run is under the lock.
LEMMA NoDriftStep ==
  ASSUME IInv, VersionInv, [Next]_vars, ~stolen'
  PROVE  \A r \in Runners : NoDrift(r)'
<1> SUFFICES ASSUME NEW s \in Runners, run'[s].pc \in {"open", "apply", "sql", "mark"},
                    NEW m \in Chosen(s)', journal'[m] # "none"
             PROVE  sum'[m] = (m \in run'[s].files)
  BY DEF NoDrift, pc
<1> USE DEF IInv
<1>0. ~stolen
  BY DEF Next, Proceed, Start, CreateLock, PeekLock, DropStale, StampLock, Unlock, Load, OpenRun,
         NextMigration, Statement, Mark, LockCommandFails, ApplyFails, Crash, ServerRestart, LockAges,
         ClearLock, Edit, vars, Locking
<1>1. CASE /\ run[s].pc \in {"open", "apply", "sql", "mark"}
           /\ run'[s].phase = run[s].phase /\ run'[s].through = run[s].through
           /\ run'[s].files = run[s].files
  <2>1. Chosen(s)' = Chosen(s)
    BY <1>1 DEF Chosen
  <2>2. NoDrift(s)
    BY <1>0 DEF VersionInv
  <2>3. CASE UNCHANGED <<journal, sum>>
    BY <1>1, <2>1, <2>2, <2>3 DEF NoDrift, pc
  <2>4. ASSUME NEW r \in Runners, NEW status \in {"running", "failed", "succeeded"},
               WriteJournal(r, status), pc(r) \in {"apply", "sql", "mark"}
        PROVE  sum'[m] = (m \in run'[s].files)
    <3>1. r = s
      BY <1>0, <1>1, <2>4 DEF OwnsLock, Alive, Inside, pc
    <3>2. m \in Migrations
      BY <2>1, ChosenType
    <3>3. CASE m = Current(s)
      BY <1>1, <2>4, <3>1, <3>2, <3>3 DEF WriteJournal, Version, TypeOK
    <3>4. CASE m # Current(s)
      <4>1. journal'[m] = journal[m] /\ sum'[m] = sum[m]
        BY <2>4, <3>1, <3>2, <3>4 DEF WriteJournal, TypeOK
      <4> QED BY <1>1, <2>1, <2>2, <4>1 DEF NoDrift, pc
    <3> QED BY <3>3, <3>4
  <2> QED BY <2>3, <2>4, JournalSteps DEF VersionInv
<1>2. CASE run'[s] = run[s]
  BY <1>1, <1>2
<1>3. ASSUME NEW r \in Runners, r # s,
             Start(r) \/ Proceed(r) \/ LockCommandFails(r) \/ ApplyFails(r) \/ Crash(r)
      PROVE  run'[s] = run[s]
  BY <1>3, OthersUntouched
<1>4. CASE ServerRestart \/ LockAges \/ ClearLock \/ (\E n \in Migrations : Edit(n)) \/ UNCHANGED vars
  BY <1>2, <1>4 DEF ServerRestart, LockAges, ClearLock, Edit, vars
<1>5. run \in [Runners -> Runs] /\ run[s] \in Runs
      /\ {"peek", "drop", "recreate", "stamp", "load", "apply", "sql"} \subseteq Outside \cup Inside
  BY DEF TypeOK, Outside, Inside
<1>6. ASSUME Exit(s) \/ FinallyExit(s) \/ Refused(s) PROVE FALSE
  BY <1>5, <1>6 DEF Exit, FinallyExit, Refused, Idle
<1>7. CASE OpenRun(s) \/ NextMigration(s) \/ Statement(s) \/ Mark(s)
  <2>1. CASE \E to \in {"apply", "sql"} : Go(s, to)
    BY <1>1, <1>5, <1>7, <2>1, MoveFields DEF OpenRun, NextMigration, Statement, Mark, pc
  <2>2. CASE NextMigration(s) /\ run' = [run EXCEPT ![s].wave = @ + 1]
    BY <1>1, <1>5, <2>2 DEF NextMigration, pc, Runs
  <2>3. CASE Statement(s)
    BY <1>1, <1>5, <2>3 DEF Statement, pc, Runs
  <2>4. CASE Mark(s)
    BY <1>1, <1>5, <2>4 DEF Mark, pc, Runs
  <2> QED BY <1>6, <1>7, <2>1, <2>2, <2>3, <2>4 DEF OpenRun, NextMigration
<1>8. CASE Load(s)
  <2>1. /\ Drifted(s) = {}
        /\ run' = [run EXCEPT ![s].pc = "open",
                     ![s].seen = {n \in Chosen(s) : journal[n] = "succeeded"}]
    BY <1>6, <1>8 DEF Load
  <2>2. run'[s].phase = run[s].phase /\ run'[s].through = run[s].through /\ run'[s].files = run[s].files
    BY <1>5, <2>1 DEF Runs
  <2>3. m \in Chosen(s) /\ m \in Migrations /\ UNCHANGED <<journal, sum>>
    BY <1>8, <2>2, ChosenType DEF Chosen, Load, Database
  <2>4. Journalled(m)
    BY <2>3 DEF Journalled, VersionInv, JournalExists
  <2> QED BY <2>1, <2>2, <2>3, <2>4 DEF Drifted
<1>9. ~Start(s)
  <2> SUFFICES ASSUME Start(s) PROVE FALSE
    OBVIOUS
  <2>1. run'[s].pc = "create"
    BY <1>5 DEF Start, Idle
  <2> QED BY <2>1
<1>10. CASE CreateLock(s) \/ PeekLock(s) \/ DropStale(s) \/ StampLock(s)
  <2>1. \E to \in {"peek", "drop", "recreate", "stamp", "load"} : Go(s, to)
    BY <1>6, <1>10 DEF CreateLock, PeekLock, DropStale, StampLock
  <2> QED BY <1>5, <2>1, MoveFields
<1>11. ~(Unlock(s) \/ LockCommandFails(s) \/ ApplyFails(s) \/ Crash(s))
  BY <1>6 DEF Unlock, LockCommandFails, ApplyFails, AfterFailure, Crash
<1> QED BY <1>2, <1>3, <1>4, <1>7, <1>8, <1>9, <1>10, <1>11 DEF Next, Proceed

\* Every statement is executed in the journalled version of its file.
LEMMA RanAsJournalledStep ==
  ASSUME IInv, VersionInv, [Next]_vars, ~stolen
  PROVE  RanAsJournalled'
<1> SUFFICES ASSUME NEW m \in Migrations \ {Wave0}, NEW s \in ran'[m]
             PROVE  journal'[m] # "none" /\ s[2] = sum'[m]
  BY DEF RanAsJournalled
<1> USE DEF IInv
<1>1. ASSUME NEW r \in Runners, Statement(r)
      PROVE  journal'[m] # "none" /\ s[2] = sum'[m]
  <2>1. UNCHANGED <<journal, sum>>
    BY <1>1 DEF Statement, Journals
  <2>2. CASE s \in ran[m]
    BY <2>1, <2>2 DEF VersionInv, RanAsJournalled
  <2>3. CASE s \notin ran[m]
    <3>1. m = Current(r) /\ s = <<run[r].step, Version(r)>>
      BY <1>1, <2>3 DEF Statement, TypeOK
    <3>2. pc(r) = "sql" /\ run[r].wave <= run[r].through
      BY <1>1 DEF Statement, RunsSound, Sound
    <3>3. m \in Chosen(r)
      BY <3>1, <3>2, CurrentChosen
    <3>4. journal[m] # "none"
      BY <3>1, <3>2 DEF VersionInv, BegunJournalled
    <3>5. sum[m] = (m \in run[r].files)
      BY <3>2, <3>3, <3>4 DEF VersionInv, NoDrift
    <3> QED BY <2>1, <3>1, <3>4, <3>5 DEF Version
  <2> QED BY <2>2, <2>3
<1>2. CASE UNCHANGED ran /\ UNCHANGED <<journal, sum>>
  BY <1>2 DEF VersionInv, RanAsJournalled
<1>3. ASSUME NEW r \in Runners, NEW status \in {"running", "failed", "succeeded"},
             WriteJournal(r, status), pc(r) \in {"apply", "sql", "mark"},
             run[r].wave <= run[r].through, UNCHANGED ran
      PROVE  journal'[m] # "none" /\ s[2] = sum'[m]
  <2>1. journal[m] # "none" /\ s[2] = sum[m]
    BY <1>3 DEF VersionInv, RanAsJournalled
  <2>2. CASE m = Current(r)
    <3>1. m \in Chosen(r)
      BY <1>3, <2>2, CurrentChosen
    <3>2. sum[m] = Version(r)
      BY <1>3, <2>1, <2>2, <3>1 DEF VersionInv, NoDrift, Version
    <3> QED BY <1>3, <2>1, <2>2, <3>2 DEF WriteJournal, TypeOK
  <2>3. CASE m # Current(r)
    BY <1>3, <2>1, <2>3 DEF WriteJournal, TypeOK
  <2> QED BY <2>2, <2>3
<1>4. CASE \A r \in Runners : ~Statement(r)
  <2>1. UNCHANGED ran
    BY <1>4 DEF Next, Proceed, Start, CreateLock, PeekLock, DropStale, StampLock, Unlock, Load, OpenRun,
                NextMigration, Mark, LockCommandFails, ApplyFails, Crash, ServerRestart, LockAges, ClearLock,
                Edit, vars, Database
  <2> QED BY <1>2, <1>3, <2>1, JournalSteps DEF VersionInv
<1> QED BY <1>1, <1>4

\* The invariant of the guard is inductive.
LEMMA VersionInit == Init => VersionInv
<1> SUFFICES ASSUME Init PROVE VersionInv
  OBVIOUS
<1>1. \A m \in Migrations : ran[m] = {} /\ journal[m] = "none"
  BY DEF Init
<1>2. Wave0 \in Migrations
  BY WavesAssumption DEF Wave0, Migrations
<1>3. JournalExists /\ RanAsJournalled
  BY <1>1, <1>2 DEF JournalExists, RanAsJournalled
<1>4. \A r \in Runners : BegunJournalled(r) /\ NoDrift(r)
  BY DEF Init, Idle, BegunJournalled, NoDrift, pc
<1> QED BY <1>3, <1>4 DEF VersionInv

\* Every step keeps the invariant of the guard.
LEMMA VersionStep == IInv /\ VersionInv /\ [Next]_vars => VersionInv'
<1> SUFFICES ASSUME IInv, VersionInv, [Next]_vars PROVE VersionInv'
  OBVIOUS
<1>1. JournalExists' /\ \A r \in Runners : BegunJournalled(r)'
  BY JournalExistsStep, BegunStep DEF VersionInv
<1>2. ~stolen' => ~stolen
  BY DEF Next, Proceed, Start, CreateLock, PeekLock, DropStale, StampLock, Unlock, Load, OpenRun,
         NextMigration, Statement, Mark, LockCommandFails, ApplyFails, Crash, ServerRestart, LockAges,
         ClearLock, Edit, vars, Locking
<1>3. ~stolen' => RanAsJournalled' /\ \A r \in Runners : NoDrift(r)'
  BY <1>2, NoDriftStep, RanAsJournalledStep
<1> QED BY <1>1, <1>3 DEF VersionInv

\* Statements executed in the journalled version are executed in one version.
LEMMA OneJournalled == VersionInv => OneVersion
<1> SUFFICES ASSUME VersionInv, ~stolen, NEW m \in Migrations \ {Wave0}
             PROVE  Cardinality({s[2] : s \in ran[m]}) <= 1
  BY DEF OneVersion
<1> DEFINE V == {s[2] : s \in ran[m]}
<1>1. V \subseteq {sum[m]}
  BY DEF VersionInv, RanAsJournalled
<1> HIDE DEF V
<1>2. Cardinality({sum[m]}) = 1 /\ IsFiniteSet({sum[m]})
  BY FS_Singleton
<1>3. Cardinality(V) <= Cardinality({sum[m]})
  BY <1>1, <1>2, FS_Subset
<1> QED BY <1>2, <1>3 DEF V

\* The drift guard works: unless a takeover hit a live run, no migration but wave 0 is
\* ever executed from two versions of its file.
THEOREM DriftGuarded == Spec => []OneVersion
BY InvInit, InvStep, VersionInit, VersionStep, OneJournalled, PTL DEF Spec


-----------------------------------------------------------------------------
(* The refinement of the forward-only log. *)

Executed(m) == {s[1] : s \in ran[m]}
Recorded    == {m \in Migrations : journal[m] = "succeeded"}

\* A migration whose statements all ran is complete in the log, and the other way round.
LEMMA CompleteRan ==
  ASSUME TypeOK, NEW m \in Migrations
  PROVE  AllRan(m) <=> Log!Complete(m)
<1>1. Executed(m) \subseteq 1 .. Statements
  <2> SUFFICES ASSUME NEW s \in ran[m] PROVE s[1] \in 1 .. Statements
    BY DEF Executed
  <2>1. s \in (1 .. Statements) \X Versions
    BY DEF TypeOK
  <2> QED BY <2>1
<1>2. Log!Complete(m) <=> Executed(m) = 1 .. Statements
  BY DEF Log!Complete, Executed
<1> QED BY <1>1, <1>2 DEF AllRan, Executed

\* The current migration of a run that has waves left is a migration.
LEMMA CurrentType ==
  ASSUME IInv, NEW r \in Runners, pc(r) \in {"sql", "mark"}
  PROVE  Current(r) \in Migrations
<1>1. run[r] \in Runs /\ run[r].through \in WavesOf(run[r].phase)
  BY DEF IInv, TypeOK
<1>2. run[r].wave \in First(run[r].phase) .. run[r].through
  BY <1>1, WavesAssumption DEF IInv, RunsSound, Sound, Runs, First
<1> QED BY <1>1, <1>2, WavesAssumption DEF Current, Migrations, WavesOf, First, Last, Runs, Phases

\* A statement the runner executes is one the log allows.
LEMMA StatementExecutes ==
  ASSUME IInv, NEW r \in Runners, Statement(r)
  PROVE  Log!Execute(Current(r), run[r].step)
<1> DEFINE m == Current(r)
           k == run[r].step
<1>0. pc(r) = "sql" /\ m \in Migrations /\ k \in 1 .. Statements /\ TypeOK
  BY CurrentType DEF Statement, IInv, TypeOK, Runs
<1>1. \A n \in EarlierWaves(m) : Log!Complete(n)
  <2> SUFFICES ASSUME NEW n \in Migrations, n[1] = m[1], n[2] < m[2] PROVE Log!Complete(n)
    BY DEF EarlierWaves
  <2>1. n[1] = run[r].phase /\ n[2] < run[r].wave /\ run[r].wave \in Nat
    BY <1>0 DEF Current, TypeOK, Runs
  <2>2. n = <<run[r].phase, n[2]>> /\ n[2] \in First(run[r].phase) .. (run[r].wave - 1)
    BY <2>1, WavesAssumption DEF Migrations, First
  <2>3. AllRan(n)
    BY <1>0, <2>2 DEF IInv, RunsSound, Ordered
  <2> QED BY <1>0, <2>3, CompleteRan
<1>2. 1 .. (k - 1) \subseteq Executed(m)
  <2> SUFFICES ASSUME NEW j \in 1 .. (k - 1) PROVE \E s \in ran[m] : s[1] = j
    BY DEF Executed
  <2>1. <<j, Version(r)>> \in ran[m] /\ <<j, Version(r)>>[1] = j
    BY <1>0 DEF IInv, RunsSound, Sound
  <2> QED BY <2>1
<1>3. [n \in Migrations |-> Executed(n)]' = [[n \in Migrations |-> Executed(n)] EXCEPT ![m] = @ \cup {k}]
  <2>1. ran' = [ran EXCEPT ![m] = @ \cup {<<k, Version(r)>>}]
    BY DEF Statement
  <2>2. \A n \in Migrations \ {m} : ran'[n] = ran[n]
    BY <1>0, <2>1 DEF TypeOK
  <2>3. ran'[m] = ran[m] \cup {<<k, Version(r)>>}
    BY <1>0, <2>1 DEF TypeOK
  <2>4. {s[1] : s \in ran'[m]} = {s[1] : s \in ran[m]} \cup {k}
    <3> DEFINE new == <<k, Version(r)>>
    <3>1. new[1] = k
      OBVIOUS
    <3> HIDE DEF new
    <3> QED BY <2>3, <3>1, Zenon DEF new
  <2> QED BY <1>0, <2>2, <2>4 DEF Executed
<1>4. UNCHANGED Recorded
  BY DEF Statement, Journals, Recorded
<1> QED BY <1>0, <1>1, <1>2, <1>3, <1>4 DEF Log!Execute, Executed, Recorded

\* A journal row for one migration records it or withdraws it.
LEMMA JournalRecords ==
  ASSUME IInv, NEW r \in Runners, NEW status, WriteJournal(r, status), UNCHANGED ran
  PROVE  \/ UNCHANGED Log!vars
         \/ \E m \in Migrations : status # "succeeded" /\ Log!Withdraw(m)
         \/ \E m \in Migrations : status = "succeeded" /\ m = Current(r) /\ (Log!Complete(m) => Log!Record(m))
<1> DEFINE m == Current(r)
<1>1. journal' = [journal EXCEPT ![m] = status] /\ journal \in [Migrations -> {"none", "running", "failed", "succeeded"}]
  BY DEF WriteJournal, IInv, TypeOK
<1>2. [n \in Migrations |-> Executed(n)]' = [n \in Migrations |-> Executed(n)]
  BY DEF Executed
<1>3. CASE m \notin Migrations
  BY <1>1, <1>2, <1>3 DEF Log!vars, Executed
<1>4. CASE m \in Migrations /\ status = "succeeded"
  <2>1. Recorded' = Recorded \cup {m}
    BY <1>1, <1>4 DEF Recorded
  <2> QED BY <1>2, <1>4, <2>1 DEF Log!Record, Executed, Recorded
<1>5. CASE m \in Migrations /\ status # "succeeded"
  <2>1. Recorded' = Recorded \ {m}
    BY <1>1, <1>5 DEF Recorded
  <2> QED BY <1>2, <1>5, <2>1 DEF Log!Withdraw, Executed, Recorded
<1> QED BY <1>3, <1>4, <1>5

\* A run that marks a migration has executed all of it.
LEMMA MarkRecords ==
  ASSUME IInv, NEW r \in Runners, Mark(r)
  PROVE  Log!Complete(Current(r)) /\ Current(r) \in Migrations
<1>1. pc(r) = "mark" /\ Current(r) \in Migrations /\ TypeOK
  BY CurrentType DEF Mark, IInv
<1>2. AllRan(Current(r))
  <2> SUFFICES ASSUME NEW k \in 1 .. Statements PROVE \E s \in ran[Current(r)] : s[1] = k
    BY DEF AllRan
  <2>1. <<k, Version(r)>> \in ran[Current(r)] /\ <<k, Version(r)>>[1] = k
    BY <1>1 DEF IInv, RunsSound, Sound
  <2> QED BY <2>1
<1> QED BY <1>1, <1>2, CompleteRan

\* Every step of the runner is a step of the log or leaves it unchanged.
LEMMA StepImplements == IInv /\ [Next]_vars => [Log!Next]_(Log!vars)
<1> SUFFICES ASSUME IInv, [Next]_vars PROVE Log!Next \/ UNCHANGED Log!vars
  OBVIOUS
<1>1. ASSUME UNCHANGED <<ran, journal>> PROVE UNCHANGED Log!vars
  BY <1>1 DEF Log!vars
<1>2. ASSUME NEW r \in Runners, Statement(r) PROVE Log!Next
  <2>1. Current(r) \in Migrations /\ run[r].step \in 1 .. Statements
    BY <1>2, CurrentType DEF Statement, IInv, TypeOK, Runs
  <2>2. Log!Execute(Current(r), run[r].step)
    BY <1>2, StatementExecutes
  <2>3. PICK m \in Migrations, k \in 1 .. Statements : m = Current(r) /\ k = run[r].step
    BY <2>1
  <2>4. Log!Execute(m, k)
    BY <2>2, <2>3 DEF Log!Execute
  <2> QED BY <2>4, Zenon DEF Log!Next
<1>3. ASSUME NEW r \in Runners, Mark(r) PROVE Log!Next \/ UNCHANGED Log!vars
  <2>1. WriteJournal(r, "succeeded") /\ UNCHANGED ran
    BY <1>3 DEF Mark
  <2> QED BY <1>3, <2>1, JournalRecords, MarkRecords DEF Log!Next
<1>4. ASSUME NEW r \in Runners, NEW status \in {"running", "failed"}, WriteJournal(r, status), UNCHANGED ran
      PROVE  Log!Next \/ UNCHANGED Log!vars
  BY <1>4, JournalRecords DEF Log!Next
<1>5. ASSUME NEW r \in Runners, NextMigration(r) \/ ApplyFails(r)
      PROVE  /\ UNCHANGED ran
             /\ UNCHANGED journal \/ \E status \in {"running", "failed"} : WriteJournal(r, status)
  BY <1>5 DEF NextMigration, ApplyFails, Journals
<1>6. ASSUME NEW r \in Runners,
             \/ CreateLock(r) \/ PeekLock(r) \/ DropStale(r) \/ StampLock(r) \/ Unlock(r)
             \/ Load(r) \/ OpenRun(r) \/ LockCommandFails(r) \/ Crash(r)
      PROVE  UNCHANGED <<ran, journal>>
  BY <1>6 DEF CreateLock, PeekLock, DropStale, StampLock, Unlock, Load, OpenRun,
              LockCommandFails, Crash, Database
<1>7. ASSUME NEW r \in Runners, Start(r) PROVE UNCHANGED <<ran, journal>>
  BY <1>7, Zenon DEF Start, Database
<1>8. CASE ServerRestart \/ LockAges \/ ClearLock \/ (\E n \in Migrations : Edit(n)) \/ UNCHANGED vars
  BY <1>1, <1>8 DEF ServerRestart, LockAges, ClearLock, Edit, vars, Database
<1> QED BY <1>1, <1>2, <1>3, <1>4, <1>5, <1>6, <1>7, <1>8 DEF Next, Proceed

\* The runner, with any number of overlapping, failing and restarted runs, implements the
\* forward-only migration log.
THEOREM Refines == Spec => ImplementsLog
<1>1. Init => Log!Init
  BY DEF Init, Log!Init
<1> QED BY <1>1, InvInit, InvStep, StepImplements, PTL DEF Spec, ImplementsLog, Log!Spec

-----------------------------------------------------------------------------
(* The tables and statements of the waves, read once file after file.       *)

CopiedFrom == {c[1] : c \in Waves!Copies}
CopiedTo   == {c[2] : c \in Waves!Copies}

\* The wave of the statements that fill a table.
WaveInto(name) ==
  CASE name \in {"ref.currencies", "ref.countries", "ref.exchanges", "ref.sources",
                 "ref.identifier_aliases", "ref.legislator_terms", "raw.archive"} -> 1
    [] name = "market.bars"             -> 2
    [] name = "meta.ingestion_runs"     -> 3
    [] name = "meta.hub_schema_layouts" -> 9
    [] OTHER                            -> 4

\* What is filled; its rows are told apart by keys that no rewritten row changes.
Filled(name) ==
  \/ WaveInto(name) # 4 \/ name \in CopiedFrom
  \/ name \in {"alt.political_filings", "alt.political_trades", "meta.unresolved_entities",
               "alt.political_committees", "alt.political_committee_memberships",
               "market.futures_contract_bars", "meta.source_status"}

\* The validations of the statement's wave look at the mappings it joins.
Covered(s) ==
  \/ s.refs \cap {"ref_instruments", "ref_contracts", "alt_political_legislators",
                  "ref_countries", "ref_exchanges"} # {}
  \/ /\ s.refs \cap {"alt_political_trades", "alt_political_house_filings",
                     "alt_political_committees"} # {}
     /\ WaveInto(s.into) >= 4

Shape(s) ==
  /\ s.match \in {"none", "key", "hash"}
  /\ (s.match = "none" <=> s.refs = {})
  /\ s.refs # {} => Covered(s)
  /\ s.admit \in {"absent", "version", "newest", "hash", "all"}
  /\ s.admit = "absent" => s.into \in Waves!Fixed /\ s.free = {}
  /\ s.into = "raw.archive" => s.admit = "absent"
  /\ s.into \in CopiedFrom => s.admit = "hash" /\ s.free \subseteq {"resolution"}
  /\ Filled(s.into) /\ s.into \notin CopiedTo

\* The statements of a file fill tables of one wave.
LEMMA FirstStatements == \A s \in Waves!Backfill01 : Shape(s) /\ WaveInto(s.into) = 1
BY DEF Waves!Backfill01, Waves!Insert, Shape, Covered, Filled, WaveInto, CopiedFrom, CopiedTo,
       Waves!Copies, Waves!Fixed

\* Wave 2: the bars.
LEMMA BarStatements == \A s \in Waves!Backfill02 : Shape(s) /\ WaveInto(s.into) = 2
BY DEF Waves!Backfill02, Waves!Insert, Shape, Covered, Filled, WaveInto, CopiedFrom, CopiedTo,
       Waves!Copies, Waves!Fixed

\* Wave 3: the ingestion runs.
LEMMA RunStatements == \A s \in Waves!Backfill03 : Shape(s) /\ WaveInto(s.into) = 3
BY DEF Waves!Backfill03, Waves!Insert, Shape, Covered, Filled, WaveInto, CopiedFrom, CopiedTo,
       Waves!Copies, Waves!Fixed

\* Wave 4: political facts and committees.
LEMMA PoliticalStatements ==
  \A s \in Waves!Backfill04Facts \cup Waves!Backfill04Committees : Shape(s) /\ WaveInto(s.into) = 4
BY DEF Waves!Backfill04Facts, Waves!Backfill04Committees, Waves!Own, Waves!Insert, Shape,
       Covered, Filled, WaveInto, CopiedFrom, CopiedTo, Waves!Copies, Waves!Fixed

\* Wave 4, data completion: series, coverage and recovery of both markets.
LEMMA SeriesStatements ==
  \A s \in Waves!CompletionIndia \cup Waves!CompletionUs : Shape(s) /\ WaveInto(s.into) = 4
BY DEF Waves!CompletionIndia, Waves!CompletionUs, Waves!ByHash, Waves!Insert, Shape, Covered,
       Filled, WaveInto, CopiedFrom, CopiedTo, Waves!Copies, Waves!Fixed

\* Wave 9: the layouts of the hub.
LEMMA LayoutStatements == \A s \in Waves!Backfill09 : Shape(s) /\ WaveInto(s.into) = 9
BY DEF Waves!Backfill09, Waves!Insert, Shape, Covered, Filled, WaveInto, CopiedFrom, CopiedTo,
       Waves!Copies, Waves!Fixed

\* The six backfill files in the order of their waves.
LEMMA FilesInOrder ==
  /\ DOMAIN Waves!BackfillFiles = 1 .. 6
  /\ \A i \in 1 .. 6 : Waves!BackfillFiles[i].wave = <<1, 2, 3, 4, 4, 9>>[i]
  /\ Waves!BackfillFiles[1].statements = Waves!Backfill01
  /\ Waves!BackfillFiles[2].statements = Waves!Backfill02
  /\ Waves!BackfillFiles[3].statements = Waves!Backfill03
  /\ Waves!BackfillFiles[4].statements = Waves!Backfill04Facts \cup Waves!Backfill04Committees
  /\ Waves!BackfillFiles[5].statements = Waves!CompletionIndia \cup Waves!CompletionUs
  /\ Waves!BackfillFiles[6].statements = Waves!Backfill09
BY DEF Waves!BackfillFiles, Waves!Fill

\* Every statement belongs to the wave of the table it fills.
LEMMA StatementShape ==
  \A i \in 1 .. 6 : \A s \in Waves!BackfillFiles[i].statements :
    Shape(s) /\ Waves!BackfillFiles[i].wave = WaveInto(s.into)
<1>1. SUFFICES ASSUME NEW i \in 1 .. 6, NEW s \in Waves!BackfillFiles[i].statements
               PROVE  Shape(s) /\ Waves!BackfillFiles[i].wave = WaveInto(s.into)
  OBVIOUS
<1>2. CASE i = 1
  BY <1>1, <1>2, FilesInOrder, FirstStatements
<1>3. CASE i = 2
  BY <1>1, <1>3, FilesInOrder, BarStatements
<1>4. CASE i = 3
  BY <1>1, <1>4, FilesInOrder, RunStatements
<1>5. CASE i = 4
  BY <1>1, <1>5, FilesInOrder, PoliticalStatements
<1>6. CASE i = 5
  BY <1>1, <1>6, FilesInOrder, SeriesStatements
<1>7. CASE i = 6
  BY <1>1, <1>7, FilesInOrder, LayoutStatements
<1> QED BY <1>2, <1>3, <1>4, <1>5, <1>6, <1>7

\* The file of a statement.
LEMMA LoadShape ==
  ASSUME NEW s \in Waves!Loads
  PROVE  /\ Shape(s) /\ Waves!Wave(s) = WaveInto(s.into)
         /\ \E i \in 1 .. 6 : s \in Waves!BackfillFiles[i].statements
<1>1. PICK i \in 1 .. 6 : s \in Waves!BackfillFiles[i].statements
  BY FilesInOrder DEF Waves!Loads
<1>2. Shape(s)
  BY <1>1, StatementShape
<1> DEFINE j == CHOOSE j \in DOMAIN Waves!BackfillFiles : s \in Waves!BackfillFiles[j].statements
<1>3. j \in 1 .. 6 /\ s \in Waves!BackfillFiles[j].statements
  BY <1>1, FilesInOrder
<1>4. Waves!BackfillFiles[j].wave = WaveInto(s.into)
  BY <1>3, StatementShape
<1> QED BY <1>1, <1>2, <1>4 DEF Waves!Wave

\* The sorting keys of v2: but for the archive, the lineage and the journals of the migration
\* the newest version of a row is kept, under a key without contents or times of writing.
Plain(t) ==
  /\ \/ t.name \in {"raw.archive", "meta.lineage"} \cup Waves!Crosswalk \cup Waves!Enrichment
                     \cup Waves!Corrections
     \/ t.latest /\ t.key \cap Waves!Moving = {}
  /\ t.name = "raw.archive" => ~t.latest
  /\ t.name \in CopiedTo => "resolution" \in t.key

\* Wave 0, whose journals are never filled by a backfill.
LEMMA PlainFirst == \A t \in Waves!Wave00 : Plain(t)
BY DEF Waves!Wave00, Waves!Table, Waves!Log, Waves!Correction, Plain, Waves!Moving,
       Waves!Crosswalk, Waves!Enrichment, Waves!Corrections, CopiedTo, Waves!Copies

\* Wave 1: codes and what is identified.
LEMMA PlainCodes == \A t \in Waves!Wave01Codes : Plain(t)
BY DEF Waves!Wave01Codes, Waves!Table, Plain, Waves!Moving, CopiedTo, Waves!Copies

\* Wave 1: securities, universes and the archive.
LEMMA PlainReference == \A t \in Waves!Wave01Securities \cup Waves!Wave01Sets : Plain(t)
BY DEF Waves!Wave01Securities, Waves!Wave01Sets, Waves!Table, Waves!Log, Plain, Waves!Moving,
       CopiedTo, Waves!Copies

\* Waves 2 and 3.
LEMMA PlainMarket == \A t \in Waves!Wave02Bars \cup Waves!Wave02Quotes \cup Waves!Wave03 : Plain(t)
BY DEF Waves!Wave02Bars, Waves!Wave02Quotes, Waves!Wave03, Waves!Table, Waves!Log, Plain,
       Waves!Moving, CopiedTo, Waves!Copies

\* Wave 4.
LEMMA PlainPolitical ==
  \A t \in Waves!Wave04Facts \cup Waves!Wave04Committees \cup Waves!DataCompletion : Plain(t)
BY DEF Waves!Wave04Facts, Waves!Wave04Committees, Waves!DataCompletion, Waves!Table, Plain,
       Waves!Moving, CopiedTo, Waves!Copies

\* Waves 5 and 6.
LEMMA PlainDerived == \A t \in Waves!Wave05 \cup Waves!Wave06 : Plain(t)
BY DEF Waves!Wave05, Waves!Wave06, Waves!Table, Plain, Waves!Moving, CopiedTo, Waves!Copies

\* Wave 7.
LEMMA PlainBroker ==
  \A t \in Waves!Wave07Snapshots \cup Waves!Wave07Orders \cup Waves!Wave07Events : Plain(t)
BY DEF Waves!Wave07Snapshots, Waves!Wave07Orders, Waves!Wave07Events, Waves!Account,
       Waves!Table, Plain, Waves!Moving, CopiedTo, Waves!Copies

\* Waves 8 and 9.
LEMMA PlainBooks == \A t \in Waves!Wave08Books \cup Waves!Wave08Risk \cup Waves!Wave09 : Plain(t)
BY DEF Waves!Wave08Books, Waves!Wave08Risk, Waves!Wave09, Waves!Table, Plain, Waves!Moving,
       CopiedTo, Waves!Copies

\* The views, which have no key.
LEMMA PlainViews ==
  \A t \in Waves!Views01.creates \cup Waves!Views02.creates \cup Waves!Views04.creates
             \cup Waves!Views07.creates : Plain(t)
BY DEF Waves!Views01, Waves!Views02, Waves!Views04, Waves!Views07, Waves!File, Waves!View,
       Waves!Table, Plain, Waves!Moving, CopiedTo, Waves!Copies

\* The schema files, in order.
LEMMA SchemaInOrder ==
  /\ DOMAIN Waves!SchemaFiles = 1 .. 15
  /\ Waves!SchemaFiles[1] = Waves!File(0, Waves!Wave00, {})
  /\ Waves!SchemaFiles[2] =
       Waves!File(1, Waves!Wave01Codes \cup Waves!Wave01Securities \cup Waves!Wave01Sets, {})
  /\ Waves!SchemaFiles[3] = Waves!Views01
  /\ Waves!SchemaFiles[4] = Waves!File(2, Waves!Wave02Bars \cup Waves!Wave02Quotes, {})
  /\ Waves!SchemaFiles[5] = Waves!Views02
  /\ Waves!SchemaFiles[6] = Waves!File(3, Waves!Wave03, {})
  /\ Waves!SchemaFiles[7] = Waves!File(4, Waves!Wave04Facts \cup Waves!Wave04Committees, {})
  /\ Waves!SchemaFiles[8] = Waves!File(4, Waves!DataCompletion, {})
  /\ Waves!SchemaFiles[9] = Waves!Views04
  /\ Waves!SchemaFiles[10] = Waves!File(5, Waves!Wave05, {})
  /\ Waves!SchemaFiles[11] = Waves!File(6, Waves!Wave06, {})
  /\ Waves!SchemaFiles[12] =
       Waves!File(7, Waves!Wave07Snapshots \cup Waves!Wave07Orders \cup Waves!Wave07Events, {})
  /\ Waves!SchemaFiles[13] = Waves!Views07
  /\ Waves!SchemaFiles[14] = Waves!File(8, Waves!Wave08Books \cup Waves!Wave08Risk, {})
  /\ Waves!SchemaFiles[15] = Waves!Schema09
BY DEF Waves!SchemaFiles

\* Hence every table of v2.
LEMMA PlainTables == \A t \in Waves!Target : Plain(t)
<1>1. SUFFICES ASSUME NEW i \in 1 .. 15, NEW t \in Waves!SchemaFiles[i].creates
               PROVE  Plain(t)
  BY SchemaInOrder DEF Waves!Target
<1>2. CASE i \in {1, 2}
  BY <1>1, <1>2, SchemaInOrder, PlainFirst, PlainCodes, PlainReference DEF Waves!File
<1>3. CASE i \in {4, 6}
  BY <1>1, <1>3, SchemaInOrder, PlainMarket DEF Waves!File
<1>4. CASE i \in {7, 8}
  BY <1>1, <1>4, SchemaInOrder, PlainPolitical DEF Waves!File
<1>5. CASE i \in {10, 11}
  BY <1>1, <1>5, SchemaInOrder, PlainDerived DEF Waves!File
<1>6. CASE i = 12
  BY <1>1, <1>6, SchemaInOrder, PlainBroker DEF Waves!File
<1>7. CASE i \in {14, 15}
  BY <1>1, <1>7, SchemaInOrder, PlainBooks DEF Waves!File, Waves!Schema09
<1>8. CASE i \in {3, 5, 9, 13}
  BY <1>1, <1>8, SchemaInOrder, PlainViews
<1> QED BY <1>2, <1>3, <1>4, <1>5, <1>6, <1>7, <1>8

\* What is filled or copied to is made by a schema file.
LEMMA FilledAreMade ==
  \A name : Filled(name) \/ name \in CopiedTo => \E t \in Waves!Target : t.name = name
<1>1. \A i \in 1 .. 15 : Waves!SchemaFiles[i].creates \subseteq Waves!Target
  BY SchemaInOrder DEF Waves!Target
<1>2. Waves!Wave01Codes \cup Waves!Wave01Securities \cup Waves!Wave01Sets \subseteq Waves!Target
  BY <1>1, SchemaInOrder DEF Waves!File
<1>3. Waves!Wave02Bars \cup Waves!Wave03 \subseteq Waves!Target
  BY <1>1, SchemaInOrder DEF Waves!File
<1>4. Waves!Wave04Facts \cup Waves!Wave04Committees \cup Waves!DataCompletion \subseteq Waves!Target
  BY <1>1, SchemaInOrder DEF Waves!File
<1>5. Waves!Wave09 \subseteq Waves!Target
  BY <1>1, SchemaInOrder DEF Waves!File, Waves!Schema09
<1>6. \A name \in {"ref.currencies", "ref.countries", "ref.exchanges", "ref.sources",
                   "ref.identifier_aliases", "ref.legislator_terms", "raw.archive"} :
        \E t \in Waves!Wave01Codes \cup Waves!Wave01Securities \cup Waves!Wave01Sets : t.name = name
  BY DEF Waves!Wave01Codes, Waves!Wave01Securities, Waves!Wave01Sets, Waves!Table, Waves!Log
<1>7. \A name \in {"market.bars", "meta.ingestion_runs"} :
        \E t \in Waves!Wave02Bars \cup Waves!Wave03 : t.name = name
  BY DEF Waves!Wave02Bars, Waves!Wave03, Waves!Table, Waves!Log
<1>8. \A name \in CopiedFrom \cup
          {"alt.political_filings", "alt.political_trades", "meta.unresolved_entities",
           "alt.political_committees", "alt.political_committee_memberships",
           "market.futures_contract_bars", "meta.source_status"} :
        \E t \in Waves!Wave03 \cup Waves!Wave04Facts \cup Waves!Wave04Committees
                   \cup Waves!DataCompletion : t.name = name
  BY DEF CopiedFrom, Waves!Copies, Waves!Wave03, Waves!Wave04Facts, Waves!Wave04Committees,
         Waves!DataCompletion, Waves!Table, Waves!Log
<1>9. \A name \in CopiedTo \cup {"meta.hub_schema_layouts"} : \E t \in Waves!Wave09 : t.name = name
  BY DEF CopiedTo, Waves!Copies, Waves!Wave09, Waves!Table
<1> QED BY <1>2, <1>3, <1>4, <1>5, <1>6, <1>7, <1>8, <1>9 DEF Filled, WaveInto

\* The keys of what a statement fills.
LEMMA FilledKeys ==
  \A name : Filled(name) /\ name \notin CopiedTo =>
    IF name = "raw.archive" THEN ~Waves!Named(name).latest
    ELSE Waves!Named(name).latest /\ Waves!Named(name).key \cap Waves!Moving = {}
<1>1. SUFFICES ASSUME NEW name, Filled(name), name \notin CopiedTo
               PROVE  IF name = "raw.archive" THEN ~Waves!Named(name).latest
                      ELSE Waves!Named(name).latest /\ Waves!Named(name).key \cap Waves!Moving = {}
  OBVIOUS
<1>2. Waves!Named(name) \in Waves!Target /\ Waves!Named(name).name = name
  BY <1>1, FilledAreMade DEF Waves!Named
<1>3. Plain(Waves!Named(name))
  BY <1>2, PlainTables
<1>4. name \notin {"meta.lineage"} \cup Waves!Crosswalk \cup Waves!Enrichment \cup Waves!Corrections
  BY <1>1 DEF Filled, WaveInto, CopiedFrom, Waves!Copies, Waves!Crosswalk, Waves!Enrichment,
              Waves!Corrections
<1> QED BY <1>2, <1>3, <1>4 DEF Plain

\* The resolution is part of the key of every table copied to.
LEMMA CopiedKeys == \A name \in CopiedTo : "resolution" \in Waves!Named(name).key
<1>1. SUFFICES ASSUME NEW name \in CopiedTo PROVE "resolution" \in Waves!Named(name).key
  OBVIOUS
<1>2. Waves!Named(name) \in Waves!Target /\ Waves!Named(name).name = name
  BY <1>1, FilledAreMade DEF Waves!Named
<1> QED BY <1>1, <1>2, PlainTables DEF Plain

\* A copy is of one table, into one table.
LEMMA CopiesApart ==
  /\ \A c, d \in Waves!Copies : (c[1] = d[1] <=> c = d) /\ (c[2] = d[2] <=> c = d) /\ c[1] # d[2]
  /\ CopiedFrom \cap CopiedTo = {}
BY DEF Waves!Copies, CopiedFrom, CopiedTo

\* Each schema file finds what it needs among the tables of the files before it.
LEMMA NeedsAreMadeBefore ==
  \A i \in 1 .. 15 : \A name \in Waves!SchemaFiles[i].needs :
    \E j \in 1 .. i - 1 : name \in Waves!Names(Waves!SchemaFiles[j].creates)
<1>1. SUFFICES ASSUME NEW i \in 1 .. 15, NEW name \in Waves!SchemaFiles[i].needs
               PROVE  \E j \in 1 .. i - 1 : name \in Waves!Names(Waves!SchemaFiles[j].creates)
  OBVIOUS
<1>2. CASE i = 3
  <2>1. name \in {"ref.exchanges", "ref.sessions", "ref.holidays"}
    BY <1>1, <1>2, SchemaInOrder DEF Waves!Views01, Waves!File
  <2>2. \E t \in Waves!Wave01Codes \cup Waves!Wave01Sets : t.name = name
    BY <2>1 DEF Waves!Wave01Codes, Waves!Wave01Sets, Waves!Table
  <2>3. \E t \in Waves!SchemaFiles[2].creates : t.name = name
    BY <2>2, SchemaInOrder DEF Waves!File
  <2> QED BY <1>2, <2>3 DEF Waves!Names
<1>3. CASE i = 5
  <2>1. name \in {"market.bars", "ref.universe_membership"}
    BY <1>1, <1>3, SchemaInOrder DEF Waves!Views02, Waves!File
  <2>2. \E t \in Waves!Wave01Sets \cup Waves!Wave02Bars : t.name = name
    BY <2>1 DEF Waves!Wave01Sets, Waves!Wave02Bars, Waves!Table
  <2>3. \/ \E t \in Waves!SchemaFiles[2].creates : t.name = name
        \/ \E t \in Waves!SchemaFiles[4].creates : t.name = name
    BY <2>2, SchemaInOrder DEF Waves!File
  <2> QED BY <1>3, <2>3 DEF Waves!Names
<1>4. CASE i = 9
  <2>1. name = "alt.political_trades"
    BY <1>1, <1>4, SchemaInOrder DEF Waves!Views04, Waves!File
  <2>2. \E t \in Waves!Wave04Facts : t.name = name
    BY <2>1 DEF Waves!Wave04Facts, Waves!Table
  <2>3. \E t \in Waves!SchemaFiles[7].creates : t.name = name
    BY <2>2, SchemaInOrder DEF Waves!File
  <2> QED BY <1>4, <2>3 DEF Waves!Names
<1>5. CASE i = 13
  <2>1. name = "broker.positions_snapshot"
    BY <1>1, <1>5, SchemaInOrder DEF Waves!Views07, Waves!File
  <2>2. \E t \in Waves!Wave07Snapshots : t.name = name
    BY <2>1 DEF Waves!Wave07Snapshots, Waves!Table
  <2>3. \E t \in Waves!SchemaFiles[12].creates : t.name = name
    BY <2>2, SchemaInOrder DEF Waves!File
  <2> QED BY <1>5, <2>3 DEF Waves!Names
<1>6. CASE i = 15
  <2>1. name \in {"market.futures_contract_bars", "meta.source_status"}
    BY <1>1, <1>6, SchemaInOrder DEF Waves!Schema09, Waves!File
  <2>2. \E t \in Waves!DataCompletion : t.name = name
    BY <2>1 DEF Waves!DataCompletion, Waves!Table
  <2>3. \E t \in Waves!SchemaFiles[8].creates : t.name = name
    BY <2>2, SchemaInOrder DEF Waves!File
  <2> QED BY <1>6, <2>3 DEF Waves!Names
<1>7. CASE i \notin {3, 5, 9, 13, 15}
  BY <1>1, <1>7, SchemaInOrder DEF Waves!File
<1> QED BY <1>2, <1>3, <1>4, <1>5, <1>6, <1>7

-----------------------------------------------------------------------------
(* What holds of the rows that are copied.                                  *)

\* Where the row that is followed may be, and under which key it is inserted.
Places == {lane.into} \cup {c[2] : c \in {d \in Waves!Copies : d[1] = lane.into}}
Here   == Waves!KeyIn(Waves!Named(lane.into), row)

Record(h) == h = [in |-> h.in, key |-> h.key, version |-> h.version, at |-> h.at]

Commands == [pc : {"idle", "run"}, phase : {"schema", "backfill", "rbac"}, through : Nat,
             file : Nat \ {0}, quiet : BOOLEAN]

WaveTypes ==
  /\ lane \in Waves!Loads
  /\ now \in Nat /\ row.at \in 0 .. now /\ ref \in 0 .. now
  /\ maps \subseteq [of : Nat, at : 0 .. now, ok : BOOLEAN]
  /\ job \in Commands
  /\ settled \in Nat

\* Rows come from the legacy row, and the legacy row has its reference row.
RowsHeld ==
  /\ row.at = 0 => held = {}
  /\ lane.refs # {} /\ row.at > 0 => ref > 0
  /\ \A h \in held : Record(h) /\ h.in \in Places /\ h.at \in 1 .. row.at /\ h.version \in Nat

\* The archive is inserted once; elsewhere a key is held once, and a row that cannot change its
\* key has only one.
KeysHeld ==
  IF lane.into = "raw.archive" THEN \A g, h \in held : g = h
  ELSE /\ \A g, h \in held : g.in = h.in /\ g.key = h.key => g = h
       /\ \A h \in held : h.at = row.at => h.key = Here
       /\ lane.free \cap Waves!Named(lane.into).key = {} => \A h \in held : h.key = <<0, 0>>

\* Where versions are times, none is from the future, and an older row has an older version.
VersionsHeld ==
  lane.admit # "hash" =>
    \A h \in held : /\ h.version \in h.at .. now
                    /\ h.at < row.at => h.version < row.at
                    /\ lane.admit = "all" => h.version = h.at

\* A copy is of a row that is still there, or of an older version of it.
CopiesBehind ==
  \A c \in Waves!Copies : c[1] = lane.into =>
    \A g \in Waves!Final(c[2]) : \E h \in Waves!Final(c[1]) :
      h.key = g.key /\ (h.version > g.version \/ (h.version = g.version /\ h.at = g.at))

RowInv == WaveTypes /\ RowsHeld /\ KeysHeld /\ VersionsHeld /\ CopiesBehind

\* The statement would find nothing to insert.
Reached ==
  \E h \in Waves!Final(lane.into) :
    lane.admit # "absent" =>
      /\ h.at = row.at
      /\ lane.admit = "newest" => \A m \in Waves!Joined : m.at <= h.version

\* Nor would the copies of wave 9.
AllCopied ==
  \A c \in Waves!Copies : c[1] = lane.into =>
    Waves!Final(c[2]) = {[h EXCEPT !.in = c[2]] : h \in Waves!Final(c[1])}

\* What a command knows of the files it has behind it, a backfill as long as nothing changes.
Progress ==
  /\ settled >= Waves!Wave(lane) /\ row.at > 0 => Reached
  /\ settled >= 9 => AllCopied
  /\ job.pc = "run" /\ job.phase = "backfill" /\ job.quiet =>
       /\ Waves!Valid(job.through)
       /\ \A i \in 1 .. 6 :
            lane \in Waves!BackfillFiles[i].statements /\ job.file > i /\ row.at > 0 => Reached
       /\ job.file > 6 => AllCopied
  /\ job.pc = "run" /\ job.phase = "schema" =>
       \A i \in 1 .. 15 : i < job.file => Waves!Applied(i)

WavesInv == RowInv /\ Progress

-----------------------------------------------------------------------------
(* What a statement inserts.                                                *)

\* The statement that is followed.
LEMMA LaneShape ==
  ASSUME WaveTypes
  PROVE  /\ Shape(lane) /\ Waves!Wave(lane) = WaveInto(lane.into)
         /\ lane.into \in Waves!Fixed => WaveInto(lane.into) = 1
         /\ lane.into # "raw.archive" =>
              Waves!Named(lane.into).latest /\ Waves!Named(lane.into).key \cap Waves!Moving = {}
         /\ lane.into = "raw.archive" => ~Waves!Named(lane.into).latest
<1>1. Shape(lane) /\ Waves!Wave(lane) = WaveInto(lane.into)
  BY LoadShape DEF WaveTypes
<1>2. Filled(lane.into) /\ lane.into \notin CopiedTo
  BY <1>1 DEF Shape
<1>3. lane.into \in Waves!Fixed => WaveInto(lane.into) = 1
  BY DEF Waves!Fixed, WaveInto
<1> QED BY <1>1, <1>2, <1>3, FilledKeys

\* The key does not depend on what is written when.
LEMMA HereKey ==
  ASSUME WaveTypes, lane.into # "raw.archive"
  PROVE  lane.free \cap Waves!Named(lane.into).key = {} => Here = <<0, 0>>
BY LaneShape DEF Here, Waves!KeyIn

\* The target's row that the statement's LEFT JOIN finds.
LEMMA FoundHere ==
  ASSUME RowInv, lane.into # "raw.archive"
  PROVE  /\ \A h \in Waves!Final(lane.into) :
              h.key = Here => Waves!Found = [version |-> h.version, at |-> h.at]
         /\ (\A h \in Waves!Final(lane.into) : h.key # Here)
              => Waves!Found = [version |-> 0, at |-> 0]
<1> DEFINE found == {h \in Waves!Final(lane.into) : h.key = Here}
<1>1. Waves!Found = IF found = {} THEN [version |-> 0, at |-> 0]
                    ELSE LET h == CHOOSE h \in found : TRUE IN [version |-> h.version, at |-> h.at]
  <2>1. found = {h \in Waves!Final(lane.into) :
                   ~Waves!Named(lane.into).latest \/ h.key = Waves!KeyIn(Waves!Named(lane.into), row)}
    BY LaneShape DEF RowInv, Here
  <2> QED BY <2>1 DEF Waves!Found
<1>2. \A g, h \in found : g = h
  BY DEF RowInv, KeysHeld, Waves!Final
<1> HIDE DEF found
<1>3. \A h \in found : (CHOOSE g \in found : TRUE) = h
  BY <1>2
<1>4. \A h \in found : Waves!Found = [version |-> h.version, at |-> h.at]
  BY <1>1, <1>3
<1> QED BY <1>1, <1>4 DEF found

\* A row of the archive is found whatever its key.
LEMMA FoundInArchive ==
  ASSUME RowInv, lane.into = "raw.archive"
  PROVE  Waves!Found.at = 0 => held = {}
<1>1. Waves!Final(lane.into) = held
  BY CopiesApart, LaneShape DEF RowInv, RowsHeld, Places, Waves!Final, Waves!Copies
<1>2. \A h \in held : h.at # 0
  BY DEF RowInv, RowsHeld
<1>3. {h \in held : ~Waves!Named(lane.into).latest
                      \/ h.key = Waves!KeyIn(Waves!Named(lane.into), row)} = held
  BY LaneShape DEF RowInv
<1>4. Waves!Found = IF held = {} THEN [version |-> 0, at |-> 0]
                    ELSE LET h == CHOOSE h \in held : TRUE IN [version |-> h.version, at |-> h.at]
  BY <1>1, <1>3 DEF Waves!Found
<1>5. held # {} => (CHOOSE h \in held : TRUE) \in held
  OBVIOUS
<1> QED BY <1>2, <1>4, <1>5

\* The order of the naturals, and the first of some of them.
LessNat == {ss \in Nat \X Nat : ss[1] < ss[2]}

\* No infinite descent in the naturals.
LEMMA LessWellFounded == IsWellFoundedOn(LessNat, Nat)
BY NatLessThanWellFounded, Zenon DEF OpToRel, LessNat

\* A set of naturals that is not empty has a least one.
LEMMA FirstNatural ==
  ASSUME NEW T \in SUBSET Nat, T # {}
  PROVE  \E x \in T : \A y \in T : x <= y
<1>1. PICK x \in T : \A y \in T : <<y, x>> \notin LessNat
  BY LessWellFounded, WFMin, Zenon
<1>2. \A y \in T : y \in Nat /\ <<y, x>> \in Nat \X Nat
  OBVIOUS
<1>3. \A y \in T : ~(y < x)
  BY <1>1, <1>2 DEF LessNat
<1> QED BY <1>2, <1>3

\* The mappings that are joined are none, or known ones.
LEMMA JoinedTimes ==
  ASSUME RowInv
  PROVE  \A m \in Waves!Joined : m.at \in 0 .. now
<1>1. lane.match \in {"none", "key", "hash"} /\ now \in Nat
  BY LaneShape DEF RowInv, WaveTypes, Shape
<1>2. \A m \in maps : m.at \in 0 .. now
  BY DEF RowInv, WaveTypes
<1>3. CASE lane.match = "none"
  BY <1>1, <1>3 DEF Waves!Joined
<1>4. CASE lane.match = "key"
  BY <1>2, <1>4 DEF Waves!Joined, Waves!Approved
<1>5. CASE lane.match = "hash"
  BY <1>2, <1>5 DEF Waves!Joined, Waves!Approved
<1> QED BY <1>1, <1>3, <1>4, <1>5

\* The version of the row that is found, if any.
LEMMA FoundVersion ==
  ASSUME RowInv
  PROVE  Waves!Found.version \in Nat
<1>1. CASE lane.into = "raw.archive"
  <2>1. Waves!Final(lane.into) \subseteq held
    BY DEF Waves!Final
  <2>2. \A h \in held : h.version \in Nat
    BY DEF RowInv, RowsHeld
  <2> DEFINE rows == {h \in Waves!Final(lane.into) :
                        ~Waves!Named(lane.into).latest
                          \/ h.key = Waves!KeyIn(Waves!Named(lane.into), row)}
  <2>3. Waves!Found = IF rows = {} THEN [version |-> 0, at |-> 0]
                      ELSE LET h == CHOOSE h \in rows : TRUE IN [version |-> h.version, at |-> h.at]
    BY DEF Waves!Found
  <2>4. rows # {} => (CHOOSE h \in rows : TRUE) \in held
    BY <2>1
  <2> QED BY <2>2, <2>3, <2>4
<1>2. CASE lane.into # "raw.archive"
  <2>1. \A h \in Waves!Final(lane.into) : h.version \in Nat
    BY DEF RowInv, RowsHeld, Waves!Final
  <2> QED BY <1>2, <2>1, FoundHere
<1> QED BY <1>1, <1>2

\* The version a row would be inserted with.
LEMMA VersionAs ==
  ASSUME RowInv
  PROVE  \A m \in Waves!Joined :
           /\ Waves!VersionOf(m) \in Nat
           /\ lane.admit = "newest" =>
                Waves!VersionOf(m) = IF row.at > m.at THEN row.at ELSE m.at
           /\ lane.admit = "hash" =>
                Waves!VersionOf(m) = (IF row.at > Waves!Found.version + 1 THEN row.at
                                      ELSE Waves!Found.version + 1)
           /\ lane.admit \notin {"newest", "hash"} => Waves!VersionOf(m) = row.at
<1>1. row.at \in Nat /\ Waves!Found.version \in Nat
  BY FoundVersion DEF RowInv, WaveTypes
<1>2. \A m \in Waves!Joined : m.at \in Nat
  BY JoinedTimes DEF RowInv, WaveTypes
<1>3. lane.admit \in {"absent", "version", "newest", "hash", "all"}
  BY LaneShape DEF RowInv, Shape
<1> QED BY <1>1, <1>2, <1>3 DEF Waves!VersionOf, Waves!Newest

\* Of the selected rows one has the highest version.
LEMMA HighestSelected ==
  ASSUME RowInv, Waves!Selected # {}
  PROVE  \E m \in Waves!Selected : \A n \in Waves!Selected : Waves!VersionOf(n) <= Waves!VersionOf(m)
<1>1. Waves!Selected \subseteq Waves!Joined
  BY DEF Waves!Selected
<1>2. CASE lane.admit # "newest"
  <2>1. \A m, n \in Waves!Selected : Waves!VersionOf(n) = Waves!VersionOf(m)
    BY <1>1, <1>2, VersionAs
  <2>2. \A m \in Waves!Selected : Waves!VersionOf(m) \in Nat
    BY <1>1, VersionAs
  <2> QED BY <2>1, <2>2
<1>3. CASE lane.admit = "newest"
  <2> DEFINE back == {now - Waves!VersionOf(m) : m \in Waves!Selected}
  <2>1. \A m \in Waves!Selected : Waves!VersionOf(m) \in 0 .. now
    BY <1>1, <1>3, VersionAs, JoinedTimes DEF RowInv, WaveTypes
  <2>2. now \in Nat
    BY DEF RowInv, WaveTypes
  <2>3. back \in SUBSET Nat /\ back # {}
    BY <2>1, <2>2
  <2>4. PICK y \in back : \A z \in back : y <= z
    BY <2>3, FirstNatural
  <2>5. PICK m \in Waves!Selected : y = now - Waves!VersionOf(m)
    OBVIOUS
  <2>6. \A n \in Waves!Selected : now - Waves!VersionOf(m) <= now - Waves!VersionOf(n)
    BY <2>4, <2>5
  <2>7. \A n \in Waves!Selected : Waves!VersionOf(n) <= Waves!VersionOf(m)
    BY <2>1, <2>2, <2>6
  <2> QED BY <2>7
<1> QED BY <1>2, <1>3

\* The row that a statement leaves behind.
Inserts(e) ==
  /\ Record(e) /\ e.in = lane.into /\ e.at = row.at
  /\ \E m \in Waves!Selected : /\ e.version = Waves!VersionOf(m)
                               /\ \A n \in Waves!Selected : Waves!VersionOf(n) <= e.version
  /\ IF lane.into = "raw.archive" THEN held = {} /\ Waves!Inserted = {e}
     ELSE /\ e.key = Here
          /\ Waves!Inserted = {g \in held : g.in # e.in \/ g.key # e.key} \cup {e}

\* A statement that selects something inserts one row; otherwise nothing changes.
LEMMA Insertion ==
  ASSUME RowInv, row.at > 0
  PROVE  IF Waves!Selected = {} THEN Waves!Inserted = held ELSE \E e : Inserts(e)
<1>1. CASE Waves!Selected = {}
  BY <1>1 DEF Waves!Inserted
<1>2. CASE Waves!Selected # {}
  <2> DEFINE m == CHOOSE m \in Waves!Selected :
                    \A n \in Waves!Selected : Waves!VersionOf(n) <= Waves!VersionOf(m)
             e == Waves!Entry(lane.into, row, Waves!VersionOf(m))
  <2>1. m \in Waves!Selected /\ \A n \in Waves!Selected : Waves!VersionOf(n) <= Waves!VersionOf(m)
    BY <1>2, HighestSelected
  <2>2. Waves!Inserted = Waves!Merged(e)
    BY <1>2 DEF Waves!Inserted
  <2>3. m \in Waves!Joined /\ Waves!Admitted(m)
    BY <2>1, <1>2 DEF Waves!Selected
  <2> HIDE DEF m
  <2>4. e = [in |-> lane.into, key |-> Here, version |-> Waves!VersionOf(m), at |-> row.at]
    BY DEF Waves!Entry, Here
  <2>5. CASE lane.into = "raw.archive"
    <3> DEFINE f == [e EXCEPT !.key = <<"copy", Waves!Cardinality(Waves!Final(e.in))>>]
    <3>1. lane.admit = "absent"
      BY <2>5, LaneShape DEF RowInv, Shape
    <3>2. held = {}
      BY <2>3, <2>5, <3>1, FoundInArchive DEF Waves!Admitted
    <3>3. Waves!Merged(e) = held \cup {f}
      <4>1. e.in = "raw.archive" /\ ~Waves!Named("raw.archive").latest
        BY <2>4, <2>5, LaneShape DEF RowInv
      <4> HIDE DEF e
      <4> QED BY <4>1 DEF Waves!Merged
    <3>4. f = [in |-> lane.into, key |-> <<"copy", Waves!Cardinality(Waves!Final(e.in))>>,
               version |-> Waves!VersionOf(m), at |-> row.at]
      BY <2>4
    <3> HIDE DEF f, e
    <3>5. Record(f) /\ f.in = lane.into /\ f.at = row.at /\ f.version = Waves!VersionOf(m)
      BY <3>4 DEF Record
    <3>6. Inserts(f)
      BY <2>1, <2>2, <2>5, <3>2, <3>3, <3>5 DEF Inserts
    <3> QED BY <1>2, <3>6
  <2>6. CASE lane.into # "raw.archive"
    <3>1. \A g \in Waves!Final(lane.into) : g.key = Here => ~(g.version > Waves!VersionOf(m))
      <4>1. SUFFICES ASSUME NEW g \in Waves!Final(lane.into), g.key = Here
                     PROVE  ~(g.version > Waves!VersionOf(m))
        OBVIOUS
      <4>2. Waves!Found.version = g.version /\ Waves!Found.at = g.at
        BY <2>6, <4>1, FoundHere
      <4>3. g \in held /\ g.at # 0 /\ g.version \in Nat
        BY DEF RowInv, RowsHeld, Waves!Final
      <4>4. Waves!VersionOf(m) \in Nat /\ row.at \in Nat
        BY <2>3, VersionAs DEF RowInv, WaveTypes
      <4>5. CASE lane.admit \in {"version", "newest"}
        BY <2>3, <4>2, <4>3, <4>4, <4>5 DEF Waves!Admitted
      <4>6. CASE lane.admit = "hash"
        BY <2>3, <4>2, <4>3, <4>4, <4>6, VersionAs
      <4>7. CASE lane.admit = "all"
        <5>1. g.version = g.at /\ g.at \in 1 .. row.at
          BY <4>3, <4>7 DEF RowInv, VersionsHeld, RowsHeld
        <5>2. Waves!VersionOf(m) = row.at
          BY <2>3, <4>7, VersionAs
        <5> QED BY <5>1, <5>2, <4>4
      <4>8. CASE lane.admit = "absent"
        BY <2>3, <4>2, <4>3, <4>8 DEF Waves!Admitted
      <4>9. lane.admit \in {"absent", "version", "newest", "hash", "all"}
        BY LaneShape DEF RowInv, Shape
      <4> QED BY <4>5, <4>6, <4>7, <4>8, <4>9
    <3>2. Record(e) /\ e.in = lane.into /\ e.at = row.at /\ e.version = Waves!VersionOf(m) /\ e.key = Here
      BY <2>4 DEF Record
    <3> HIDE DEF e
    <3>3. Waves!Merged(e) = {g \in held : g.in # e.in \/ g.key # e.key} \cup {e}
      BY <2>6, <3>1, <3>2, LaneShape DEF Waves!Merged, RowInv
    <3>4. Inserts(e)
      BY <2>1, <2>2, <2>6, <3>2, <3>3 DEF Inserts
    <3> QED BY <1>2, <3>4
  <2> QED BY <2>5, <2>6
<1> QED BY <1>1, <1>2

\* The cardinality that the waves use is the usual one.
LEMMA SameCard == \A S : Waves!Cardinality(S) = Cardinality(S)
BY DEF Waves!Cardinality, Cardinality

\* Rows of the table that is filled, and copies.
LEMMA HeldApart ==
  ASSUME RowInv
  PROVE  /\ lane.into = "raw.archive" => Waves!Final(lane.into) = held
         /\ \A c \in Waves!Copies : c[1] # lane.into => Waves!Final(c[2]) = {}
         /\ \A c \in Waves!Copies : lane.into # c[2]
<1>1. lane.into \notin CopiedTo
  BY LaneShape DEF RowInv, Shape
<1>2. \A c \in Waves!Copies : c[2] \in CopiedTo
  BY DEF CopiedTo
<1>3. \A h \in held : h.in \in Places
  BY DEF RowInv, RowsHeld
<1>4. ASSUME NEW c \in Waves!Copies, c[1] # lane.into PROVE Waves!Final(c[2]) = {}
  <2>1. c[2] \notin Places
    BY <1>1, <1>2, <1>4, CopiesApart DEF Places
  <2> QED BY <1>3, <2>1 DEF Waves!Final
<1>5. lane.into = "raw.archive" => Waves!Final(lane.into) = held
  <2>1. lane.into = "raw.archive" => Places = {lane.into}
    BY DEF Places, Waves!Copies
  <2> QED BY <1>3, <2>1 DEF Waves!Final
<1> QED BY <1>1, <1>2, <1>4, <1>5

\* A row that is inserted is newer than the one it replaces, but for the layouts.
LEMMA InsertedNewer ==
  ASSUME RowInv, row.at > 0, NEW e, Inserts(e), lane.into # "raw.archive"
  PROVE  \A g \in Waves!Final(lane.into) : g.key = Here =>
           e.version > g.version \/ lane.admit = "all"
<1>1. SUFFICES ASSUME NEW g \in Waves!Final(lane.into), g.key = Here, lane.admit # "all"
               PROVE  e.version > g.version
  OBVIOUS
<1>2. PICK m \in Waves!Selected : e.version = Waves!VersionOf(m)
  BY DEF Inserts
<1>3. m \in Waves!Joined /\ Waves!Admitted(m)
  BY <1>2 DEF Waves!Selected
<1>4. Waves!Found.version = g.version /\ Waves!Found.at = g.at
  BY <1>1, FoundHere
<1>5. g \in held /\ g.at # 0 /\ g.version \in Nat /\ row.at \in Nat
  BY DEF RowInv, RowsHeld, WaveTypes, Waves!Final
<1>6. lane.admit \in {"absent", "version", "newest", "hash", "all"}
  BY LaneShape DEF RowInv, Shape
<1>7. CASE lane.admit \in {"version", "newest", "absent"}
  BY <1>2, <1>3, <1>4, <1>5, <1>7 DEF Waves!Admitted
<1>8. CASE lane.admit = "hash"
  BY <1>2, <1>3, <1>4, <1>5, <1>8, VersionAs
<1> QED BY <1>1, <1>6, <1>7, <1>8

\* The version of an inserted row is a time from the row's own on, but for those by hash.
LEMMA InsertedVersion ==
  ASSUME RowInv, row.at > 0, NEW e, Inserts(e)
  PROVE  /\ e.version \in Nat
         /\ lane.admit # "hash" => e.version \in row.at .. now
         /\ lane.admit = "all" => e.version = row.at
<1>1. PICK m \in Waves!Selected : e.version = Waves!VersionOf(m)
  BY DEF Inserts
<1>2. m \in Waves!Joined
  BY <1>1 DEF Waves!Selected
<1>3. row.at \in Nat /\ now \in Nat /\ row.at <= now /\ m.at \in 0 .. now
  BY <1>2, JoinedTimes DEF RowInv, WaveTypes
<1>4. lane.admit \in {"absent", "version", "newest", "hash", "all"}
  BY LaneShape DEF RowInv, Shape
<1> QED BY <1>1, <1>2, <1>3, <1>4, VersionAs

\* The statement of a backfill keeps what holds of the rows.
LEMMA InsertKeeps ==
  ASSUME RowInv, held' = Waves!Inserted, UNCHANGED <<lane, row, ref, maps, now>>
  PROVE  RowsHeld' /\ KeysHeld' /\ VersionsHeld' /\ CopiesBehind'
<1>1. CASE row.at = 0 \/ Waves!Selected = {}
  <2>1. held' = held
    <3>1. CASE row.at = 0
      BY <3>1 DEF Waves!Inserted, Waves!Selected
    <3>2. CASE row.at # 0 /\ Waves!Selected = {}
      BY <3>2 DEF Waves!Inserted
    <3> QED BY <1>1, <3>1, <3>2
  <2>2. RowsHeld'
    BY <2>1 DEF RowInv, RowsHeld, Places
  <2>3. KeysHeld'
    BY <2>1 DEF RowInv, KeysHeld, Here, Waves!KeyIn
  <2>4. VersionsHeld'
    BY <2>1 DEF RowInv, VersionsHeld
  <2>5. CopiesBehind'
    BY <2>1 DEF RowInv, CopiesBehind, Waves!Final
  <2> QED BY <2>2, <2>3, <2>4, <2>5
<1>2. CASE row.at # 0 /\ Waves!Selected # {}
  <2>1. row.at \in Nat /\ row.at > 0
    BY <1>2 DEF RowInv, WaveTypes
  <2>2. PICK e : Inserts(e)
    BY <1>2, <2>1, Insertion
  <2>3. Record(e) /\ e.in = lane.into /\ e.at = row.at /\ e.version \in Nat
    BY <2>1, <2>2, InsertedVersion DEF Inserts
  <2>4. held' \subseteq held \cup {e}
    BY <2>2 DEF Inserts
  <2>5. RowsHeld'
    <3>1. e.in \in Places /\ e.at \in 1 .. row.at
      BY <2>1, <2>3 DEF Places
    <3> QED BY <2>1, <2>3, <2>4, <3>1 DEF RowInv, RowsHeld, Places, Record
  <2>6. VersionsHeld'
    BY <2>1, <2>2, <2>3, <2>4, InsertedVersion DEF RowInv, VersionsHeld, WaveTypes
  <2>7. CASE lane.into = "raw.archive"
    <3>1. held' = {e}
      BY <2>2, <2>7 DEF Inserts
    <3>2. KeysHeld'
      BY <2>7, <3>1 DEF KeysHeld
    <3>3. CopiesBehind'
      BY <2>7 DEF CopiesBehind, Waves!Copies
    <3> QED BY <2>5, <2>6, <3>2, <3>3
  <2>8. CASE lane.into # "raw.archive"
    <3>1. held' = {g \in held : g.in # e.in \/ g.key # e.key} \cup {e} /\ e.key = Here
      BY <2>2, <2>8 DEF Inserts
    <3>2. Here' = Here
      BY DEF Here, Waves!KeyIn
    <3>3. KeysHeld'
      <4>1. lane.free \cap Waves!Named(lane.into).key = {} => e.key = <<0, 0>>
        BY <2>8, <3>1, HereKey DEF RowInv
      <4>2. \A g, h \in held' : g.in = h.in /\ g.key = h.key => g = h
        BY <2>8, <3>1 DEF RowInv, KeysHeld
      <4>3. \A h \in held' : h.at = row.at => h.key = Here
        BY <2>4, <2>8, <3>1 DEF RowInv, KeysHeld
      <4> QED BY <2>4, <2>8, <3>2, <4>1, <4>2, <4>3 DEF RowInv, KeysHeld
    <3>4. CopiesBehind'
      <4>1. SUFFICES ASSUME NEW c \in Waves!Copies, c[1] = lane.into, NEW g \in Waves!Final(c[2])'
                     PROVE  \E h \in Waves!Final(c[1])' :
                              h.key = g.key
                              /\ (h.version > g.version \/ (h.version = g.version /\ h.at = g.at))
        BY DEF CopiesBehind
      <4>2. g \in held /\ g.in = c[2]
        BY <2>3, <2>4, <4>1, HeldApart DEF Waves!Final
      <4>3. PICK h \in held :
              /\ h.in = c[1] /\ h.key = g.key
              /\ h.version > g.version \/ (h.version = g.version /\ h.at = g.at)
        BY <4>1, <4>2 DEF RowInv, CopiesBehind, Waves!Final
      <4>4. CASE h.key # Here
        BY <3>1, <4>3, <4>4 DEF Waves!Final
      <4>5. CASE h.key = Here
        <5>1. lane.admit = "hash"
          BY <4>1, LaneShape DEF RowInv, Shape, CopiedFrom
        <5>2. h \in Waves!Final(lane.into)
          BY <4>1, <4>3 DEF Waves!Final
        <5>5. e.version > h.version
          BY <2>1, <2>2, <2>8, <4>5, <5>1, <5>2, InsertedNewer
        <5>3. h.version \in Nat /\ g.version \in Nat
          BY <4>2 DEF RowInv, RowsHeld
        <5>4. e.version > g.version
          BY <2>3, <4>3, <5>5, <5>3
        <5> QED BY <2>3, <3>1, <4>1, <4>3, <4>5, <5>4 DEF Waves!Final
      <4> QED BY <4>4, <4>5
    <3> QED BY <2>5, <2>6, <3>3, <3>4
  <2> QED BY <2>7, <2>8
<1> QED BY <1>1, <1>2

\* Validations that passed leave no row without an approved mapping.
LEMMA ValidJoins ==
  ASSUME RowInv, NEW w \in Nat, Waves!Valid(w), Waves!Wave(lane) <= w, row.at > 0
  PROVE  Waves!Joined # {}
<1>1. Shape(lane) /\ Waves!Wave(lane) = WaveInto(lane.into) /\ WaveInto(lane.into) \in 1 .. 9
  BY LaneShape DEF RowInv, WaveInto
<1>2. CASE lane.refs = {}
  <2>1. lane.match = "none"
    BY <1>1, <1>2 DEF Shape
  <2> QED BY <2>1 DEF Waves!Joined
<1>3. CASE lane.refs # {}
  <2>1. ref # 0
    BY <1>3 DEF RowInv, RowsHeld, WaveTypes
  <2>2. \E m \in Waves!Approved : m.of = ref
    <3>1. Covered(lane)
      BY <1>1, <1>3 DEF Shape
    <3>2. Waves!Wave01Current /\ (w >= 4 => Waves!Wave04Current)
      BY <1>1 DEF Waves!Valid
    <3> QED BY <1>1, <2>1, <3>1, <3>2 DEF Covered, Waves!Wave01Current, Waves!Wave04Current
  <2>3. lane.match \in {"key", "hash"}
    BY <1>1, <1>3 DEF Shape
  <2>4. CASE lane.match = "key"
    BY <2>2, <2>4 DEF Waves!Joined
  <2>5. CASE lane.match = "hash"
    BY <2>2, <2>5 DEF Waves!Joined
  <2> QED BY <2>3, <2>4, <2>5
<1> QED BY <1>2, <1>3

\* A statement that selects nothing of what it joins has nothing to do.
LEMMA NothingSelected ==
  ASSUME RowInv, row.at > 0, Waves!Joined # {}, Waves!Selected = {}
  PROVE  Reached
<1>1. row.at \in Nat /\ row.at # 0 /\ now \in Nat
  BY DEF RowInv, WaveTypes
<1>2. \A m \in Waves!Joined : ~Waves!Admitted(m)
  BY <1>1 DEF Waves!Selected
<1>3. Waves!Found.at # 0
  BY <1>2 DEF Waves!Admitted
<1>4. lane.admit \in {"absent", "version", "newest", "hash", "all"}
  BY LaneShape DEF RowInv, Shape
<1>5. CASE lane.into = "raw.archive"
  <2>1. lane.admit = "absent"
    BY <1>5, LaneShape DEF RowInv, Shape
  <2>2. held # {}
    <3>1. Waves!Final(lane.into) = held
      BY <1>5, HeldApart
    <3>2. held = {} => Waves!Found = [version |-> 0, at |-> 0]
      BY <3>1 DEF Waves!Found
    <3> QED BY <1>3, <3>2
  <2> QED BY <1>5, <2>1, <2>2, HeldApart DEF Reached
<1>6. CASE lane.into # "raw.archive"
  <2>1. PICK h \in Waves!Final(lane.into) : h.key = Here
    BY <1>3, <1>6, FoundHere
  <2>2. Waves!Found.version = h.version /\ Waves!Found.at = h.at
    BY <1>6, <2>1, FoundHere
  <2>3. h \in held /\ h.at \in 1 .. row.at /\ h.version \in Nat
    BY DEF RowInv, RowsHeld, Waves!Final
  <2>4. CASE lane.admit = "absent"
    BY <2>4 DEF Reached
  <2>5. CASE lane.admit = "version"
    <3>1. row.at <= h.version
      BY <1>1, <1>2, <2>2, <2>3, <2>5, VersionAs DEF Waves!Admitted
    <3>2. h.at = row.at
      BY <1>1, <2>3, <2>5, <3>1 DEF RowInv, VersionsHeld
    <3> QED BY <2>5, <3>2 DEF Reached
  <2>6. CASE lane.admit = "newest"
    <3>1. \A m \in Waves!Joined : m.at \in Nat
      BY <1>1, JoinedTimes
    <3>2. \A m \in Waves!Joined : Waves!VersionOf(m) <= h.version
      BY <1>2, <2>2, <2>3, <2>6, VersionAs DEF Waves!Admitted
    <3>3. \A m \in Waves!Joined : row.at <= h.version /\ m.at <= h.version
      BY <1>1, <2>3, <2>6, <3>1, <3>2, VersionAs
    <3>4. h.at = row.at
      BY <1>1, <2>3, <2>6, <3>3 DEF RowInv, VersionsHeld
    <3> QED BY <3>3, <3>4 DEF Reached
  <2>7. CASE lane.admit = "hash"
    BY <1>2, <2>2, <2>7 DEF Reached, Waves!Admitted
  <2>8. CASE lane.admit = "all"
    BY <1>2, <2>8 DEF Waves!Admitted
  <2> QED BY <1>4, <2>4, <2>5, <2>6, <2>7, <2>8
<1> QED BY <1>5, <1>6

\* A statement with something to join leaves nothing to do.
LEMMA InsertReaches ==
  ASSUME RowInv, row.at > 0, Waves!Joined # {},
         held' = Waves!Inserted, UNCHANGED <<lane, row, ref, maps, now>>
  PROVE  Reached'
<1>1. Waves!Joined' = Waves!Joined
  BY DEF Waves!Joined, Waves!Approved
<1>2. CASE Waves!Selected = {}
  <2>1. held' = held
    BY <1>2, Insertion
  <2>2. Reached
    BY <1>2, NothingSelected
  <2>3. Waves!Final(lane.into)' = Waves!Final(lane.into)
    BY <2>1 DEF Waves!Final
  <2> QED BY <1>1, <2>2, <2>3 DEF Reached
<1>3. CASE Waves!Selected # {}
  <2>1. PICK e : Inserts(e)
    BY <1>3, Insertion
  <2>2. e \in Waves!Final(lane.into)'
    BY <2>1 DEF Inserts, Waves!Final
  <2>3. e.at = row.at
    BY <2>1 DEF Inserts
  <2>4. ASSUME lane.admit = "newest", NEW m \in Waves!Joined PROVE m.at <= e.version
    <3>1. Waves!VersionOf(m) \in Nat /\ m.at \in Nat /\ row.at \in Nat
      BY VersionAs, JoinedTimes DEF RowInv, WaveTypes
    <3>2. m.at <= Waves!VersionOf(m)
      BY <2>4, <3>1, VersionAs
    <3>3. e.version \in Nat
      BY <2>1, InsertedVersion
    <3>4. CASE m \in Waves!Selected
      <4>1. Waves!VersionOf(m) <= e.version
        BY <2>1, <3>4 DEF Inserts
      <4> QED BY <3>1, <3>2, <3>3, <4>1
    <3>5. CASE m \notin Waves!Selected
      <4>1. ~Waves!Admitted(m)
        BY <3>1, <3>5 DEF Waves!Selected
      <4>2. Waves!VersionOf(m) <= Waves!Found.version
        BY <2>4, <3>1, <4>1, FoundVersion DEF Waves!Admitted
      <4>3. PICK n \in Waves!Selected : e.version = Waves!VersionOf(n)
        BY <2>1 DEF Inserts
      <4>4. n \in Waves!Joined /\ Waves!Admitted(n) /\ Waves!Found.at # 0
        BY <4>1, <4>3 DEF Waves!Selected, Waves!Admitted
      <4>5. e.version > Waves!Found.version
        BY <2>4, <4>3, <4>4 DEF Waves!Admitted
      <4> QED BY <3>1, <3>2, <3>3, <4>2, <4>5, FoundVersion
    <3> QED BY <3>4, <3>5
  <2> QED BY <1>1, <2>2, <2>3, <2>4 DEF Reached
<1> QED BY <1>2, <1>3

\* With nothing to do the statement changes nothing.
LEMMA ReachedKept ==
  ASSUME RowInv, row.at > 0, Reached
  PROVE  Waves!Inserted = held
<1>1. PICK h \in Waves!Final(lane.into) :
        lane.admit # "absent" =>
          /\ h.at = row.at
          /\ lane.admit = "newest" => \A m \in Waves!Joined : m.at <= h.version
  BY DEF Reached
<1>2. h \in held /\ h.at \in 1 .. row.at /\ h.version \in Nat /\ row.at \in Nat
  BY DEF RowInv, RowsHeld, WaveTypes, Waves!Final
<1>3. lane.admit \in {"absent", "version", "newest", "hash", "all"}
  BY LaneShape DEF RowInv, Shape
<1>4. CASE lane.into = "raw.archive"
  <2>1. lane.admit = "absent" /\ Waves!Found.at # 0
    BY <1>2, <1>4, LaneShape, FoundInArchive DEF RowInv, Shape
  <2>2. Waves!Selected = {}
    BY <2>1 DEF Waves!Selected, Waves!Admitted
  <2> QED BY <2>2 DEF Waves!Inserted
<1>5. CASE lane.into # "raw.archive"
  <2>1. h.key = Here
    <3>1. CASE lane.admit = "absent"
      <4>1. lane.free = {}
        BY <3>1, LaneShape DEF RowInv, Shape
      <4>2. h.key = <<0, 0>> /\ Here = <<0, 0>>
        BY <1>2, <1>5, <4>1, HereKey DEF RowInv, KeysHeld
      <4> QED BY <4>2
    <3>2. CASE lane.admit # "absent"
      BY <1>1, <1>2, <1>5, <3>2 DEF RowInv, KeysHeld
    <3> QED BY <3>1, <3>2
  <2>2. Waves!Found.version = h.version /\ Waves!Found.at = h.at /\ h.at # 0
    BY <1>2, <1>5, <2>1, FoundHere
  <2>3. CASE lane.admit = "all"
    <3>1. h.version = row.at
      BY <1>1, <1>2, <2>3 DEF RowInv, VersionsHeld
    <3>2. h = [in |-> lane.into, key |-> Here, version |-> row.at, at |-> row.at]
      BY <1>1, <2>1, <2>3, <3>1 DEF RowInv, RowsHeld, Record, Waves!Final
    <3>3. CASE Waves!Selected # {}
      <4>1. PICK e : Inserts(e)
        BY <3>3, Insertion
      <4>2. e.version = row.at
        BY <2>3, <4>1, InsertedVersion
      <4>3. e = h
        BY <1>5, <3>2, <4>1, <4>2 DEF Inserts, Record
      <4>4. Waves!Inserted = {g \in held : g.in # h.in \/ g.key # h.key} \cup {h}
        BY <1>5, <4>1, <4>3 DEF Inserts
      <4>5. \A g \in held : g.in = h.in /\ g.key = h.key => g = h
        BY <1>2, <1>5 DEF RowInv, KeysHeld
      <4> QED BY <1>2, <4>4, <4>5
    <3> QED BY <3>3 DEF Waves!Inserted
  <2>4. CASE lane.admit # "all"
    <3>1. \A m \in Waves!Joined : ~Waves!Admitted(m)
      <4>1. SUFFICES ASSUME NEW m \in Waves!Joined PROVE ~Waves!Admitted(m)
        OBVIOUS
      <4>2. CASE lane.admit = "absent"
        BY <2>2, <4>2 DEF Waves!Admitted
      <4>3. CASE lane.admit = "hash"
        BY <1>1, <2>2, <4>3 DEF Waves!Admitted
      <4>4. CASE lane.admit = "version"
        <5>1. h.version >= row.at
          BY <1>1, <1>2, <4>4 DEF RowInv, VersionsHeld
        <5>2. Waves!VersionOf(m) = row.at
          BY <4>4, VersionAs
        <5> QED BY <1>2, <2>2, <4>4, <5>1, <5>2 DEF Waves!Admitted
      <4>5. CASE lane.admit = "newest"
        <5>1. h.version >= row.at /\ m.at <= h.version /\ m.at \in Nat
          BY <1>1, <1>2, <4>5, JoinedTimes DEF RowInv, VersionsHeld
        <5>2. Waves!VersionOf(m) <= h.version
          BY <1>2, <4>5, <5>1, VersionAs
        <5>3. ~(Waves!VersionOf(m) > Waves!Found.version)
          BY <1>2, <2>2, <4>5, <5>2, VersionAs
        <5> QED BY <2>2, <4>5, <5>3 DEF Waves!Admitted
      <4> QED BY <1>3, <2>4, <4>2, <4>3, <4>4, <4>5
    <3>2. Waves!Selected = {}
      BY <3>1 DEF Waves!Selected
    <3> QED BY <3>2 DEF Waves!Inserted
  <2> QED BY <2>3, <2>4
<1> QED BY <1>4, <1>5

\* Wave 9 replaces what was copied before.
LEMMA CopiedIs ==
  ASSUME RowInv, NEW c \in Waves!Copies, c[1] = lane.into
  PROVE  Waves!Copied = {g \in held : g.in # c[2]}
                          \cup {[h EXCEPT !.in = c[2]] : h \in Waves!Final(c[1])}
<1> DEFINE fresh == {[h EXCEPT !.in = c[2]] : h \in Waves!Final(c[1])}
<1>1. {d \in Waves!Copies : d[1] = lane.into} = {c}
  BY CopiesApart
<1>2. (CHOOSE d \in {c} : TRUE) = c
  OBVIOUS
<1>3. CASE Waves!Final(c[1]) = {}
  <2>1. Waves!Copied = held
    BY <1>1, <1>3 DEF Waves!Copied
  <2>2. Waves!Final(c[2]) = {}
    BY <1>3 DEF RowInv, CopiesBehind
  <2>3. {g \in held : g.in # c[2]} = held
    BY <2>2 DEF Waves!Final
  <2> QED BY <1>3, <2>1, <2>3
<1>4. CASE Waves!Final(c[1]) # {}
  <2>1. \A h \in Waves!Final(c[1]) : /\ h \in held /\ h.in = c[1] /\ h.version \in Nat
                                     /\ h = [in |-> h.in, key |-> h.key, version |-> h.version, at |-> h.at]
    BY DEF Waves!Final, RowInv, RowsHeld, Record
  <2>2. \A h \in Waves!Final(c[1]) :
          [h EXCEPT !.in = c[2]] = [in |-> c[2], key |-> h.key, version |-> h.version, at |-> h.at]
    BY <2>1
  <2>3. Waves!Copied =
          {g \in held : g.in # c[2] \/ \A h \in fresh : g.key # h.key \/ g.version > h.version}
          \cup {h \in fresh : \A g \in Waves!Final(c[2]) : g.key # h.key \/ g.version <= h.version}
    BY <1>1, <1>2, <1>4 DEF Waves!Copied
  <2>4. ASSUME NEW g \in held, g.in = c[2]
        PROVE  ~\A h \in fresh : g.key # h.key \/ g.version > h.version
    <3>1. PICK h \in Waves!Final(c[1]) :
            h.key = g.key /\ (h.version > g.version \/ (h.version = g.version /\ h.at = g.at))
      BY <2>4 DEF RowInv, CopiesBehind, Waves!Final
    <3>2. h.version \in Nat /\ g.version \in Nat
      BY <2>1 DEF RowInv, RowsHeld
    <3>3. [h EXCEPT !.in = c[2]] \in fresh
      OBVIOUS
    <3> DEFINE f == [h EXCEPT !.in = c[2]]
    <3>4. f.key = g.key /\ f.version = h.version
      BY <2>2, <3>1
    <3>5. f \in fresh
      BY <3>3
    <3> HIDE DEF f, fresh
    <3> QED BY <3>1, <3>2, <3>4, <3>5
  <2>5. ASSUME NEW f \in fresh
        PROVE  \A g \in Waves!Final(c[2]) : g.key # f.key \/ g.version <= f.version
    <3>1. PICK h \in Waves!Final(c[1]) : f = [h EXCEPT !.in = c[2]]
      OBVIOUS
    <3>2. f.key = h.key /\ f.version = h.version
      BY <2>2, <3>1
    <3>3. SUFFICES ASSUME NEW g \in Waves!Final(c[2]), g.key = h.key
                   PROVE  g.version <= h.version
      BY <3>2
    <3>4. PICK k \in Waves!Final(c[1]) :
            k.key = g.key /\ (k.version > g.version \/ (k.version = g.version /\ k.at = g.at))
      BY DEF RowInv, CopiesBehind
    <3>5. lane.into # "raw.archive"
      BY DEF Waves!Copies
    <3>6. k = h
      BY <2>1, <3>3, <3>4, <3>5 DEF RowInv, KeysHeld
    <3>7. h.version \in Nat /\ g.version \in Nat
      BY <2>1 DEF RowInv, RowsHeld, Waves!Final
    <3> QED BY <3>4, <3>6, <3>7
  <2> HIDE DEF fresh
  <2>6. Waves!Copied = {g \in held : g.in # c[2]} \cup fresh
    BY <2>3, <2>4, <2>5
  <2> QED BY <2>6 DEF fresh
<1> QED BY <1>3, <1>4

\* A table that is not copied is none of wave 9's.
LEMMA NotCopied ==
  ASSUME lane.into \notin CopiedFrom
  PROVE  Waves!Copied = held /\ AllCopied /\ CopiesBehind
<1>1. \A c \in Waves!Copies : c[1] # lane.into
  BY DEF CopiedFrom
<1>2. {c \in Waves!Copies : c[1] = lane.into} = {}
  BY <1>1
<1>3. Waves!Copied = held
  BY <1>2 DEF Waves!Copied
<1> QED BY <1>1, <1>3 DEF AllCopied, CopiesBehind

\* The copies of wave 9 keep what holds of the rows, and leave nothing to copy.
LEMMA CopyKeeps ==
  ASSUME RowInv, held' = Waves!Copied, UNCHANGED <<lane, row, ref, maps, now>>
  PROVE  /\ RowsHeld' /\ KeysHeld' /\ VersionsHeld' /\ CopiesBehind'
         /\ AllCopied' /\ Waves!Final(lane.into)' = Waves!Final(lane.into)
<1>1. CASE lane.into \notin CopiedFrom
  <2>1. held' = held /\ AllCopied
    BY <1>1, NotCopied
  <2>2. RowsHeld'
    BY <2>1 DEF RowInv, RowsHeld, Places
  <2>3. KeysHeld'
    BY <2>1 DEF RowInv, KeysHeld, Here, Waves!KeyIn
  <2>4. VersionsHeld'
    BY <2>1 DEF RowInv, VersionsHeld
  <2>5. CopiesBehind' /\ AllCopied' /\ Waves!Final(lane.into)' = Waves!Final(lane.into)
    BY <2>1 DEF RowInv, CopiesBehind, AllCopied, Waves!Final
  <2> QED BY <2>2, <2>3, <2>4, <2>5
<1>2. CASE lane.into \in CopiedFrom
  <2>1. PICK c \in Waves!Copies : c[1] = lane.into
    BY <1>2 DEF CopiedFrom
  <2>2. lane.into # "raw.archive" /\ lane.admit = "hash" /\ c[1] # c[2]
    BY <1>2, <2>1, LaneShape, CopiesApart DEF RowInv, Shape, Waves!Copies
  <2> DEFINE fresh == {[h EXCEPT !.in = c[2]] : h \in Waves!Final(c[1])}
  <2>3. held' = {g \in held : g.in # c[2]} \cup fresh
    BY <2>1, CopiedIs
  <2>4. \A h \in Waves!Final(c[1]) :
          /\ h \in held /\ h.in = lane.into /\ Record(h)
          /\ [h EXCEPT !.in = c[2]] = [in |-> c[2], key |-> h.key, version |-> h.version, at |-> h.at]
    BY <2>1 DEF Waves!Final, RowInv, RowsHeld, Record
  <2>5. \A f \in fresh : \E h \in held :
          /\ h.in = lane.into /\ h \in Waves!Final(c[1])
          /\ f = [in |-> c[2], key |-> h.key, version |-> h.version, at |-> h.at]
    BY <2>4
  <2>6. \A f \in fresh : f.in = c[2]
    BY <2>5
  <2>7. Waves!Final(c[2])' = fresh
    BY <2>3, <2>6 DEF Waves!Final
  <2>8. Waves!Final(c[1])' = Waves!Final(c[1])
    BY <2>2, <2>3, <2>6 DEF Waves!Final
  <2> HIDE DEF fresh
  <2>9. RowsHeld'
    <3>1. row.at = 0 => held' = {}
      BY <2>3, <2>5 DEF RowInv, RowsHeld
    <3>2. c[2] \in Places
      BY <2>1 DEF Places
    <3>3. \A f \in fresh : Record(f) /\ f.in \in Places /\ f.at \in 1 .. row.at /\ f.version \in Nat
      BY <2>5, <3>2 DEF RowInv, RowsHeld, Record
    <3> QED BY <2>3, <3>1, <3>3 DEF RowInv, RowsHeld, Places
  <2>10. KeysHeld'
    <3>1. Here' = Here
      BY DEF Here, Waves!KeyIn
    <3>2. \A g, h \in held : g.in = h.in /\ g.key = h.key => g = h
      BY <2>2 DEF RowInv, KeysHeld
    <3>3. \A g, h \in fresh : g.key = h.key => g = h
      BY <2>5, <3>2
    <3>4. \A g, h \in held' : g.in = h.in /\ g.key = h.key => g = h
      BY <2>3, <2>6, <3>2, <3>3
    <3>5. \A h \in held' : h.at = row.at => h.key = Here
      BY <2>2, <2>3, <2>5 DEF RowInv, KeysHeld
    <3>6. lane.free \cap Waves!Named(lane.into).key = {} => \A h \in held' : h.key = <<0, 0>>
      BY <2>2, <2>3, <2>5 DEF RowInv, KeysHeld
    <3> QED BY <2>2, <3>1, <3>4, <3>5, <3>6 DEF KeysHeld
  <2>11. VersionsHeld'
    BY <2>2 DEF VersionsHeld
  <2>12. CopiesBehind'
    <3>1. SUFFICES ASSUME NEW g \in fresh
                   PROVE  \E h \in Waves!Final(c[1]) :
                            h.key = g.key
                            /\ (h.version > g.version \/ (h.version = g.version /\ h.at = g.at))
      BY <2>1, <2>7, <2>8, CopiesApart DEF CopiesBehind
    <3> QED BY <2>5
  <2>13. AllCopied'
    BY <2>1, <2>7, <2>8, CopiesApart DEF AllCopied, fresh
  <2> QED BY <2>1, <2>8, <2>9, <2>10, <2>11, <2>12, <2>13
<1> QED BY <1>1, <1>2

\* With nothing to copy wave 9 changes nothing.
LEMMA CopySettled ==
  ASSUME RowInv, AllCopied
  PROVE  Waves!Copied = held
<1>1. CASE lane.into \notin CopiedFrom
  BY <1>1, NotCopied
<1>2. CASE lane.into \in CopiedFrom
  <2>1. PICK c \in Waves!Copies : c[1] = lane.into
    BY <1>2 DEF CopiedFrom
  <2>2. Waves!Copied = {g \in held : g.in # c[2]} \cup Waves!Final(c[2])
    BY <2>1, CopiedIs DEF AllCopied
  <2> QED BY <2>2 DEF Waves!Final
<1> QED BY <1>1, <1>2

-----------------------------------------------------------------------------
(* The steps of the waves keep the invariant.                               *)

\* At first there are no rows and no commands.
LEMMA WavesStart == Waves!Init => WavesInv
<1>1. SUFFICES ASSUME Waves!Init PROVE WavesInv
  OBVIOUS
<1>2. WaveTypes
  BY <1>1 DEF Waves!Init, Waves!Idle, WaveTypes, Commands
<1>3. RowInv
  BY <1>1, <1>2 DEF RowInv, RowsHeld, KeysHeld, VersionsHeld, CopiesBehind, Waves!Init, Waves!Final
<1>4. Waves!Wave(lane) \in 1 .. 9
  BY <1>2, LaneShape DEF WaveInto
<1>5. Progress
  BY <1>1, <1>4 DEF Progress, Waves!Init, Waves!Idle
<1> QED BY <1>3, <1>5 DEF WavesInv

\* Where nothing is written, what holds of the rows and mappings stays.
LEMMA RowsRest ==
  ASSUME RowInv, job' \in Commands, settled' \in Nat, UNCHANGED <<lane, row, ref, maps, held, now>>
  PROVE  /\ RowInv' /\ (Reached' <=> Reached) /\ (AllCopied' <=> AllCopied)
         /\ \A w : Waves!Valid(w)' <=> Waves!Valid(w)
<1>1. WaveTypes'
  BY DEF RowInv, WaveTypes
<1>2. RowsHeld'
  BY DEF RowInv, RowsHeld, Places
<1>3. KeysHeld'
  BY DEF RowInv, KeysHeld, Here, Waves!KeyIn
<1>4. VersionsHeld'
  BY DEF RowInv, VersionsHeld
<1>5. CopiesBehind' /\ (AllCopied' <=> AllCopied)
  BY DEF RowInv, CopiesBehind, AllCopied, Waves!Final
<1>6. Waves!Joined' = Waves!Joined /\ Waves!Final(lane.into)' = Waves!Final(lane.into)
  BY DEF Waves!Joined, Waves!Approved, Waves!Final
<1>7. Reached' <=> Reached
  BY <1>6 DEF Reached
<1>8. \A w : Waves!Valid(w)' <=> Waves!Valid(w)
  BY DEF Waves!Valid, Waves!NoUnapproved, Waves!Wave01Current, Waves!Wave04Current, Waves!Approved
<1> QED BY <1>1, <1>2, <1>3, <1>4, <1>5, <1>7, <1>8 DEF RowInv

\* After a change no command knows anything.
LEMMA ChangedProgress ==
  ASSUME WavesInv, Waves!Changed, lane' = lane
  PROVE  Progress' /\ job' \in Commands /\ settled' \in Nat
<1>1. Waves!Wave(lane) \in 1 .. 9
  BY LaneShape DEF WavesInv, RowInv, WaveTypes, WaveInto
<1>2. Waves!Wave(lane)' = Waves!Wave(lane)
  BY DEF Waves!Wave
<1>3. job \in Commands /\ job' = [job EXCEPT !.quiet = FALSE] /\ settled' = 0
  BY DEF WavesInv, RowInv, WaveTypes, Waves!Changed
<1>4. job' \in Commands /\ job'.quiet = FALSE /\ job'.pc = job.pc /\ job'.phase = job.phase
  BY <1>3 DEF Commands
<1>5. job.pc = "run" => job.phase = "backfill"
  BY DEF Waves!Changed
<1> QED BY <1>1, <1>2, <1>3, <1>4, <1>5 DEF Progress

\* Time passes for what is known of the mappings.
LEMMA MapsLater ==
  ASSUME WaveTypes, now' = now + 1
  PROVE  maps \subseteq [of : Nat, at : 0 .. now', ok : BOOLEAN]
<1>1. now \in Nat
  BY DEF WaveTypes
<1>2. 0 .. now \subseteq 0 .. now'
  BY <1>1
<1> QED BY <1>2 DEF WaveTypes

\* A rewritten row is younger than all that is held, and no command knows it yet.
LEMMA WriteRowKeeps == WavesInv /\ Waves!WriteRow => WavesInv'
<1>1. SUFFICES ASSUME WavesInv, Waves!WriteRow PROVE WavesInv'
  OBVIOUS
<1>2. Progress' /\ job' \in Commands /\ settled' \in Nat
  BY <1>1, ChangedProgress DEF Waves!WriteRow
<1>3. /\ now' = now + 1 /\ row'.at = now + 1
      /\ ref' = IF Waves!Self THEN now + 1 ELSE ref
      /\ UNCHANGED <<lane, maps, held>>
      /\ Waves!Self \/ lane.refs = {} \/ ref > 0
  BY <1>1 DEF Waves!WriteRow, Waves!Tick
<1>4. now \in Nat /\ row.at \in 0 .. now /\ ref \in 0 .. now
  BY <1>1 DEF WavesInv, RowInv, WaveTypes
<1>5. WaveTypes'
  BY <1>1, <1>2, <1>3, <1>4, MapsLater DEF WavesInv, RowInv, WaveTypes
<1>6. \A h \in held : h.at \in 1 .. now /\ h.version \in Nat
  BY <1>1, <1>4 DEF WavesInv, RowInv, RowsHeld
<1>7. RowsHeld'
  BY <1>1, <1>3, <1>4, <1>6 DEF WavesInv, RowInv, RowsHeld, Places
<1>8. KeysHeld'
  BY <1>1, <1>3, <1>4, <1>6 DEF WavesInv, RowInv, KeysHeld
<1>9. VersionsHeld'
  BY <1>1, <1>3, <1>4, <1>6 DEF WavesInv, RowInv, VersionsHeld
<1>10. CopiesBehind'
  BY <1>1, <1>3 DEF WavesInv, RowInv, CopiesBehind, Waves!Final
<1> QED BY <1>2, <1>5, <1>7, <1>8, <1>9, <1>10 DEF WavesInv, RowInv

\* What a step does that leaves the rows alone, and moves time and the reference at most.
LEMMA SourcesKeep ==
  ASSUME WavesInv, Waves!Changed, now' \in {now, now + 1}, ref' \in {ref, now + 1},
         ref' \in 0 .. now', maps' \subseteq [of : Nat, at : 0 .. now', ok : BOOLEAN],
         UNCHANGED <<lane, row, held>>
  PROVE  WavesInv'
<1>1. Progress' /\ job' \in Commands /\ settled' \in Nat
  BY ChangedProgress
<1>2. now \in Nat /\ row.at \in 0 .. now /\ ref \in 0 .. now
  BY DEF WavesInv, RowInv, WaveTypes
<1>3. WaveTypes'
  BY <1>1, <1>2 DEF WavesInv, RowInv, WaveTypes
<1>4. RowsHeld'
  BY <1>2 DEF WavesInv, RowInv, RowsHeld, Places
<1>5. KeysHeld'
  BY DEF WavesInv, RowInv, KeysHeld, Here, Waves!KeyIn
<1>6. VersionsHeld'
  BY <1>2 DEF WavesInv, RowInv, VersionsHeld, RowsHeld
<1>7. CopiesBehind'
  BY DEF WavesInv, RowInv, CopiesBehind, Waves!Final
<1> QED BY <1>1, <1>3, <1>4, <1>5, <1>6, <1>7 DEF WavesInv, RowInv

\* A rewritten reference row touches no row of v2.
LEMMA WriteReferenceKeeps == WavesInv /\ Waves!WriteReference => WavesInv'
<1>1. SUFFICES ASSUME WavesInv, Waves!WriteReference PROVE WavesInv'
  OBVIOUS
<1>2. /\ Waves!Changed /\ now' = now + 1 /\ ref' = now + 1 /\ now \in Nat
      /\ UNCHANGED <<lane, row, maps, held>>
  BY <1>1 DEF Waves!WriteReference, Waves!Tick, WavesInv, RowInv, WaveTypes
<1>3. maps' \subseteq [of : Nat, at : 0 .. now', ok : BOOLEAN]
  BY <1>1, <1>2, MapsLater DEF WavesInv, RowInv
<1> QED BY <1>1, <1>2, <1>3, SourcesKeep

\* Nor does an approval.
LEMMA ApproveKeeps == WavesInv /\ Waves!Approve => WavesInv'
<1>1. SUFFICES ASSUME WavesInv, Waves!Approve PROVE WavesInv'
  OBVIOUS
<1>2. /\ Waves!Changed /\ now' = now + 1
      /\ maps' = {IF m.ok THEN m ELSE [m EXCEPT !.ok = TRUE, !.at = now + 1] : m \in maps}
      /\ UNCHANGED <<lane, row, ref, held>>
  BY <1>1 DEF Waves!Approve, Waves!Tick
<1>3. now \in Nat /\ ref \in 0 .. now
  BY <1>1 DEF WavesInv, RowInv, WaveTypes
<1>4. ref' \in 0 .. now' /\ now + 1 \in 0 .. now'
  <2>1. now' = now + 1 /\ ref' = ref
    BY <1>2
  <2> QED BY <1>3, <2>1
<1>5. maps \subseteq [of : Nat, at : 0 .. now', ok : BOOLEAN]
  BY <1>1, <1>2, MapsLater DEF WavesInv, RowInv
<1>6. ASSUME NEW m \in maps
      PROVE  [m EXCEPT !.ok = TRUE, !.at = now + 1] \in [of : Nat, at : 0 .. now', ok : BOOLEAN]
  BY <1>4, <1>5
<1>7. maps' \subseteq [of : Nat, at : 0 .. now', ok : BOOLEAN]
  BY <1>2, <1>5, <1>6
<1> QED BY <1>1, <1>2, <1>4, <1>7, SourcesKeep

\* Staging inserts codes and sources where there are none.
LEMMA StageKeeps == WavesInv /\ Waves!Stage => WavesInv'
<1>1. SUFFICES ASSUME WavesInv, Waves!Stage PROVE WavesInv'
  OBVIOUS
<1>2. /\ Waves!Changed /\ UNCHANGED <<lane, row, ref, now>>
      /\ maps' = maps \cup {[of |-> ref, at |-> now, ok |-> FALSE]}
  BY <1>1 DEF Waves!Stage
<1>3. now \in Nat /\ ref \in 0 .. now /\ ref \in Nat
  BY <1>1 DEF WavesInv, RowInv, WaveTypes
<1>4. maps' \subseteq [of : Nat, at : 0 .. now', ok : BOOLEAN]
  <2>1. maps \subseteq [of : Nat, at : 0 .. now, ok : BOOLEAN] /\ now' = now
    BY <1>1, <1>2 DEF WavesInv, RowInv, WaveTypes
  <2>2. [of |-> ref, at |-> now, ok |-> FALSE] \in [of : Nat, at : 0 .. now, ok : BOOLEAN]
    BY <1>3
  <2> QED BY <1>2, <2>1, <2>2
<1>5. CASE held' = held
  BY <1>1, <1>2, <1>3, <1>4, <1>5, SourcesKeep
<1>6. CASE held' # held
  <2>1. /\ lane.into \in Waves!StagedRows /\ Waves!Final(lane.into) = {} /\ row.at > 0
        /\ held' = Waves!Merged(Waves!Entry(lane.into, row, row.at))
    BY <1>1, <1>6 DEF Waves!Stage
  <2> DEFINE e == Waves!Entry(lane.into, row, row.at)
  <2>2. e = [in |-> lane.into, key |-> Here, version |-> row.at, at |-> row.at]
    BY DEF Waves!Entry, Here
  <2>3. lane.into # "raw.archive" /\ lane.into \notin CopiedFrom
    BY <2>1 DEF Waves!StagedRows, CopiedFrom, Waves!Copies
  <2>4. Places = {lane.into}
    BY <2>3 DEF Places, CopiedFrom
  <2>5. held = {}
    BY <1>1, <2>1, <2>4 DEF WavesInv, RowInv, RowsHeld, Waves!Final
  <2>6. e.in = lane.into
    BY <2>2
  <2>7. held' = {e}
    <3>1. held' = Waves!Merged(e)
      BY <2>1
    <3>2. Waves!Named(lane.into).latest
      BY <1>1, <2>3, LaneShape DEF WavesInv, RowInv
    <3> HIDE DEF e
    <3> QED BY <2>5, <2>6, <3>1, <3>2 DEF Waves!Merged, Waves!Final
  <2>8. Record(e) /\ e.in = lane.into /\ e.at = row.at /\ e.version = row.at /\ e.key = Here
    BY <2>2 DEF Record
  <2> HIDE DEF e
  <2>9. row.at \in 1 .. now /\ row.at \in Nat
    BY <1>1, <2>1 DEF WavesInv, RowInv, WaveTypes
  <2>10. Progress' /\ job' \in Commands /\ settled' \in Nat
    BY <1>1, <1>2, ChangedProgress
  <2>11. WaveTypes'
    BY <1>1, <1>2, <1>4, <2>10 DEF WavesInv, RowInv, WaveTypes
  <2>12. RowsHeld'
    BY <1>1, <1>2, <2>4, <2>7, <2>8, <2>9 DEF WavesInv, RowInv, RowsHeld, Places, Record
  <2>13. KeysHeld'
    <3>1. Here' = Here
      BY <1>2 DEF Here, Waves!KeyIn
    <3>2. lane.free \cap Waves!Named(lane.into).key = {} => Here = <<0, 0>>
      BY <1>1, <2>3, HereKey DEF WavesInv, RowInv
    <3> QED BY <1>2, <2>3, <2>7, <2>8, <3>1, <3>2 DEF KeysHeld
  <2>14. VersionsHeld'
    BY <1>2, <1>3, <2>7, <2>8, <2>9 DEF VersionsHeld
  <2>15. CopiesBehind'
    BY <1>2, <2>3 DEF CopiesBehind, CopiedFrom
  <2> QED BY <2>10, <2>11, <2>12, <2>13, <2>14, <2>15 DEF WavesInv, RowInv
<1> QED BY <1>5, <1>6

\* A command that ends or goes on in another phase than the backfill knows no more than before.
LEMMA BeginKeeps == WavesInv /\ Waves!Begin => WavesInv'
<1>1. SUFFICES ASSUME WavesInv, Waves!Begin PROVE WavesInv'
  OBVIOUS
<1>2. UNCHANGED <<lane, row, ref, maps, held, settled, now>>
  BY <1>1 DEF Waves!Begin, Waves!sources
<1>3. PICK phase \in {"schema", "backfill", "rbac"}, through \in Through :
        /\ phase = "backfill" => Waves!Valid(through)
        /\ job' = [pc |-> "run", phase |-> phase, through |-> through, file |-> 1, quiet |-> TRUE]
  BY <1>1 DEF Waves!Begin, Waves!Idle
<1>4. through \in Nat
  BY StopsAssumption DEF Waves!WavesAssumption
<1>5. job' \in Commands /\ job'.file = 1 /\ job'.phase = phase /\ job'.through = through
  BY <1>3, <1>4 DEF Commands
<1>6. settled' \in Nat
  BY <1>1, <1>2 DEF WavesInv, RowInv, WaveTypes
<1>7. RowInv' /\ (Reached' <=> Reached) /\ (AllCopied' <=> AllCopied)
      /\ \A w : Waves!Valid(w)' <=> Waves!Valid(w)
  BY <1>1, <1>2, <1>5, <1>6, RowsRest DEF WavesInv
<1>8. Waves!Wave(lane)' = Waves!Wave(lane)
  BY <1>2 DEF Waves!Wave
<1>9. phase = "backfill" => Waves!Valid(job.through)'
  BY <1>2, <1>3, <1>5 DEF Waves!Valid, Waves!NoUnapproved, Waves!Wave01Current,
     Waves!Wave04Current, Waves!Approved
<1>10. Progress'
  BY <1>1, <1>2, <1>5, <1>7, <1>8, <1>9 DEF WavesInv, Progress
<1> QED BY <1>7, <1>10 DEF WavesInv

\* A schema file adds its tables to those of the files before it.
LEMMA SchemaFileKeeps == WavesInv /\ Waves!SchemaFile => WavesInv'
<1>1. SUFFICES ASSUME WavesInv, Waves!SchemaFile PROVE WavesInv'
  OBVIOUS
<1>2. /\ UNCHANGED <<lane, row, ref, maps, held, settled, now>>
      /\ job.pc = "run" /\ job.phase = "schema" /\ job' = [job EXCEPT !.file = @ + 1]
  BY <1>1 DEF Waves!SchemaFile, Waves!Going, Waves!Proceed, Waves!sources
<1>3. job \in Commands /\ settled' \in Nat
  BY <1>1, <1>2 DEF WavesInv, RowInv, WaveTypes
<1>4. /\ job' \in Commands /\ job'.pc = "run" /\ job'.phase = "schema"
      /\ job'.file = job.file + 1 /\ job.file \in Nat \ {0}
  BY <1>2, <1>3 DEF Commands
<1>5. RowInv' /\ (Reached' <=> Reached) /\ (AllCopied' <=> AllCopied)
  BY <1>1, <1>2, <1>3, <1>4, RowsRest DEF WavesInv
<1>6. Waves!Wave(lane)' = Waves!Wave(lane)
  BY <1>2 DEF Waves!Wave
<1>7. made' = made \cup Waves!Names(Waves!SchemaFiles[job.file].creates)
  BY <1>1, <1>2 DEF Waves!SchemaFile, Waves!Current, Waves!Files, Waves!FilesOf
<1>8. \A i \in 1 .. 15 : i < job.file' => Waves!Applied(i)'
  <2>1. SUFFICES ASSUME NEW i \in 1 .. 15, i < job.file + 1
                 PROVE  Waves!Names(Waves!SchemaFiles[i].creates) \subseteq made'
    BY <1>4 DEF Waves!Applied
  <2>2. CASE i = job.file
    BY <1>7, <2>2
  <2>3. CASE i < job.file
    <3>1. Waves!Applied(i)
      BY <1>1, <1>2, <2>3 DEF WavesInv, Progress
    <3> QED BY <1>7, <3>1 DEF Waves!Applied
  <2> QED BY <1>4, <2>1, <2>2, <2>3
<1>9. Progress'
  BY <1>1, <1>2, <1>4, <1>5, <1>6, <1>8 DEF WavesInv, Progress
<1> QED BY <1>5, <1>9 DEF WavesInv

\* A file of grants changes no rows.
LEMMA RbacFileKeeps == WavesInv /\ Waves!RbacFile => WavesInv'
<1>1. SUFFICES ASSUME WavesInv, Waves!RbacFile PROVE WavesInv'
  OBVIOUS
<1>2. /\ UNCHANGED <<lane, row, ref, maps, held, settled, now>>
      /\ job.pc = "run" /\ job.phase = "rbac" /\ job' = [job EXCEPT !.file = @ + 1]
  BY <1>1 DEF Waves!RbacFile, Waves!Going, Waves!Proceed, Waves!sources
<1>3. job \in Commands /\ settled' \in Nat
  BY <1>1, <1>2 DEF WavesInv, RowInv, WaveTypes
<1>4. job' \in Commands /\ job'.phase = "rbac"
  BY <1>2, <1>3 DEF Commands
<1>5. RowInv' /\ (Reached' <=> Reached) /\ (AllCopied' <=> AllCopied)
  BY <1>1, <1>2, <1>3, <1>4, RowsRest DEF WavesInv
<1>6. Waves!Wave(lane)' = Waves!Wave(lane)
  BY <1>2 DEF Waves!Wave
<1>7. Progress'
  BY <1>1, <1>2, <1>4, <1>5, <1>6 DEF WavesInv, Progress
<1> QED BY <1>5, <1>7 DEF WavesInv

\* Nor does a command that is aborted.
LEMMA AbortKeeps == WavesInv /\ Waves!Abort => WavesInv'
<1>1. SUFFICES ASSUME WavesInv, Waves!Abort PROVE WavesInv'
  OBVIOUS
<1>2. /\ UNCHANGED <<lane, row, ref, maps, held, settled, now>>
      /\ job' = Waves!Idle
  BY <1>1 DEF Waves!Abort, Waves!sources
<1>3. settled' \in Nat
  BY <1>1, <1>2 DEF WavesInv, RowInv, WaveTypes
<1>4. job' \in Commands /\ job'.pc = "idle"
  BY <1>2 DEF Commands, Waves!Idle
<1>5. RowInv' /\ (Reached' <=> Reached) /\ (AllCopied' <=> AllCopied)
  BY <1>1, <1>2, <1>3, <1>4, RowsRest DEF WavesInv
<1>6. Waves!Wave(lane)' = Waves!Wave(lane)
  BY <1>2 DEF Waves!Wave
<1>7. Progress'
  BY <1>1, <1>2, <1>4, <1>5, <1>6 DEF WavesInv, Progress
<1> QED BY <1>5, <1>7 DEF WavesInv

\* A backfill that went on to the end of its waves has the files of these waves behind it.
LEMMA FilesBehind ==
  ASSUME NEW file \in Nat \ {0}, NEW through \in Nat,
         file \in DOMAIN Waves!BackfillFiles => Waves!BackfillFiles[file].wave > through
  PROVE  /\ \A i \in 1 .. 6 : Waves!BackfillFiles[i].wave <= through => file > i
         /\ through >= 9 => file > 6
<1>1. file \in 1 .. 6 => <<1, 2, 3, 4, 4, 9>>[file] > through
  BY FilesInOrder
<1>2. ASSUME NEW i \in 1 .. 6, <<1, 2, 3, 4, 4, 9>>[i] <= through PROVE file > i
  BY <1>1, <1>2
<1>3. through >= 9 => file > 6
  BY <1>1
<1> QED BY <1>2, <1>3, FilesInOrder

\* A backfill that completes undisturbed has settled through its waves.
LEMMA CompleteKeeps == WavesInv /\ Waves!Complete => WavesInv'
<1>1. SUFFICES ASSUME WavesInv, Waves!Complete PROVE WavesInv'
  OBVIOUS
<1>2. /\ UNCHANGED <<lane, row, ref, maps, held, now>>
      /\ job' = Waves!Idle /\ job.pc = "run"
      /\ settled' = IF job.phase = "backfill" /\ job.quiet
                    THEN IF settled > job.through THEN settled ELSE job.through ELSE settled
  BY <1>1 DEF Waves!Complete, Waves!sources, Waves!Newest
<1>3. settled \in Nat /\ job.through \in Nat /\ job.file \in Nat \ {0}
  BY <1>1 DEF WavesInv, RowInv, WaveTypes, Commands
<1>4. job' \in Commands /\ job'.pc = "idle" /\ settled' \in Nat
  BY <1>2, <1>3 DEF Commands, Waves!Idle
<1>5. RowInv' /\ (Reached' <=> Reached) /\ (AllCopied' <=> AllCopied)
  BY <1>1, <1>2, <1>4, RowsRest DEF WavesInv
<1>6. Waves!Wave(lane)' = Waves!Wave(lane) /\ Waves!Wave(lane) \in 1 .. 9
  BY <1>1, <1>2, LaneShape DEF Waves!Wave, WavesInv, RowInv, WaveInto
<1>7. CASE settled' = settled
  BY <1>1, <1>2, <1>4, <1>5, <1>6, <1>7 DEF WavesInv, Progress
<1>8. CASE settled' # settled
  <2>1. job.phase = "backfill" /\ job.quiet /\ settled' = job.through
    BY <1>2, <1>8
  <2>2. job.file \in DOMAIN Waves!BackfillFiles => Waves!BackfillFiles[job.file].wave > job.through
    BY <1>1, <2>1 DEF Waves!Complete, Waves!Ended, Waves!Files, Waves!FilesOf
  <2>3. /\ \A i \in 1 .. 6 : Waves!BackfillFiles[i].wave <= job.through => job.file > i
        /\ job.through >= 9 => job.file > 6
    BY <1>3, <2>2, FilesBehind
  <2>4. PICK i \in 1 .. 6 : lane \in Waves!BackfillFiles[i].statements
    BY <1>1, LoadShape DEF WavesInv, RowInv, WaveTypes
  <2>5. Waves!BackfillFiles[i].wave = Waves!Wave(lane)
    BY <1>1, <2>4, StatementShape, LaneShape DEF WavesInv, RowInv
  <2>6. settled' >= Waves!Wave(lane) /\ row.at > 0 => Reached
    BY <1>1, <1>2, <2>1, <2>3, <2>4, <2>5 DEF WavesInv, Progress
  <2>7. settled' >= 9 => AllCopied
    BY <1>1, <1>2, <2>1, <2>3 DEF WavesInv, Progress
  <2>8. Progress'
    BY <1>2, <1>4, <1>5, <1>6, <2>6, <2>7 DEF Progress
  <2> QED BY <1>5, <2>8 DEF WavesInv
<1> QED BY <1>5, <1>7, <1>8 DEF WavesInv

\* What a statement would find depends on its table and on what it joins only.
LEMMA ReachedAgain ==
  ASSUME UNCHANGED <<lane, row, ref, maps>>, Waves!Final(lane.into)' = Waves!Final(lane.into)
  PROVE  Reached' <=> Reached
<1>1. Waves!Joined' = Waves!Joined
  BY DEF Waves!Joined, Waves!Approved
<1> QED BY <1>1 DEF Reached

\* The file of a backfill that goes on.
LEMMA BackfillFileIs ==
  ASSUME WavesInv, Waves!Going("backfill")
  PROVE  /\ job.pc = "run" /\ job.phase = "backfill" /\ job.file \in 1 .. 6
         /\ Waves!Current = Waves!BackfillFiles[job.file]
         /\ Waves!BackfillFiles[job.file].wave \in 1 .. 9
         /\ Waves!BackfillFiles[job.file].wave <= job.through
         /\ lane \in Waves!BackfillFiles[job.file].statements =>
              Waves!BackfillFiles[job.file].wave = Waves!Wave(lane)
<1>1. /\ job.pc = "run" /\ job.phase = "backfill"
      /\ job.file \in DOMAIN Waves!BackfillFiles
      /\ ~(Waves!BackfillFiles[job.file].wave > job.through)
      /\ Waves!Current = Waves!BackfillFiles[job.file]
  BY DEF Waves!Going, Waves!Ended, Waves!Files, Waves!FilesOf, Waves!Current
<1>2. job.file \in 1 .. 6 /\ Waves!BackfillFiles[job.file].wave \in 1 .. 9
  BY <1>1, FilesInOrder
<1>3. Waves!BackfillFiles[job.file].wave <= job.through
  BY <1>1, <1>2 DEF WavesInv, RowInv, WaveTypes, Commands
<1>4. lane \in Waves!BackfillFiles[job.file].statements =>
        Waves!BackfillFiles[job.file].wave = Waves!Wave(lane)
  BY <1>2, StatementShape, LaneShape DEF WavesInv, RowInv
<1> QED BY <1>1, <1>2, <1>3, <1>4

\* A backfill file inserts, or copies, and is then behind its command.
LEMMA BackfillFileKeeps == WavesInv /\ Waves!BackfillFile => WavesInv'
<1>1. SUFFICES ASSUME WavesInv, Waves!BackfillFile PROVE WavesInv'
  OBVIOUS
<1>2. /\ Waves!Going("backfill") /\ job' = [job EXCEPT !.file = @ + 1]
      /\ UNCHANGED <<lane, row, ref, maps, settled, now>>
      /\ held' = IF lane \in Waves!Current.statements THEN Waves!Inserted
                 ELSE IF Waves!Current.wave = 9 THEN Waves!Copied ELSE held
  BY <1>1 DEF Waves!BackfillFile, Waves!Proceed, Waves!sources
<1>3. /\ job.pc = "run" /\ job.phase = "backfill" /\ job.file \in 1 .. 6
      /\ Waves!Current = Waves!BackfillFiles[job.file]
      /\ Waves!BackfillFiles[job.file].wave \in 1 .. 9
      /\ Waves!BackfillFiles[job.file].wave <= job.through
      /\ lane \in Waves!BackfillFiles[job.file].statements =>
           Waves!BackfillFiles[job.file].wave = Waves!Wave(lane)
  BY <1>1, <1>2, BackfillFileIs
<1>4. /\ job \in Commands /\ settled \in Nat /\ job.through \in Nat
      /\ row.at \in Nat /\ (row.at > 0 <=> row.at # 0)
  BY <1>1 DEF WavesInv, RowInv, WaveTypes, Commands
<1>5. /\ job' \in Commands /\ settled' \in Nat
      /\ job'.pc = "run" /\ job'.phase = "backfill" /\ job'.through = job.through
      /\ job'.quiet = job.quiet /\ job'.file = job.file + 1
  BY <1>2, <1>3, <1>4 DEF Commands
<1>6. WaveTypes'
  BY <1>1, <1>2, <1>5 DEF WavesInv, RowInv, WaveTypes
<1>7. job.quiet => Waves!Valid(job.through)'
  <2>1. job.quiet => Waves!Valid(job.through)
    BY <1>1, <1>3 DEF WavesInv, Progress
  <2> QED BY <1>2, <1>5, <2>1 DEF Waves!Valid, Waves!NoUnapproved, Waves!Wave01Current,
             Waves!Wave04Current, Waves!Approved
<1>8. Waves!Wave(lane)' = Waves!Wave(lane) /\ Waves!Wave(lane) \in 1 .. 9
  BY <1>1, <1>2, LaneShape DEF Waves!Wave, WavesInv, RowInv, WaveInto
<1>9. CASE lane \in Waves!Current.statements
  <2>1. held' = Waves!Inserted
    BY <1>2, <1>9
  <2>2. RowsHeld' /\ KeysHeld' /\ VersionsHeld' /\ CopiesBehind'
    BY <1>1, <1>2, <2>1, InsertKeeps DEF WavesInv
  <2>3. CASE row.at = 0
    <3>1. held' = held
      BY <2>1, <2>3 DEF Waves!Inserted, Waves!Selected
    <3>2. AllCopied' <=> AllCopied
      BY <1>2, <3>1 DEF AllCopied, Waves!Final
    <3>3. lane \in Waves!BackfillFiles[6].statements => AllCopied'
      <4>1. \A s \in Waves!Backfill09 : s.into \notin CopiedFrom
        BY DEF Waves!Backfill09, Waves!Insert, CopiedFrom, Waves!Copies
      <4> QED BY <1>2, <4>1, FilesInOrder DEF AllCopied, CopiedFrom
    <3>4. job'.file > 6 => AllCopied'
      BY <1>3, <1>5, <1>9, <3>3
    <3> QED BY <1>1, <1>2, <1>4, <1>5, <1>6, <1>7, <1>8, <2>2, <2>3, <3>2, <3>4
            DEF WavesInv, RowInv, Progress
  <2>4. CASE row.at # 0
    <3>1. job.quiet => Reached'
      <4>1. job.quiet => Waves!Joined # {}
        BY <1>1, <1>3, <1>4, <1>9, <2>4, ValidJoins DEF WavesInv, Progress
      <4> QED BY <1>1, <1>2, <1>4, <2>1, <2>4, <4>1, InsertReaches DEF WavesInv
    <3>2. settled >= Waves!Wave(lane) => held' = held /\ Reached'
      <4>1. settled >= Waves!Wave(lane) => Reached
        BY <1>1, <1>4, <2>4 DEF WavesInv, Progress
      <4>2. Reached => held' = held
        BY <1>1, <1>4, <2>1, <2>4, ReachedKept DEF WavesInv
      <4>3. held' = held => (Reached' <=> Reached)
        BY <1>2, ReachedAgain DEF Waves!Final
      <4> QED BY <4>1, <4>2, <4>3
    <3>3. settled >= 9 => AllCopied'
      <4>1. settled >= 9 => AllCopied /\ held' = held
        BY <1>1, <1>4, <1>8, <3>2 DEF WavesInv, Progress
      <4> QED BY <1>2, <4>1 DEF AllCopied, Waves!Final
    <3>4. lane \in Waves!BackfillFiles[6].statements => AllCopied'
      <4>1. \A s \in Waves!Backfill09 : s.into \notin CopiedFrom
        BY DEF Waves!Backfill09, Waves!Insert, CopiedFrom, Waves!Copies
      <4> QED BY <1>2, <4>1, FilesInOrder DEF AllCopied, CopiedFrom
    <3>5. job'.file > 6 => AllCopied'
      BY <1>3, <1>5, <1>9, <3>4
    <3> QED BY <1>2, <1>4, <1>5, <1>6, <1>7, <1>8, <2>2, <3>1, <3>2, <3>3, <3>5
            DEF WavesInv, RowInv, Progress
  <2> QED BY <2>3, <2>4
<1>10. CASE lane \notin Waves!Current.statements
  <2>1. /\ RowsHeld' /\ KeysHeld' /\ VersionsHeld' /\ CopiesBehind'
        /\ (Reached' <=> Reached) /\ (AllCopied => AllCopied')
        /\ Waves!Current.wave = 9 => AllCopied'
    <3>1. CASE Waves!Current.wave = 9
      <4>1. held' = Waves!Copied
        BY <1>2, <1>10, <3>1
      <4>2. /\ RowsHeld' /\ KeysHeld' /\ VersionsHeld' /\ CopiesBehind'
            /\ AllCopied' /\ Waves!Final(lane.into)' = Waves!Final(lane.into)
        BY <1>1, <1>2, <4>1, CopyKeeps DEF WavesInv
      <4> QED BY <1>2, <4>2, ReachedAgain
    <3>2. CASE Waves!Current.wave # 9
      <4>1. held' = held
        BY <1>2, <1>10, <3>2
      <4>2. RowInv' /\ (Reached' <=> Reached) /\ (AllCopied' <=> AllCopied)
        BY <1>1, <1>2, <1>5, <4>1, RowsRest DEF WavesInv
      <4> QED BY <3>2, <4>2 DEF RowInv
    <3> QED BY <3>1, <3>2
  <2>2. \A i \in 1 .. 6 : lane \in Waves!BackfillFiles[i].statements /\ job'.file > i => job.file > i
    BY <1>3, <1>5, <1>10
  <2>3. job'.file > 6 => Waves!Current.wave = 9
    BY <1>3, <1>5, FilesInOrder
  <2>4. Progress'
    BY <1>1, <1>2, <1>3, <1>4, <1>5, <1>7, <1>8, <2>1, <2>2, <2>3 DEF WavesInv, Progress
  <2> QED BY <1>6, <2>1, <2>4 DEF WavesInv, RowInv
<1> QED BY <1>9, <1>10

\* Where the waves rest, so does what is known of them.
LEMMA WavesRest == WavesInv /\ UNCHANGED wavesVars => WavesInv'
<1>1. SUFFICES ASSUME WavesInv, UNCHANGED wavesVars PROVE WavesInv'
  OBVIOUS
<1>2. UNCHANGED <<made, lane, row, ref, maps, held, job, settled, now>>
  BY <1>1 DEF wavesVars
<1>3. job' \in Commands /\ settled' \in Nat
  BY <1>1, <1>2 DEF WavesInv, RowInv, WaveTypes
<1>4. RowInv' /\ (Reached' <=> Reached) /\ (AllCopied' <=> AllCopied)
  BY <1>1, <1>2, <1>3, RowsRest DEF WavesInv
<1>5. Waves!Wave(lane)' = Waves!Wave(lane)
  BY <1>2 DEF Waves!Wave
<1>6. Waves!Valid(job.through)' <=> Waves!Valid(job.through)
  BY <1>2 DEF Waves!Valid, Waves!NoUnapproved, Waves!Wave01Current, Waves!Wave04Current,
     Waves!Approved
<1>7. \A i \in 1 .. 15 : Waves!Applied(i)' <=> Waves!Applied(i)
  BY <1>2 DEF Waves!Applied
<1>8. Progress'
  BY <1>1, <1>2, <1>4, <1>5, <1>6, <1>7 DEF WavesInv, Progress
<1> QED BY <1>4, <1>8 DEF WavesInv

\* So every step of the waves keeps the invariant.
LEMMA WavesStep == WavesInv /\ Waves!Next => WavesInv'
BY WriteRowKeeps, WriteReferenceKeeps, StageKeeps, ApproveKeeps, BeginKeeps, SchemaFileKeeps,
   BackfillFileKeeps, RbacFileKeeps, CompleteKeeps, AbortKeeps DEF Waves!Next

-----------------------------------------------------------------------------
(* What the invariant says of a backfill that has settled.                  *)

\* A set whose members are all equal has at most one.
LEMMA AtMostOne ==
  ASSUME NEW S, \A g, h \in S : g = h
  PROVE  Waves!Cardinality(S) <= 1
<1>1. CASE S = {}
  BY <1>1, SameCard, FS_EmptySet
<1>2. CASE S # {}
  <2>1. PICK g \in S : TRUE
    BY <1>2
  <2>2. S = {g}
    BY <2>1
  <2> QED BY <2>2, SameCard, FS_Singleton
<1> QED BY <1>1, <1>2

\* A schema file finds what it alters or reads.
LEMMA NeedsFound ==
  ASSUME WavesInv, Waves!Going("schema")
  PROVE  Waves!Current.needs \subseteq made
<1>1. /\ job.pc = "run" /\ job.phase = "schema" /\ job.file \in DOMAIN Waves!SchemaFiles
      /\ Waves!Current = Waves!SchemaFiles[job.file]
  BY DEF Waves!Going, Waves!Ended, Waves!Files, Waves!FilesOf, Waves!Current
<1>2. job.file \in 1 .. 15
  BY <1>1, SchemaInOrder
<1>3. \A i \in 1 .. 15 : i < job.file => Waves!Names(Waves!SchemaFiles[i].creates) \subseteq made
  BY <1>1 DEF WavesInv, Progress, Waves!Applied
<1>4. \A j \in 1 .. job.file - 1 : j \in 1 .. 15 /\ j < job.file
  BY <1>2
<1>5. \A name \in Waves!Current.needs :
        \E j \in 1 .. job.file - 1 : name \in Waves!Names(Waves!SchemaFiles[j].creates)
  BY <1>1, <1>2, NeedsAreMadeBefore
<1> QED BY <1>3, <1>4, <1>5

\* No legacy row is left behind.
LEMMA RowsReach ==
  ASSUME WavesInv, settled >= Waves!Wave(lane), row.at > 0
  PROVE  \A name \in Waves!Reaches(lane) :
           \E h \in Waves!Final(name) : h.at = row.at \/ lane.into \in Waves!Fixed
<1>1. PICK h \in Waves!Final(lane.into) : lane.admit # "absent" => h.at = row.at
  BY DEF WavesInv, Progress, Reached
<1>2. lane.admit = "absent" => lane.into \in Waves!Fixed
  BY LaneShape DEF WavesInv, RowInv, Shape
<1>3. h \in held /\ Record(h)
  BY DEF Waves!Final, WavesInv, RowInv, RowsHeld
<1>4. ASSUME settled >= 9, NEW c \in Waves!Copies, c[1] = lane.into
      PROVE  \E g \in Waves!Final(c[2]) : g.at = h.at
  <2>1. [h EXCEPT !.in = c[2]] \in Waves!Final(c[2])
    BY <1>4 DEF WavesInv, Progress, AllCopied
  <2>2. [h EXCEPT !.in = c[2]].at = h.at
    BY <1>3 DEF Record
  <2> QED BY <2>1, <2>2
<1> QED BY <1>1, <1>2, <1>4 DEF Waves!Reaches

\* None is there twice.
LEMMA RowsOnce ==
  ASSUME WavesInv, NEW name \in {lane.into} \cup {c[2] : c \in Waves!Copies},
         lane.free \cap Waves!Named(name).key = {}
  PROVE  Waves!Cardinality(Waves!Final(name)) <= 1
<1>1. ASSUME lane.into # "raw.archive", lane.free \cap Waves!Named(lane.into).key = {}
      PROVE  \A g, h \in Waves!Final(name) : g = h
  BY <1>1 DEF Waves!Final, WavesInv, RowInv, KeysHeld
<1>2. CASE name = lane.into
  <2>1. lane.into = "raw.archive" => \A g, h \in Waves!Final(name) : g = h
    BY DEF Waves!Final, WavesInv, RowInv, KeysHeld
  <2> QED BY <1>1, <1>2, <2>1, AtMostOne
<1>3. CASE name # lane.into
  <2>1. PICK c \in Waves!Copies : name = c[2]
    BY <1>3
  <2>2. CASE c[1] # lane.into
    BY <2>1, <2>2, HeldApart, AtMostOne DEF WavesInv
  <2>3. CASE c[1] = lane.into
    <3>1. lane.free \subseteq {"resolution"}
      BY <2>3, LaneShape DEF WavesInv, RowInv, Shape, CopiedFrom
    <3>2. "resolution" \in Waves!Named(name).key
      BY <2>1, CopiedKeys DEF CopiedTo
    <3>3. lane.free = {}
      BY <3>1, <3>2
    <3>4. lane.into # "raw.archive"
      BY <2>3 DEF Waves!Copies
    <3> QED BY <1>1, <3>3, <3>4, AtMostOne
  <2> QED BY <2>2, <2>3
<1> QED BY <1>2, <1>3

\* The three parts of completeness.
LEMMA WavesInvComplete == WavesInv => BackfillComplete
BY NeedsFound, RowsReach, RowsOnce DEF BackfillComplete, Waves!BackfillComplete

\* A step within a wave that has settled changes no row.
LEMMA SettledStep ==
  ASSUME WavesInv, Waves!Next, Waves!Going("backfill"), Waves!Current.wave <= settled
  PROVE  held' = held
<1>1. /\ Waves!Current = Waves!BackfillFiles[job.file]
      /\ Waves!BackfillFiles[job.file].wave \in 1 .. 9
      /\ lane \in Waves!BackfillFiles[job.file].statements =>
           Waves!BackfillFiles[job.file].wave = Waves!Wave(lane)
  BY BackfillFileIs
<1>2. settled \in Nat /\ row.at \in Nat
  BY DEF WavesInv, RowInv, WaveTypes
<1>3. CASE Waves!BackfillFile
  <2>1. CASE lane \in Waves!Current.statements
    <3>1. held' = Waves!Inserted
      BY <1>3, <2>1 DEF Waves!BackfillFile
    <3>2. CASE row.at = 0
      BY <3>1, <3>2 DEF Waves!Inserted, Waves!Selected
    <3>3. CASE row.at > 0
      <4>1. Reached
        BY <1>1, <2>1, <3>3 DEF WavesInv, Progress
      <4> QED BY <3>1, <3>3, <4>1, ReachedKept DEF WavesInv
    <3> QED BY <1>2, <3>2, <3>3
  <2>2. CASE lane \notin Waves!Current.statements /\ Waves!Current.wave = 9
    <3>1. held' = Waves!Copied
      BY <1>3, <2>2 DEF Waves!BackfillFile
    <3>2. AllCopied
      BY <1>2, <2>2 DEF WavesInv, Progress
    <3> QED BY <3>1, <3>2, CopySettled DEF WavesInv
  <2>3. CASE lane \notin Waves!Current.statements /\ Waves!Current.wave # 9
    BY <1>3, <2>3 DEF Waves!BackfillFile
  <2> QED BY <2>1, <2>2, <2>3
<1>4. CASE Waves!Stage
  <2>1. SUFFICES ASSUME lane.into \in Waves!StagedRows, Waves!Final(lane.into) = {}, row.at > 0
                 PROVE  FALSE
    BY <1>4 DEF Waves!Stage
  <2>2. Waves!Wave(lane) = 1
    BY <2>1, LaneShape DEF WavesInv, RowInv, Waves!StagedRows, WaveInto
  <2>3. settled >= Waves!Wave(lane)
    BY <1>1, <1>2, <2>2
  <2> QED BY <2>1, <2>3 DEF WavesInv, Progress, Reached
<1>5. CASE \/ Waves!WriteRow \/ Waves!WriteReference \/ Waves!Approve \/ Waves!Begin
           \/ Waves!SchemaFile \/ Waves!RbacFile \/ Waves!Complete \/ Waves!Abort
  BY <1>5 DEF Waves!WriteRow, Waves!WriteReference, Waves!Approve, Waves!Begin,
              Waves!SchemaFile, Waves!RbacFile, Waves!Complete, Waves!Abort
<1> QED BY <1>3, <1>4, <1>5 DEF Waves!Next

-----------------------------------------------------------------------------
(* Of the migrations together.                                              *)

\* Steps of the runner and of the alembic chain leave the waves alone.
LEMMA WavesMove == MigrationsNext => Waves!Next \/ UNCHANGED wavesVars
BY DEF MigrationsNext, Running, Filling, Revising

\* Whatever is written, rewritten, staged, approved, aborted and repeated in between: rows of v2
\* come from the legacy row, no key is held twice, versions never run ahead of what they stand
\* for, copies never run ahead of what they copy, and a command knows the files behind it.
THEOREM RowsOfTheWaves == MigrationsSpec => []WavesInv
<1>1. MigrationsInit => WavesInv
  BY WavesStart DEF MigrationsInit
<1>2. WavesInv /\ [MigrationsNext]_allVars => WavesInv'
  <2>1. UNCHANGED allVars => UNCHANGED wavesVars
    BY DEF allVars
  <2> QED BY <2>1, WavesMove, WavesStep, WavesRest
<1> QED BY <1>1, <1>2, PTL DEF MigrationsSpec

\* A backfill that has settled has left no legacy row behind and copied none twice, through
\* every statement of the backfill files.
THEOREM SettledIsComplete == MigrationsSpec => []BackfillComplete
BY RowsOfTheWaves, WavesInvComplete, PTL

\* Repeating a backfill that has settled changes no row.
THEOREM SettledIsIdempotent == MigrationsSpec => RerunSettles
<1>1. WavesInv /\ [MigrationsNext]_allVars
        => [Waves!Going("backfill") /\ Waves!Current.wave <= settled /\ job' # Waves!Idle
              => held' = held]_(Waves!vars)
  <2>1. SUFFICES ASSUME WavesInv, MigrationsNext \/ UNCHANGED allVars,
                        Waves!Going("backfill"), Waves!Current.wave <= settled
                 PROVE  held' = held
    OBVIOUS
  <2>2. CASE Waves!Next
    BY <2>1, <2>2, SettledStep
  <2>3. CASE ~Waves!Next
    BY <2>1, <2>3, WavesMove DEF allVars, wavesVars
  <2> QED BY <2>2, <2>3
<1> QED BY <1>1, RowsOfTheWaves, PTL DEF MigrationsSpec, RerunSettles, Waves!RerunSettles

\* What is proved of the runner holds of it among the migrations: the others leave it alone.
THEOREM RunnerAmongMigrations ==
  MigrationsSpec => /\ [](MutualExclusion /\ SucceededApplied /\ WavesInOrder /\ OneVersion)
                    /\ ImplementsLog
<1>1. MigrationsInit => Init
  BY DEF MigrationsInit
<1>2. [MigrationsNext]_allVars => [Next]_vars
  BY DEF MigrationsNext, Running, Filling, Revising, allVars
<1>3. MigrationsSpec => Spec
  BY <1>1, <1>2, PTL DEF MigrationsSpec, Spec
<1> QED BY <1>3, Exclusive, JournalSound, ForwardOnly, DriftGuarded, Refines, PTL

=============================================================================
